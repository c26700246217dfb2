------------------------ MODULE MessageArchive_proofs ------------------------
(***************************************************************************)
(* The safety properties of MessageArchive hold for any number of pages,   *)
(* of records in a page and of page pointers, whatever the clock shows and *)
(* however often the power is cut: the sector that is erased to take a     *)
(* record holds none on show, and the archive implements RecordLog.        *)
(*                                                                         *)
(* The invariant follows the records from the flash into the memory and    *)
(* to the display.  Number gives the number that belongs into each cell of *)
(* the ring; Memory says where it is there, InMemory and InFlash where it  *)
(* is in the pages, Pointed that the pointer to the page is the one that   *)
(* a boot takes, and Bootable that the boot after a cut that the archive   *)
(* survives finds all three again.  Busy and Gone follow a chip that is     *)
(* still erasing after a clear, and the record that it may then ignore.    *)
(***************************************************************************)
EXTENDS MessageArchive, WellFoundedInduction, TLAPS

Types ==
  /\ ptrs \in [PtrCells -> [stamp : {Torn, Blank} \cup Times, page : Pages]]
  /\ pages \in [Pages -> [Cells -> Torn .. added]] /\ erasing \in Pages \cup {Null}
  /\ arch_buf \in [Cells -> Torn .. added + 1]
  /\ last_rec_ptr \in Cells \cup {Null}
  /\ archive_page_num \in Pages
  /\ offset_in_page_ptr_page \in 0 .. PtrSlots
  /\ slot \in Cells /\ now \in Times
  /\ pc \in {"off", "ready", "fill", "erase", "program", "erasePtrs", "programPtr", "erasePages"}
  /\ op \in {"none", "add", "turn", "clear"}
  /\ added \in 0 .. MaxRecords /\ cleared \in 0 .. added /\ since \in 0 .. added - cleared
  /\ stampedInOrder \in BOOLEAN /\ sound \in BOOLEAN
  /\ missed \in BOOLEAN /\ scarred \in BOOLEAN

\* What each operation finds at each of its steps.
Steps ==
  /\ pc \in {"off", "ready"} => op = "none"
  /\ pc \in {"fill", "erase", "program"} => op \in {"add", "turn"}
  /\ pc \in {"erasePtrs", "programPtr"} =>
       op \in {"turn", "clear"} /\ offset_in_page_ptr_page < PtrSlots
  /\ pc = "erasePages" => op = "clear"
  /\ op = "add" => pc \in {"fill", "erase", "program"}
  /\ op \in {"add", "turn"} => added < MaxRecords
  /\ op = "turn" => last_rec_ptr = PageRecords - 1 /\ slot = 0
  /\ op = "clear" => arch_buf = BlankPage /\ last_rec_ptr = Null /\ archive_page_num = 0

Open == pc # "off" /\ op # "clear"
Filled == pc \in {"erase", "program"}

\* The newest record's slot, whatever add_record_to_archive has moved already.
Top == IF op = "add" THEN slot - 1 ELSE last_rec_ptr

\* The chip is busy only between a clear and the first record, or the next clear.
Busy ==
  erasing # Null =>
    /\ sound /\ archive_page_num = 0 /\ pc \notin {"off", "erasePages"} /\ op # "turn"
    /\ op # "clear" => added = cleared /\ Top = Null
    /\ missed => erasing = 0

\* The number that belongs into a cell of the ring when n records were added and the
\* newest is in cell last; it is there if it is greater than Base.
Number(n, last, i) == n - last + i - (IF i > last THEN PageRecords ELSE 0)
Base == IF sound THEN cleared ELSE added - since

\* No record is in the flash twice.
Unique ==
  \A p, q \in Pages : \A i, j \in Cells :
    pages[p][i] = pages[q][j] /\ pages[p][i] > 0 => p = q /\ i = j

\* The first cell of a page that a record is sure to be in, when it was added.
First(p) == IF missed /\ p = 0 THEN 1 ELSE 0

\* Pages fill from that cell on.
Form ==
  ~scarred => /\ \A p \in Pages, i \in Cells : pages[p][i] # Torn
              /\ \A p \in Pages, i, j \in Cells :
                   First(p) <= i /\ i < j /\ pages[p][i] = Blank => pages[p][j] = Blank

Memory ==
  Open =>
    /\ Filled => arch_buf[slot] = added + 1
    /\ \A i \in Cells : ~(Filled /\ i = slot) =>
         /\ arch_buf[i] <= added
         /\ Number(added, Top, i) > Base => arch_buf[i] = Number(added, Top, i)
         /\ sound /\ Number(added, Top, i) <= Base => ~Valid(arch_buf[i])
    /\ sound => added - cleared > Top
    /\ sound /\ Top = Null => added = cleared

ViewTypes == view \in [1 .. Len(view) -> 1 .. added] /\ Len(view) \in 0 .. PageRecords
ViewReady == pc = "ready" => view = Shown(arch_buf, last_rec_ptr)
ViewSound ==
  sound => view = [k \in 1 .. (IF added - cleared < PageRecords THEN added - cleared
                                ELSE PageRecords) |-> added - k + 1]

\* A record is in cell i of page p of the flash, if anywhere.
OnlyAt(r, p, i) == pages[p][i] = r \/ \A q \in Pages, j \in Cells : pages[q][j] # r

ViewTurn ==
  op = "turn" /\ ~scarred =>
    \A k \in 1 .. Len(view) : \E i \in Cells : OnlyAt(view[k], Page, i)

\* The page is filled up to its newest record.
PageHolds(p, last) ==
  \A i \in Cells :
    /\ First(p) <= i /\ i <= last => pages[p][i] > 0
    /\ i > last /\ (First(p) = 0 \/ last >= 1) => pages[p][i] = Blank

InMemory ==
  Open /\ ~scarred /\ erasing # Page =>
    /\ PageHolds(Page, Top)
    /\ \A i \in Cells : First(Page) <= i /\ i <= Top /\ ~(Filled /\ i = slot) =>
         pages[Page][i] = arch_buf[i]
    /\ pc = "erase" => op = "turn" \/ slot <= First(Page)
    /\ pc = "program" => \A i \in Cells :
         i = slot \/ (i > slot /\ slot >= First(archive_page_num)) =>
           pages[archive_page_num][i] = Blank

\* The record that a busy chip ignored.
Gone ==
  Open /\ ~scarred /\ op # "turn" /\ Top >= 0 /\ First(Page) = 1 /\ arch_buf[0] > 0 =>
    OnlyAt(arch_buf[0], 0, 0)

\* The page before has the rest of the ring, or the ring has not yet come to it.
Rest(p, last) ==
  /\ \A i \in Cells : i > last /\ First(PrevPage(p)) <= i /\ Number(added, last, i) > Base =>
       pages[PrevPage(p)][i] = Number(added, last, i)
  /\ sound /\ added - cleared < PageRecords =>
       \A q \in Pages \ {p}, i \in Cells : pages[q][i] <= cleared

InFlash ==
  Open /\ ~scarred => /\ Rest(Page, Top)
                      /\ op = "turn" /\ sound => added - cleared >= PageRecords

\* A boot finds the pointer in cell c, and in it page p.
PtrAt(c, p) ==
  /\ c \in PtrCells /\ ptrs[c].page = p
  /\ \A i \in 0 .. c : ValidPtr(ptrs[i])
  /\ \A i \in PtrCells \ {c} : ptrs[i].stamp < ptrs[c].stamp

\* Has the page been turned since the damage?
TurnedSince == sound \/ since > Top + 1

Pointed ==
  stampedInOrder =>
    /\ pc = "ready" \/ op = "add" =>
         (TurnedSince => PtrAt(offset_in_page_ptr_page - 1, archive_page_num))
    /\ (op = "turn" /\ pc \in {"fill", "erase", "program"}) \/ pc = "erasePages" =>
         PtrAt(offset_in_page_ptr_page - 1, archive_page_num)
    /\ op = "turn" /\ pc \in {"erasePtrs", "programPtr"} /\ TurnedSince =>
         \/ pc = "programPtr" /\ \A i \in PtrCells : ptrs[i] = BlankPtr
         \/ \E c \in PtrCells : PtrAt(c, Page)

\* What the flash holds for a boot to find: all that was on show.
Kept(c, p, last) ==
  /\ PtrAt(c, p) /\ First(p) = 0 /\ PageHolds(p, last) /\ Rest(p, last)
  /\ last = Null => added = cleared
  /\ \A i \in Cells :
       /\ i <= last => pages[p][i] = Number(added, last, i) /\ Number(added, last, i) > cleared
       /\ i > last /\ Number(added, last, i) <= cleared => pages[PrevPage(p)][i] = Blank

Bootable ==
  pc = "off" /\ sound =>
    \/ \A i \in PtrCells : ptrs[i] = BlankPtr
    \/ ~scarred /\ stampedInOrder
       /\ \E c \in PtrCells, p \in Pages, last \in Cells \cup {Null} : Kept(c, p, last)

Damaged == pc = "off" /\ ~sound => since = 0

IInv ==
  /\ Types /\ Steps /\ Busy /\ Unique /\ Form /\ Memory
  /\ ViewTypes /\ ViewReady /\ ViewSound /\ ViewTurn
  /\ InMemory /\ Gone /\ InFlash /\ Pointed /\ Bootable /\ Damaged

-----------------------------------------------------------------------------
(* The limits of the constants, and runs of cells. *)

LEMMA Limits ==
  /\ PageCnt \in Nat /\ PageCnt >= 2 /\ PageRecords \in Nat /\ PageRecords >= 1
  /\ PtrSlots \in Nat /\ PtrSlots >= 1 /\ MaxRecords \in Nat
  /\ Healing \in Nat /\ Healing >= 2 * PageRecords
  /\ ClearedPages \in 1 .. PageCnt /\ Times \subseteq Nat \ {0}
  /\ Cells = 0 .. PageRecords - 1 /\ PtrCells = 0 .. PtrSlots - 1 /\ Pages = 0 .. PageCnt - 1
  /\ Null = -1 /\ Blank = 0 /\ Torn = -1
BY ArchiveAssumption DEF Cells, PtrCells, Pages, Null, Blank, Torn

\* Of the numbers that satisfy a condition, one is the least.
LEMMA Least ==
  ASSUME NEW T \in SUBSET Nat, T # {}
  PROVE  \E m \in T : \A k \in T : m <= k
<1>1. PICK m \in T : \A k \in T : ~ (<<k, m>> \in OpToRel(<, Nat))
  BY NatLessThanWellFounded, WFMin, Zenon
<1>2. \A k \in T : ~ k < m
  BY <1>1, Zenon DEF OpToRel
<1> QED
  BY <1>2

RunIs(good, n, c) == c \in 0 .. n /\ 0 .. c - 1 \subseteq good /\ (c < n => c \notin good)

LEMMA SomeRun ==
  ASSUME NEW good, NEW n \in Nat
  PROVE  \E c \in 0 .. n : RunIs(good, n, c)
<1> DEFINE T == {c \in Nat : c >= n \/ c \notin good}
<1>1. T \in SUBSET Nat /\ n \in T
  OBVIOUS
<1>2. PICK m \in T : \A k \in T : m <= k
  BY <1>1, Least
<1>3. m \in 0 .. n
  BY <1>1, <1>2
<1>4. \A k \in 0 .. m - 1 : k \notin T /\ k \in Nat
  BY <1>2, <1>3
<1>5. 0 .. m - 1 \subseteq good
  BY <1>4
<1>6. m < n => m \notin good
  BY <1>2, <1>3
<1> QED
  BY <1>3, <1>5, <1>6, Zenon DEF RunIs

LEMMA RunFound ==
  ASSUME NEW good, NEW n \in Nat
  PROVE  RunIs(good, n, LongestRun(good, n))
<1>1. LongestRun(good, n) = CHOOSE c \in 0 .. n : 0 .. c - 1 \subseteq good /\ (c < n => c \notin good)
  BY DEF LongestRun
<1>2. \E c \in 0 .. n : 0 .. c - 1 \subseteq good /\ (c < n => c \notin good)
  BY SomeRun, Zenon DEF RunIs
<1> QED
  BY <1>1, <1>2, Zenon DEF RunIs

LEMMA RunIsOne ==
  ASSUME NEW good, NEW n \in Nat, NEW c, RunIs(good, n, c)
  PROVE  LongestRun(good, n) = c
<1> DEFINE m == LongestRun(good, n)
<1>1. RunIs(good, n, m)
  BY RunFound
<1> HIDE DEF m
<1>2. m \in 0 .. n /\ c \in 0 .. n
  BY <1>1 DEF RunIs
<1>3. ~ m < c
  <2> SUFFICES ASSUME m < c PROVE FALSE
    OBVIOUS
  <2>1. m \in 0 .. c - 1 /\ m < n
    BY <1>2
  <2> QED
    BY <1>1, <2>1, Zenon DEF RunIs
<1>4. ~ c < m
  <2> SUFFICES ASSUME c < m PROVE FALSE
    OBVIOUS
  <2>1. c \in 0 .. m - 1 /\ c < n
    BY <1>2
  <2> QED
    BY <1>1, <2>1, Zenon DEF RunIs
<1>5. m = c
  BY <1>2, <1>3, <1>4
<1> QED
  BY <1>5 DEF m

\* The page after another is not it, and has it before.
LEMMA NextAndPrev ==
  ASSUME NEW p \in Pages
  PROVE  /\ PrevPage(p) \in Pages /\ PrevPage(p) # p
         /\ NextPage(p) \in Pages /\ NextPage(p) # p /\ PrevPage(NextPage(p)) = p
  BY Limits DEF PrevPage, NextPage

-----------------------------------------------------------------------------
(* What is on show. *)

\* The cell k places back.
Place(last, k) == IF last >= k THEN last - k ELSE last - k + PageRecords

LEMMA PlaceIsCell ==
  ASSUME NEW last \in Cells, NEW k \in Cells
  PROVE  Place(last, k) \in Cells
  BY Limits DEF Place

LEMMA NumberAtPlace ==
  ASSUME NEW last \in Cells, NEW k \in Cells, NEW n \in Nat
  PROVE  Number(n, last, Place(last, k)) = n - k
  BY Limits DEF Place, Number

LEMMA ShownIs ==
  ASSUME NEW buf, NEW last \in Cells
  PROVE  LET n == RecordsCnt(buf, last)
         IN  /\ n \in 0 .. PageRecords
             /\ Shown(buf, last) = [k \in 1 .. n |-> buf[Place(last, k - 1)]]
             /\ Len(Shown(buf, last)) = n
             /\ \A k \in 0 .. n - 1 : k \in Cells /\ Valid(buf[Place(last, k)])
             /\ n < PageRecords => ~Valid(buf[Place(last, n)])
<1> DEFINE good == {k \in Cells : Valid(Back(buf, last, k))}
           n == RecordsCnt(buf, last)
<1>1. n = LongestRun(good, PageRecords)
  BY Limits DEF RecordsCnt
<1> HIDE DEF n
<1>2. RunIs(good, PageRecords, n)
  BY <1>1, RunFound, Limits
<1>3. n \in 0 .. PageRecords
  BY <1>2, Zenon DEF RunIs
<1>4. \A k \in 0 .. n - 1 : k \in Cells /\ Valid(buf[Place(last, k)])
  BY <1>2, Zenon DEF RunIs, Back, Place
<1>5. n < PageRecords => ~Valid(buf[Place(last, n)])
  <2> SUFFICES ASSUME n < PageRecords PROVE ~Valid(buf[Place(last, n)])
    OBVIOUS
  <2>1. n \in Cells
    BY <1>3, Limits
  <2>2. n \notin good
    BY <1>2, Zenon DEF RunIs
  <2> QED
    BY <2>1, <2>2, Zenon DEF Back, Place
<1>6. Shown(buf, last) = [k \in 1 .. n |-> buf[Place(last, k - 1)]]
  BY Zenon DEF Shown, Back, Place, n
<1> DEFINE e(k) == buf[Place(last, k - 1)]
<1> HIDE DEF e
<1>7. Len([k \in 1 .. n |-> e(k)]) = n
  BY <1>3, Limits
<1> QED
  BY <1>3, <1>4, <1>5, <1>6, <1>7 DEF n, e

\* An archive without a newest record shows nothing.
LEMMA NothingShown ==
  ASSUME NEW buf
  PROVE  Shown(buf, Null) = <<>>
<1>1. RecordsCnt(buf, Null) = 0
  BY DEF RecordsCnt
<1>2. 1 .. 0 = {}
  OBVIOUS
<1>3. Shown(buf, Null) = [k \in 1 .. 0 |-> Back(buf, Null, k - 1)]
  BY <1>1, Zenon DEF Shown
<1>4. \A f : f = [k \in {} |-> Back(buf, Null, k - 1)] => f = <<>>
  OBVIOUS
<1> QED
  BY <1>2, <1>3, <1>4

\* A buffer that holds the newest records of n, and nothing older than c, shows them.
LEMMA ShownNewest ==
  ASSUME NEW buf, NEW last \in Cells \cup {Null}, NEW n \in Nat, NEW c \in 0 .. n,
         \A i \in Cells : /\ Number(n, last, i) > c => buf[i] = Number(n, last, i)
                          /\ Number(n, last, i) <= c => ~Valid(buf[i]),
         last = Null => n = c
  PROVE  Shown(buf, last) = [k \in 1 .. (IF n - c < PageRecords THEN n - c ELSE PageRecords)
                               |-> n - k + 1]
<1> DEFINE m == IF n - c < PageRecords THEN n - c ELSE PageRecords
<1>1. m \in 0 .. PageRecords /\ m <= n - c /\ (m < PageRecords => m = n - c)
  BY Limits
<1>2. CASE last = Null
  <2>1. m = 0 /\ 1 .. m = {}
    BY <1>2, Limits
  <2> HIDE DEF m
  <2>2. [k \in 1 .. m |-> n - k + 1] = <<>>
    BY <2>1
  <2> QED
    BY <1>2, <2>2, NothingShown DEF m
<1>3. CASE last \in Cells
  <2> HIDE DEF m
  <2>1. ASSUME NEW k \in 0 .. m - 1 PROVE k \in Cells /\ Back(buf, last, k) = n - k /\ Valid(Back(buf, last, k))
    <3>1. k \in Cells /\ n - k > c /\ n - k > 0
      BY <1>1, Limits
    <3>2. Place(last, k) \in Cells /\ Number(n, last, Place(last, k)) = n - k
      BY <1>3, <3>1, PlaceIsCell, NumberAtPlace
    <3>3. buf[Place(last, k)] = n - k
      BY <3>1, <3>2
    <3>4. Back(buf, last, k) = buf[Place(last, k)]
      BY Zenon DEF Back, Place
    <3> QED
      BY <3>1, <3>3, <3>4 DEF Valid
  <2>2. ASSUME m < PageRecords PROVE ~Valid(Back(buf, last, m))
    <3>1. m \in Cells /\ n - m <= c
      BY <1>1, <2>2, Limits
    <3>2. Place(last, m) \in Cells /\ Number(n, last, Place(last, m)) = n - m
      BY <1>3, <3>1, PlaceIsCell, NumberAtPlace
    <3>3. Back(buf, last, m) = buf[Place(last, m)]
      BY Zenon DEF Back, Place
    <3> QED
      BY <3>1, <3>2, <3>3
  <2> DEFINE good == {k \in Cells : Valid(Back(buf, last, k))}
  <2>3. RunIs(good, PageRecords, m)
    <3>1. 0 .. m - 1 \subseteq good
      BY <2>1
    <3>2. m < PageRecords => m \notin good
      BY <2>2
    <3> QED
      BY <1>1, <3>1, <3>2, Zenon DEF RunIs
  <2>4. RecordsCnt(buf, last) = m
    <3>1. last # Null
      BY <1>3, Limits
    <3> QED
      BY <2>3, <3>1, RunIsOne, Limits DEF RecordsCnt
  <2>5. \A k \in 1 .. m : Back(buf, last, k - 1) = n - k + 1
    <3> SUFFICES ASSUME NEW k \in 1 .. m PROVE Back(buf, last, k - 1) = n - k + 1
      OBVIOUS
    <3>1. k - 1 \in 0 .. m - 1
      BY <1>1
    <3>2. Back(buf, last, k - 1) = n - (k - 1)
      BY <2>1, <3>1
    <3> QED
      BY <3>2
  <2>6. Shown(buf, last) = [k \in 1 .. m |-> Back(buf, last, k - 1)]
    BY <2>4, Zenon DEF Shown
  <2> QED
    BY <2>5, <2>6 DEF m
<1> QED
  BY <1>2, <1>3

\* What is shown are records of the buffer.
LEMMA ShownFrom ==
  ASSUME NEW buf, NEW last \in Cells \cup {Null}
  PROVE  /\ Len(Shown(buf, last)) \in 0 .. PageRecords
         /\ DOMAIN Shown(buf, last) = 1 .. Len(Shown(buf, last))
         /\ \A k \in 1 .. Len(Shown(buf, last)) :
              Valid(Shown(buf, last)[k]) /\ \E i \in Cells : Shown(buf, last)[k] = buf[i]
<1>1. CASE last = Null
  BY <1>1, NothingShown, Limits
<1>2. CASE last \in Cells
  <2> DEFINE s == Shown(buf, last)
             n == RecordsCnt(buf, last)
  <2>1. /\ n \in 0 .. PageRecords /\ s = [k \in 1 .. n |-> buf[Place(last, k - 1)]] /\ Len(s) = n
        /\ \A k \in 0 .. n - 1 : k \in Cells /\ Valid(buf[Place(last, k)])
    BY <1>2, ShownIs
  <2> HIDE DEF n, s
  <2>2. ASSUME NEW k \in 1 .. n PROVE Valid(s[k]) /\ \E i \in Cells : s[k] = buf[i]
    <3>1. k - 1 \in 0 .. n - 1
      BY <2>1
    <3>2. s[k] = buf[Place(last, k - 1)] /\ k - 1 \in Cells /\ Valid(buf[Place(last, k - 1)])
      BY <2>1, <3>1
    <3> QED
      BY <1>2, <3>2, PlaceIsCell
  <2> QED
    BY <2>1, <2>2 DEF s
<1> QED
  BY <1>1, <1>2

-----------------------------------------------------------------------------
(* What a boot finds. *)

LEMMA NumberIs ==
  ASSUME NEW n \in Nat, NEW last \in Cells \cup {Null}, NEW i \in Cells
  PROVE  /\ Number(n, last, i) \in Int
         /\ i > last => Number(n, last, i) = n - last + i - PageRecords /\ Number(n, last, i) <= n
         /\ i <= last => Number(n, last, i) = n - last + i /\ Number(n, last, i) <= n
         /\ Number(n, last, i) > n - PageRecords
  BY Limits DEF Number

LEMMA PtrTypes ==
  ASSUME Types, NEW i \in PtrCells
  PROVE  ptrs[i].stamp \in Int /\ ptrs[i].page \in Pages
<1>1. ptrs[i] \in [stamp : {Torn, Blank} \cup Times, page : Pages]
  BY DEF Types
<1>2. Times \subseteq Int /\ Torn \in Int /\ Blank \in Int
  BY Limits
<1> QED
  BY <1>1, <1>2

LEMMA CellTypes ==
  ASSUME Types, NEW p \in Pages, NEW i \in Cells
  PROVE  pages[p][i] \in -1 .. added /\ added \in Nat
<1>1. pages[p][i] \in Torn .. added /\ added \in 0 .. MaxRecords
  BY DEF Types
<1> QED
  BY <1>1, Limits

\* Among the pointers of a run, one has the greatest stamp, and one is the first that has.
LEMMA Latest ==
  ASSUME Types, NEW n \in 1 .. PtrSlots
  PROVE  \E i \in 0 .. n - 1 : /\ \A j \in 0 .. n - 1 : ptrs[j].stamp <= ptrs[i].stamp
                               /\ \A j \in 0 .. i - 1 : ptrs[j].stamp < ptrs[i].stamp
<1> DEFINE stamp(i) == ptrs[i].stamp
           Top1(m) == \E i \in 0 .. m - 1 : \A j \in 0 .. m - 1 : stamp(j) <= stamp(i)
           T == {m \in 1 .. n : ~Top1(m)}
           F == {i \in 0 .. n - 1 : \A j \in 0 .. n - 1 : stamp(j) <= stamp(i)}
<1>1. \A i \in 0 .. n - 1 : stamp(i) \in Int
  BY PtrTypes, Limits
<1> HIDE DEF stamp
<1>2. T = {}
  <2> SUFFICES ASSUME T # {} PROVE FALSE
    OBVIOUS
  <2>1. T \in SUBSET Nat
    OBVIOUS
  <2>2. PICK m \in T : \A k \in T : m <= k
    BY <2>1, Least
  <2>3. m # 1
    <3> SUFFICES ASSUME m = 1 PROVE FALSE
      OBVIOUS
    <3>1. stamp(0) <= stamp(0)
      BY <1>1
    <3>2. Top1(1)
      BY <3>1
    <3> QED
      BY <3>2
  <2>4. m - 1 \in 1 .. n /\ m - 1 \notin T
    <3>1. m \in 1 .. n
      BY <2>2
    <3>2. m - 1 \in 1 .. n
      BY <2>3, <3>1
    <3>3. ~ m <= m - 1
      BY <3>1
    <3> QED
      BY <2>2, <3>2, <3>3, Zenon
  <2>5. PICK i \in 0 .. m - 2 : \A j \in 0 .. m - 2 : stamp(j) <= stamp(i)
    BY <2>4
  <2>6. CASE stamp(m - 1) <= stamp(i)
    <3>1. \A j \in 0 .. m - 1 : stamp(j) <= stamp(i)
      BY <2>2, <2>5, <2>6
    <3> QED
      BY <2>2, <2>5, <3>1
  <2>7. CASE ~ stamp(m - 1) <= stamp(i)
    <3>1. \A j \in 0 .. m - 1 : stamp(j) <= stamp(m - 1)
      <4> SUFFICES ASSUME NEW j \in 0 .. m - 1 PROVE stamp(j) <= stamp(m - 1)
        OBVIOUS
      <4>1. j \in 0 .. n - 1 /\ i \in 0 .. n - 1 /\ m - 1 \in 0 .. n - 1
        BY <2>2, <2>5
      <4>2. j = m - 1 \/ j \in 0 .. m - 2
        BY <2>2
      <4> QED
        BY <1>1, <2>5, <2>7, <4>1, <4>2
    <3> QED
      BY <2>2, <3>1
  <2> QED
    BY <2>6, <2>7
<1>3. n \in 1 .. n
  BY Limits
<1>4. Top1(n)
  BY <1>2, <1>3
<1>5. F \in SUBSET Nat /\ F # {}
  BY <1>4
<1>6. PICK i \in F : \A k \in F : i <= k
  BY <1>5, Least
<1>7. \A j \in 0 .. i - 1 : stamp(j) < stamp(i)
  <2> SUFFICES ASSUME NEW j \in 0 .. i - 1 PROVE stamp(j) < stamp(i)
    OBVIOUS
  <2>1. j \in 0 .. n - 1 /\ i \in 0 .. n - 1 /\ j \notin F
    BY <1>6
  <2>2. PICK k \in 0 .. n - 1 : ~ stamp(k) <= stamp(j)
    BY <2>1
  <2>3. stamp(k) <= stamp(i)
    BY <1>6
  <2> QED
    BY <1>1, <2>1, <2>2, <2>3
<1> QED
  BY <1>6, <1>7 DEF stamp

\* A boot that finds a pointer takes the latest of those it has read.
LEMMA BootPtr ==
  ASSUME Types, PtrRun > 0
  PROVE  /\ PtrRun \in 1 .. PtrSlots
         /\ LatestPtr \in 0 .. PtrRun - 1 /\ LatestPtr \in PtrCells
         /\ \A j \in 0 .. PtrRun - 1 : ptrs[j].stamp <= ptrs[LatestPtr].stamp
<1>1. PtrRun \in 0 .. PtrSlots
  BY RunFound, Limits DEF PtrRun, RunIs
<1>2. PtrRun \in 1 .. PtrSlots
  BY <1>1
<1>3. /\ LatestPtr \in 0 .. PtrRun - 1
      /\ \A j \in 0 .. PtrRun - 1 : ptrs[j].stamp <= ptrs[LatestPtr].stamp
  BY <1>2, Latest, Zenon DEF LatestPtr
<1>4. LatestPtr \in PtrCells
  BY <1>2, <1>3, Limits
<1> QED
  BY <1>2, <1>3, <1>4

\* It finds the pointer that is later than all others, if none is missing before it.
LEMMA BootPtrAt ==
  ASSUME Types, NEW c, NEW p, PtrAt(c, p)
  PROVE  PtrRun > 0 /\ LatestPtr = c /\ ptrs[LatestPtr].page = p
<1> DEFINE good == {i \in PtrCells : ValidPtr(ptrs[i])}
<1>1. PtrRun = LongestRun(good, PtrSlots)
  BY DEF PtrRun
<1>2. RunIs(good, PtrSlots, PtrRun)
  BY <1>1, RunFound, Limits
<1>3. /\ c \in PtrCells /\ ptrs[c].page = p
      /\ \A i \in 0 .. c : ValidPtr(ptrs[i])
      /\ \A i \in PtrCells \ {c} : ptrs[i].stamp < ptrs[c].stamp
  BY Zenon DEF PtrAt
<1>4. PtrRun \in 0 .. PtrSlots
  BY <1>2 DEF RunIs
<1>5. PtrRun > c
  <2> SUFFICES ASSUME ~ PtrRun > c PROVE FALSE
    OBVIOUS
  <2>1. PtrRun < PtrSlots /\ PtrRun \in PtrCells /\ PtrRun \in 0 .. c
    BY <1>3, <1>4, Limits
  <2>2. PtrRun \in good
    BY <1>3, <2>1
  <2> QED
    BY <1>2, <2>1, <2>2, Zenon DEF RunIs
<1>6. PtrRun > 0 /\ c \in 0 .. PtrRun - 1
  BY <1>3, <1>4, <1>5, Limits
<1>7. ptrs[c].stamp <= ptrs[LatestPtr].stamp /\ LatestPtr \in PtrCells
  BY <1>6, BootPtr
<1>8. LatestPtr = c
  <2> SUFFICES ASSUME LatestPtr # c PROVE FALSE
    OBVIOUS
  <2>1. ptrs[LatestPtr].stamp < ptrs[c].stamp
    BY <1>3, <1>7
  <2>2. ptrs[LatestPtr].stamp \in Int /\ ptrs[c].stamp \in Int
    BY <1>3, <1>7, PtrTypes
  <2> QED
    BY <1>7, <2>1, <2>2
<1> QED
  BY <1>3, <1>6, <1>8

LEMMA PageRunIs ==
  ASSUME NEW p
  PROVE  /\ PageRun(p) \in 0 .. PageRecords
         /\ \A i \in Cells : i < PageRun(p) => pages[p][i] > 0
         /\ PageRun(p) < PageRecords => PageRun(p) \in Cells /\ ~(pages[p][PageRun(p)] > 0)
<1> DEFINE good == {i \in Cells : Valid(pages[p][i])}
<1>1. PageRun(p) = LongestRun(good, PageRecords)
  BY DEF PageRun
<1>2. RunIs(good, PageRecords, PageRun(p))
  BY <1>1, RunFound, Limits
<1>3. PageRun(p) \in 0 .. PageRecords
  BY <1>2 DEF RunIs
<1>4. ASSUME NEW i \in Cells, i < PageRun(p) PROVE pages[p][i] > 0
  <2>1. i \in 0 .. PageRun(p) - 1
    BY <1>3, <1>4, Limits
  <2> QED
    BY <1>2, <2>1, Zenon DEF RunIs, Valid
<1>5. ASSUME PageRun(p) < PageRecords PROVE PageRun(p) \in Cells /\ ~(pages[p][PageRun(p)] > 0)
  <2>1. PageRun(p) \in Cells
    BY <1>3, <1>5, Limits
  <2> QED
    BY <1>2, <1>5, <2>1, Zenon DEF RunIs, Valid
<1> QED
  BY <1>3, <1>4, <1>5

LEMMA FirstIs ==
  ASSUME NEW p
  PROVE  First(p) \in {0, 1} /\ (First(p) = 1 <=> missed /\ p = 0)
BY DEF First

\* The records of a page are found up to its newest.
LEMMA PageRunOf ==
  ASSUME NEW p, NEW last \in Cells \cup {Null}, PageHolds(p, last), First(p) = 0
  PROVE  PageRun(p) = last + 1
<1>1. \A i \in Cells : (i <= last => pages[p][i] > 0) /\ (i > last => pages[p][i] = 0)
  BY Limits DEF PageHolds
<1>2. PageRun(p) \in 0 .. PageRecords
  BY PageRunIs
<1>3. ~ PageRun(p) < last + 1
  <2> SUFFICES ASSUME PageRun(p) < last + 1 PROVE FALSE
    OBVIOUS
  <2>1. PageRun(p) < PageRecords /\ PageRun(p) <= last
    BY <1>2, Limits
  <2> QED
    BY <1>1, <2>1, PageRunIs
<1>4. ~ PageRun(p) > last + 1
  <2> SUFFICES ASSUME PageRun(p) > last + 1 PROVE FALSE
    OBVIOUS
  <2>1. last + 1 \in Cells /\ last + 1 < PageRun(p) /\ last + 1 > last
    BY <1>2, Limits
  <2>2. pages[p][last + 1] > 0 /\ pages[p][last + 1] = 0
    BY <1>1, <2>1, PageRunIs
  <2> QED
    BY <2>2
<1> QED
  BY <1>2, <1>3, <1>4, Limits

\* In flash without scars a page holds what a boot finds of it.
LEMMA PageHoldsRun ==
  ASSUME Types, Form, ~scarred, NEW p \in Pages
  PROVE  PageHolds(p, PageRun(p) - 1)
<1>1. /\ \A i \in Cells : pages[p][i] # Torn /\ pages[p][i] \in Torn .. added
      /\ \A i, j \in Cells : First(p) <= i /\ i < j /\ pages[p][i] = Blank => pages[p][j] = Blank
  <2>1. \A i \in Cells : pages[p][i] \in Torn .. added
    BY DEF Types
  <2> QED
    BY <2>1, Zenon DEF Form
<1>2. SUFFICES ASSUME NEW i \in Cells
               PROVE  /\ i <= PageRun(p) - 1 => pages[p][i] > 0
                      /\ i > PageRun(p) - 1 /\ (First(p) = 0 \/ PageRun(p) - 1 >= 1) =>
                           pages[p][i] = Blank
  BY Zenon DEF PageHolds
<1>3. /\ PageRun(p) \in 0 .. PageRecords /\ i \in 0 .. PageRecords - 1 /\ PageRecords \in Nat
      /\ First(p) \in {0, 1}
  BY PageRunIs, FirstIs, Limits
<1>4. CASE i < PageRun(p)
  BY <1>3, <1>4, PageRunIs
<1>5. CASE ~ i < PageRun(p) /\ (First(p) = 0 \/ PageRun(p) - 1 >= 1)
  <2>1. PageRun(p) \in Cells /\ ~(pages[p][PageRun(p)] > 0) /\ First(p) <= PageRun(p)
    BY <1>3, <1>5, PageRunIs
  <2>2. pages[p][PageRun(p)] = Blank
    <3>1. pages[p][PageRun(p)] \in -1 .. added /\ added \in Nat
      BY <2>1, CellTypes
    <3>2. pages[p][PageRun(p)] # -1
      BY <1>1, <2>1, Limits
    <3>3. ~(pages[p][PageRun(p)] > 0)
      BY <2>1
    <3> QED
      BY <3>1, <3>2, <3>3 DEF Blank
  <2>3. pages[p][i] = Blank
    <3>1. CASE i = PageRun(p)
      BY <2>2, <3>1
    <3>2. CASE i # PageRun(p)
      <4>1. PageRun(p) < i
        BY <1>3, <1>5, <3>2
      <4> QED
        BY <1>1, <2>1, <2>2, <4>1
    <3> QED
      BY <3>1, <3>2
  <2> QED
    BY <1>3, <1>5, <2>3
<1>6. CASE ~ i < PageRun(p) /\ ~(First(p) = 0 \/ PageRun(p) - 1 >= 1)
  BY <1>3, <1>6
<1> QED
  BY <1>4, <1>5, <1>6

-----------------------------------------------------------------------------
(* Types and steps. *)

LEMMA WritesPtr ==
  ASSUME Types, NEW o \in 0 .. PtrSlots, WritePtrAt(o)
  PROVE  PtrPlace(o) \in 0 .. PtrSlots - 1 /\ pc' \in {"erasePtrs", "programPtr"}
BY Limits DEF WritePtrAt, PtrPlace

LEMMA TypesStart ==
  ASSUME Types, Steps, StartAdd \/ StartClear \/ OpenNoArchive
  PROVE  Types'
<1>1. 0 \in Cells /\ 0 \in Pages /\ 0 \in 0 .. PtrSlots /\ BlankPage \in [Cells -> Torn .. added + 1]
  BY Limits DEF Types, BlankPage
<1>2. CASE StartAdd
  <2>1. UNCHANGED <<chip, arch_buf, now, added, view, history>> /\ op' \in {"add", "turn"}
    BY <1>2, Zenon DEF StartAdd
  <2>2. last_rec_ptr' \in Cells \cup {Null} /\ slot' \in Cells
    <3>1. last_rec_ptr \in Cells \cup {Null} /\ slot \in Cells
      BY DEF Types
    <3>2. \/ last_rec_ptr' = 0 /\ slot' = 0
          \/ last_rec_ptr # Null /\ last_rec_ptr + 1 < PageRecords
             /\ slot' = last_rec_ptr + 1 /\ last_rec_ptr' = last_rec_ptr
          \/ slot' = 0 /\ last_rec_ptr' = last_rec_ptr
      BY <1>2, Zenon DEF StartAdd
    <3>3. last_rec_ptr # Null /\ last_rec_ptr + 1 < PageRecords => last_rec_ptr + 1 \in Cells
      BY <3>1, Limits
    <3> QED
      BY <1>1, <3>1, <3>2, <3>3
  <2>3. /\ archive_page_num' \in Pages /\ offset_in_page_ptr_page' \in 0 .. PtrSlots
        /\ pc' \in {"fill", "erasePtrs", "programPtr"}
    <3>1. archive_page_num \in Pages /\ offset_in_page_ptr_page \in 0 .. PtrSlots
      BY DEF Types
    <3>2. CASE pc' = "fill" /\ UNCHANGED <<archive_page_num, offset_in_page_ptr_page>>
      BY <3>1, <3>2
    <3>3. CASE /\ archive_page_num' = NextPage(archive_page_num)
               /\ offset_in_page_ptr_page' = PtrPlace(offset_in_page_ptr_page)
               /\ WritePtrAt(offset_in_page_ptr_page)
      <4>1. PtrPlace(offset_in_page_ptr_page) \in 0 .. PtrSlots - 1 /\ pc' \in {"erasePtrs", "programPtr"}
        BY <3>1, <3>3, WritesPtr
      <4>2. NextPage(archive_page_num) \in Pages
        BY <3>1, NextAndPrev
      <4>3. 0 .. PtrSlots - 1 \subseteq 0 .. PtrSlots
        BY Limits
      <4> QED
        BY <3>3, <4>1, <4>2, <4>3
    <3> QED
      BY <1>2, <3>2, <3>3, Zenon DEF StartAdd
  <2> QED
    BY <2>1, <2>2, <2>3 DEF Types, chip, flash, history
<1>3. CASE StartClear \/ OpenNoArchive
  <2>1. /\ UNCHANGED <<chip, slot, now, added, view, history>>
        /\ arch_buf' = BlankPage /\ last_rec_ptr' = Null /\ archive_page_num' = 0
        /\ offset_in_page_ptr_page' = 0 /\ op' = "clear" /\ WritePtrAt(0)
    BY <1>3, Zenon DEF StartClear, OpenNoArchive, ClearRam
  <2>2. pc' \in {"erasePtrs", "programPtr"}
    BY <1>1, <2>1, WritesPtr
  <2> QED
    BY <1>1, <2>1, <2>2 DEF Types, chip, flash, history
<1> QED
  BY <1>2, <1>3

\* What the chip erases after a clear is blank when it is done.
LEMMA Finished ==
  ASSUME Types, Finish
  PROVE  /\ erasing \in Pages /\ erasing # Null /\ erasing' = Null
         /\ pages' \in [Pages -> [Cells -> Torn .. added]]
         /\ \A p \in Pages, i \in Cells : pages'[p][i] = IF p = erasing THEN Blank ELSE pages[p][i]
<1>1. BlankPage \in [Cells -> Torn .. added] /\ \A i \in Cells : BlankPage[i] = Blank
  BY Limits DEF Types, BlankPage
<1> QED
  BY <1>1 DEF Types, Finish

\* A write that has nothing to do with the pages, or is ignored, or the chip alone.
LEMMA TypesChip ==
  ASSUME Types, \/ UNCHANGED <<pages, erasing, missed>>
                \/ Finish /\ missed' = FALSE,
         added' = added
  PROVE  /\ pages' \in [Pages -> [Cells -> Torn .. added']]
         /\ erasing' \in Pages \cup {Null} /\ missed' \in BOOLEAN
BY Finished DEF Types

LEMMA TypesPtrs ==
  ASSUME Types, Steps, ErasePtrs \/ ProgramPtr
  PROVE  Types'
<1> DEFINE T == [stamp : {Torn, Blank} \cup Times, page : Pages]
<1>1. BlankPtr \in T /\ TornPtr \in T
  BY Limits DEF BlankPtr, TornPtr
<1>2. /\ \/ UNCHANGED <<pages, erasing, missed>>
         \/ Finish /\ missed' = FALSE
      /\ UNCHANGED <<arch_buf, last_rec_ptr, archive_page_num, op, slot, now,
                     added, view, cleared, sound, since, scarred, cuts>>
  BY Zenon DEF ErasePtrs, ProgramPtr, Ignored, ram
<1>3. /\ pages' \in [Pages -> [Cells -> Torn .. added']]
      /\ erasing' \in Pages \cup {Null} /\ missed' \in BOOLEAN
  BY <1>2, TypesChip
<1>4. CASE ErasePtrs
  <2>1. /\ ptrs' = [i \in PtrCells |-> BlankPtr] \/ ptrs' = ptrs
        /\ pc' = "programPtr" /\ UNCHANGED <<offset_in_page_ptr_page, stampedInOrder>>
    BY <1>4, Zenon DEF ErasePtrs, Ignored, ram
  <2>2. ptrs' \in [PtrCells -> T]
    BY <1>1, <2>1 DEF Types
  <2> QED
    BY <1>2, <1>3, <2>1, <2>2 DEF Types
<1>5. CASE ProgramPtr
  <2>1. /\ pc' \in {"erasePages", "fill"} /\ offset_in_page_ptr_page' = offset_in_page_ptr_page + 1
    BY <1>5, Zenon DEF ProgramPtr
  <2>2. offset_in_page_ptr_page \in 0 .. PtrSlots - 1
    BY <1>5, Limits DEF Types, Steps, ProgramPtr
  <2>3. ptrs' \in [PtrCells -> T]
    <3>1. PICK new : new = [stamp |-> now, page |-> archive_page_num]
      OBVIOUS
    <3>2. new \in T /\ ptrs \in [PtrCells -> T]
      BY <3>1 DEF Types
    <3>3. PICK cell \in {new, TornPtr} :
            ptrs' = [ptrs EXCEPT ![offset_in_page_ptr_page] = cell] \/ ptrs' = ptrs
      BY <1>5, <3>1 DEF ProgramPtr, Ignored
    <3> HIDE DEF T
    <3> QED
      BY <1>1, <3>2, <3>3
  <2>4. stampedInOrder' \in BOOLEAN
    BY <1>5, Zenon DEF ProgramPtr
  <2>5. offset_in_page_ptr_page' \in 0 .. PtrSlots
    BY <2>1, <2>2, Limits
  <2> QED
    BY <1>2, <1>3, <2>1, <2>3, <2>4, <2>5 DEF Types
<1> QED
  BY <1>4, <1>5

LEMMA TypesRecord ==
  ASSUME Types, Steps, FillBuffer \/ ErasePage \/ ProgramRecord
  PROVE  Types'
<1>1. BlankPage \in [Cells -> Torn .. added] /\ added \in Nat /\ added + 1 \in Torn .. added + 1
  BY Limits DEF Types, BlankPage
<1>2. CASE FillBuffer
  BY <1>1, <1>2, Limits DEF Types, FillBuffer, chip, flash, history
<1>3. CASE ErasePage
  <2>1. /\ pc' = "program" /\ ptrs' = ptrs
        /\ UNCHANGED <<ram, op, slot, now, added, cleared, stampedInOrder, sound, since, scarred>>
    BY <1>3, Zenon DEF ErasePage, Ignored
  <2>2. /\ pages' \in [Pages -> [Cells -> Torn .. added']]
        /\ erasing' \in Pages \cup {Null} /\ missed' \in BOOLEAN
    <3>1. CASE Ignored
      BY <2>1, <3>1, TypesChip DEF Ignored
    <3>2. CASE /\ pages' = [pages EXCEPT ![archive_page_num] = BlankPage] /\ erasing' = erasing
               /\ missed' = (missed /\ (archive_page_num # 0 \/ slot # 0))
      BY <1>1, <2>1, <3>2 DEF Types
    <3> QED
      BY <1>3, <3>1, <3>2, Zenon DEF ErasePage
  <2> QED
    BY <2>1, <2>2 DEF Types, ram
<1>4. CASE ProgramRecord
  <2>1. /\ \/ pages' = [pages EXCEPT ![archive_page_num][slot] = arch_buf[slot]]
              /\ UNCHANGED <<erasing, missed>>
           \/ Finish /\ missed' = TRUE
        /\ last_rec_ptr' = slot /\ added' = added + 1 /\ since' = IF sound THEN 0 ELSE since + 1
        /\ pc = "program" /\ pc' = "ready" /\ op' = "none"
        /\ UNCHANGED <<ptrs, arch_buf, archive_page_num, offset_in_page_ptr_page, slot, now,
                       cleared, stampedInOrder, scarred, cuts>>
    BY <1>4, Zenon DEF ProgramRecord
  <2>2. sound' \in BOOLEAN
    BY <1>4, Zenon DEF ProgramRecord
  <2>3. added < MaxRecords
    BY <2>1 DEF Steps
  <2>4. pages' \in [Pages -> [Cells -> Torn .. added']] /\ arch_buf' \in [Cells -> Torn .. added' + 1]
    <3>1. arch_buf \in [Cells -> Torn .. added + 1] /\ slot \in Cells /\ archive_page_num \in Pages
          /\ pages \in [Pages -> [Cells -> Torn .. added]]
      BY DEF Types
    <3>2. Torn .. added \subseteq Torn .. added' /\ Torn .. added + 1 \subseteq Torn .. added' + 1
      BY <1>1, <2>1
    <3>3. pages \in [Pages -> [Cells -> Torn .. added']] /\ arch_buf[slot] \in Torn .. added'
      BY <2>1, <3>1, <3>2
    <3>4. Finish => pages' \in [Pages -> [Cells -> Torn .. added']]
      <4>1. Finish => pages' \in [Pages -> [Cells -> Torn .. added]]
        BY Finished
      <4> QED
        BY <3>2, <4>1
    <3>5. arch_buf' \in [Cells -> Torn .. added' + 1]
      BY <2>1, <3>1, <3>2
    <3> HIDE DEF Torn
    <3> QED
      BY <2>1, <3>1, <3>3, <3>4, <3>5
  <2>5. added' \in 0 .. MaxRecords /\ cleared' \in 0 .. added' /\ since' \in 0 .. added' - cleared'
    <3>1. added \in 0 .. MaxRecords /\ cleared \in 0 .. added /\ since \in 0 .. added - cleared
      BY DEF Types
    <3>2. cleared' = cleared /\ added' = added + 1 /\ since' \in {0, since + 1}
      BY <2>1
    <3>3. added' \in 0 .. MaxRecords
      BY <2>3, <3>1, <3>2, Limits
    <3>4. cleared' \in 0 .. added' /\ since' \in 0 .. added' - cleared'
      BY <3>1, <3>2, Limits
    <3> QED
      BY <3>3, <3>4
  <2>6. /\ ptrs' \in [PtrCells -> [stamp : {Torn, Blank} \cup Times, page : Pages]]
        /\ last_rec_ptr' \in Cells \cup {Null} /\ archive_page_num' \in Pages
        /\ offset_in_page_ptr_page' \in 0 .. PtrSlots /\ slot' \in Cells /\ now' \in Times
        /\ stampedInOrder' \in BOOLEAN /\ scarred' \in BOOLEAN
    BY <2>1 DEF Types
  <2>7. erasing' \in Pages \cup {Null} /\ missed' \in BOOLEAN
    BY <2>1 DEF Types, Finish
  <2> QED
    BY <2>1, <2>2, <2>4, <2>5, <2>6, <2>7 DEF Types
<1> QED
  BY <1>2, <1>3, <1>4

LEMMA LoadedTypes ==
  ASSUME Types, NEW p \in Pages
  PROVE  /\ Loaded(p) \in [Cells -> Torn .. added]
         /\ \A i \in Cells : Loaded(p)[i] = IF i < PageRun(p) THEN pages[p][i] ELSE pages[PrevPage(p)][i]
         /\ PageRun(p) - 1 \in Cells \cup {Null}
         /\ (IF PageRun(p) = 0 THEN Null ELSE PageRun(p) - 1) = PageRun(p) - 1
<1>1. PrevPage(p) \in Pages /\ PageRun(p) \in 0 .. PageRecords
  BY NextAndPrev, PageRunIs
<1>2. PageRun(p) - 1 \in Cells \cup {Null}
  BY <1>1, Limits
<1>3. \A q \in Pages, i \in Cells : pages[q][i] \in Torn .. added
  BY DEF Types
<1> QED
  BY <1>1, <1>2, <1>3, Limits DEF Loaded

\* A boot loads the page of the latest pointer.
LEMMA Opened ==
  ASSUME Types, OpenArchive
  PROVE  /\ archive_page_num' \in Pages /\ ptrs[LatestPtr].page = archive_page_num'
         /\ offset_in_page_ptr_page' = LatestPtr + 1 /\ LatestPtr \in PtrCells
         /\ arch_buf' = Loaded(archive_page_num')
         /\ last_rec_ptr' = PageRun(archive_page_num') - 1
         /\ view' = Shown(arch_buf', last_rec_ptr') /\ pc = "off" /\ pc' = "ready"
         /\ UNCHANGED <<chip, op, slot, now, added, history>>
<1>1. PtrRun > 0
  BY Zenon DEF OpenArchive
<1>2. LatestPtr \in PtrCells /\ ptrs[LatestPtr].page \in Pages
  BY <1>1, BootPtr, PtrTypes
<1>3. PICK p : p = ptrs[LatestPtr].page
  OBVIOUS
<1>4. /\ archive_page_num' = p /\ offset_in_page_ptr_page' = LatestPtr + 1 /\ arch_buf' = Loaded(p)
      /\ last_rec_ptr' = IF PageRun(p) = 0 THEN Null ELSE PageRun(p) - 1
      /\ view' = Shown(arch_buf', last_rec_ptr') /\ pc = "off" /\ pc' = "ready"
      /\ UNCHANGED <<chip, op, slot, now, added, history>>
  BY <1>3, Zenon DEF OpenArchive
<1>5. last_rec_ptr' = PageRun(p) - 1
  BY <1>2, <1>3, <1>4, LoadedTypes
<1> QED
  BY <1>2, <1>3, <1>4, <1>5

LEMMA TypesRest ==
  ASSUME Types, Steps, ErasePages \/ OpenArchive \/ SetTime \/ ChipReady
  PROVE  Types'
<1>1. CASE ErasePages
  <2>1. PICK last \in 0 .. ClearedPages - 1 : \E ps \in SUBSET (0 .. last - 1) :
          /\ pages' = [p \in Pages |-> IF p \in ps THEN BlankPage ELSE pages[p]]
          /\ erasing' = last /\ missed' = (missed /\ last = 0)
    BY <1>1, Zenon DEF ErasePages
  <2>2. BlankPage \in [Cells -> Torn .. added] /\ added \in Nat /\ added \in 0 .. MaxRecords
    BY Limits DEF Types, BlankPage
  <2>3. pages' \in [Pages -> [Cells -> Torn .. added]]
    BY <2>1, <2>2 DEF Types
  <2>5. erasing' \in Pages \cup {Null} /\ missed' \in BOOLEAN
    <3>1. erasing' = last /\ last \in Pages
      BY <2>1, Limits
    <3>2. missed' \in BOOLEAN
      BY <2>1, Zenon
    <3> QED
      BY <3>1, <3>2
  <2>4. /\ cleared' = added /\ since' = 0 /\ sound' = TRUE /\ pc' = "ready" /\ op' = "none"
        /\ UNCHANGED <<ptrs, ram, slot, now, added, stampedInOrder, scarred, cuts>>
    BY <1>1, Zenon DEF ErasePages
  <2> QED
    BY <2>2, <2>3, <2>4, <2>5 DEF Types, ram
<1>2. CASE OpenArchive
  <2>1. LatestPtr + 1 \in 0 .. PtrSlots
    BY <1>2, Opened, Limits
  <2>2. Loaded(archive_page_num') \in [Cells -> Torn .. added + 1]
    <3>1. Loaded(archive_page_num') \in [Cells -> Torn .. added]
      BY <1>2, Opened, LoadedTypes
    <3>2. Torn .. added \subseteq Torn .. added + 1
      BY Limits DEF Types
    <3> HIDE DEF Torn
    <3> QED
      BY <3>1, <3>2
  <2>3. PageRun(archive_page_num') - 1 \in Cells \cup {Null}
    BY <1>2, Opened, LoadedTypes
  <2> QED
    BY <1>2, <2>1, <2>2, <2>3, Opened DEF Types, chip, flash, history
<1>3. CASE SetTime
  BY <1>3 DEF Types, SetTime, chip, flash, ram, history
<1>4. CASE ChipReady
  <2>1. /\ Finish /\ missed' = FALSE
        /\ UNCHANGED <<ptrs, ram, pc, op, slot, now, added, cleared, stampedInOrder, sound, since, scarred>>
    BY <1>4, Zenon DEF ChipReady
  <2>2. /\ pages' \in [Pages -> [Cells -> Torn .. added']] /\ erasing' \in Pages \cup {Null}
        /\ missed' \in BOOLEAN
    BY <2>1, TypesChip
  <2> QED
    BY <2>1, <2>2 DEF Types, ram
<1> QED
  BY <1>1, <1>2, <1>3, <1>4

LEMMA TornTypes ==
  ASSUME NEW S, NEW old, NEW torn, NEW T, old \in [S -> T], torn \in T,
         NEW f \in HalfErased(S, old, torn)
  PROVE  f \in [S -> T] /\ \A i \in S : f[i] = old[i] \/ f[i] = torn
<1>1. PICK k \in SUBSET S : f = [i \in S |-> IF i \in k THEN old[i] ELSE torn]
  BY DEF HalfErased
<1> QED
  BY <1>1

\* A power cut may tear cells of the sector that it finds at work.
LEMMA CutTears ==
  ASSUME Types, CutFlash
  PROVE  /\ ptrs' \in [PtrCells -> [stamp : {Torn, Blank} \cup Times, page : Pages]]
         /\ pages' \in [Pages -> [Cells -> Torn .. added]]
         /\ \A p \in Pages, i \in Cells : pages'[p][i] = pages[p][i] \/ pages'[p][i] = Torn
<1>1. /\ ptrs \in [PtrCells -> [stamp : {Torn, Blank} \cup Times, page : Pages]]
      /\ pages \in [Pages -> [Cells -> Torn .. added]]
      /\ Torn \in Torn .. added /\ archive_page_num \in Pages /\ slot \in Cells
  BY Limits DEF Types
<1>2. TornPtr \in [stamp : {Torn, Blank} \cup Times, page : Pages]
  BY Limits DEF TornPtr
<1> HIDE DEF Torn
<1>3. CASE UNCHANGED flash
  BY <1>1, <1>3 DEF chip, flash
<1>4. CASE ptrs' \in HalfErased(PtrCells, ptrs, TornPtr) /\ UNCHANGED pages
  <2>1. PICK T : T = [stamp : {Torn, Blank} \cup Times, page : Pages]
    OBVIOUS
  <2>2. ptrs' \in [PtrCells -> T]
    <3>1. ptrs \in [PtrCells -> T] /\ TornPtr \in T
      BY <1>1, <1>2, <2>1
    <3>2. ptrs' \in HalfErased(PtrCells, ptrs, TornPtr)
      BY <1>4
    <3> HIDE DEF TornPtr
    <3> QED
      BY <3>1, <3>2, TornTypes, Zenon
  <2> QED
    BY <1>1, <1>4, <2>1, <2>2
<1>5. CASE ptrs' = [ptrs EXCEPT ![offset_in_page_ptr_page] = TornPtr] /\ UNCHANGED pages
  BY <1>1, <1>2, <1>5
<1>7. CASE pages' = [pages EXCEPT ![archive_page_num][slot] = Torn] /\ UNCHANGED ptrs
  BY <1>1, <1>7
<1>6. CASE /\ \E p \in Pages : \E torn \in HalfErased(Cells, pages[p], Torn) :
                pages' = [pages EXCEPT ![p] = torn]
           /\ UNCHANGED ptrs
  <2>1. PICK p \in Pages : \E torn \in HalfErased(Cells, pages[p], Torn) :
                pages' = [pages EXCEPT ![p] = torn]
    BY <1>6
  <2>2. PICK torn \in HalfErased(Cells, pages[p], Torn) : pages' = [pages EXCEPT ![p] = torn]
    BY <2>1
  <2>4. /\ pages[p] \in [Cells -> Torn .. added] /\ Torn \in Torn .. added
        /\ torn \in HalfErased(Cells, pages[p], Torn)
    BY <1>1
  <2>3. torn \in [Cells -> Torn .. added]
        /\ \A i \in Cells : torn[i] = pages[p][i] \/ torn[i] = Torn
    BY <2>4, TornTypes, Zenon
  <2> QED
    BY <1>1, <1>6, <2>2, <2>3
<1>8. 0 .. ClearedPages - 1 \subseteq Pages /\ (erasing # Null => erasing \in Pages)
  BY Limits DEF Types
<1> QED
  BY <1>1, <1>3, <1>4, <1>5, <1>6, <1>7, <1>8, Zenon DEF CutFlash

LEMMA TypesCut ==
  ASSUME Types, PowerCut
  PROVE  Types'
<1>1. /\ arch_buf' = BlankPage /\ last_rec_ptr' = Null /\ archive_page_num' = 0
      /\ offset_in_page_ptr_page' = 0 /\ pc' = "off" /\ op' = "none" /\ slot' = 0
      /\ UNCHANGED <<now, added, view, cleared, stampedInOrder, missed>> /\ erasing' = Null
      /\ CutFlash
  BY Zenon DEF PowerCut
<1>2. BlankPage \in [Cells -> Torn .. added + 1] /\ 0 \in Cells /\ 0 \in Pages /\ 0 \in 0 .. PtrSlots
  BY Limits DEF Types, BlankPage
<1>3. scarred' \in BOOLEAN
  BY Zenon DEF PowerCut
<1>4. UNCHANGED <<sound, since>> \/ (sound' = FALSE /\ since' = 0)
  BY Zenon DEF PowerCut
<1>5. 0 \in 0 .. added - cleared
  BY DEF Types
<1> QED
  BY <1>1, <1>2, <1>3, <1>4, <1>5, CutTears DEF Types

LEMMA TypesKept ==
  ASSUME Types, Steps, Next
  PROVE  Types'
BY TypesStart, TypesPtrs, TypesRecord, TypesRest, TypesCut, Zenon DEF Next

LEMMA StepsKept ==
  ASSUME Types, Steps, Next
  PROVE  Steps'
<1>1. CASE StartAdd
  <2>1. /\ op' \in {"add", "turn"} /\ added' = added /\ added < MaxRecords
        /\ op' = "add" => pc' = "fill"
        /\ op' = "turn" => /\ last_rec_ptr + 1 = PageRecords /\ last_rec_ptr' = last_rec_ptr
                           /\ slot' = 0 /\ WritePtrAt(offset_in_page_ptr_page)
                           /\ offset_in_page_ptr_page' = PtrPlace(offset_in_page_ptr_page)
    BY <1>1, Zenon DEF StartAdd
  <2>2. offset_in_page_ptr_page \in 0 .. PtrSlots /\ last_rec_ptr \in Cells \cup {Null}
    BY DEF Types
  <2> QED
    BY <2>1, <2>2, WritesPtr, Limits DEF Steps
<1>2. CASE StartClear \/ OpenNoArchive
  <2>1. /\ arch_buf' = BlankPage /\ last_rec_ptr' = Null /\ archive_page_num' = 0
        /\ offset_in_page_ptr_page' = 0 /\ op' = "clear" /\ WritePtrAt(0)
    BY <1>2, Zenon DEF StartClear, OpenNoArchive, ClearRam
  <2>2. pc' \in {"erasePtrs", "programPtr"}
    BY <2>1, WritesPtr, Limits
  <2> QED
    BY <2>1, <2>2, Limits DEF Steps
<1>3. CASE ErasePtrs \/ ProgramPtr
  <2>1. /\ pc \in {"erasePtrs", "programPtr"} /\ (ProgramPtr => pc' = IF op = "clear" THEN "erasePages" ELSE "fill")
        /\ ErasePtrs => pc' = "programPtr" /\ offset_in_page_ptr_page' = offset_in_page_ptr_page
        /\ UNCHANGED <<op, slot, added, arch_buf, last_rec_ptr, archive_page_num>>
    BY <1>3, Zenon DEF ErasePtrs, ProgramPtr, ram
  <2> QED
    BY <1>3, <2>1 DEF Steps
<1>4. CASE FillBuffer \/ ErasePage
  <2>1. /\ pc \in {"fill", "erase"} /\ pc' \in {"erase", "program"}
        /\ UNCHANGED <<op, slot, added, last_rec_ptr, archive_page_num>>
    BY <1>4, Zenon DEF FillBuffer, ErasePage, ram
  <2> QED
    BY <2>1 DEF Steps
<1>5. CASE ProgramRecord \/ ErasePages
  BY <1>5 DEF Steps, ProgramRecord, ErasePages, ram
<1>6. CASE OpenArchive
  BY <1>6 DEF Steps, OpenArchive
<1>7. CASE SetTime \/ ChipReady
  <2>1. UNCHANGED <<ram, pc, op, slot, added>>
    BY <1>7, Zenon DEF SetTime, ChipReady
  <2> QED
    BY <2>1 DEF Steps, ram
<1>8. CASE PowerCut
  <2>1. pc' = "off" /\ op' = "none"
    BY <1>8, Zenon DEF PowerCut
  <2> QED
    BY <2>1 DEF Steps
<1> QED
  BY <1>1, <1>2, <1>3, <1>4, <1>5, <1>6, <1>7, <1>8, Zenon DEF Next

\* The chip gets busy with the end of a clear only.
LEMMA BusyKept ==
  ASSUME Types, Steps, Busy, Next
  PROVE  Busy'
<1>1. CASE ErasePtrs \/ ProgramPtr \/ ErasePage \/ ProgramRecord \/ ChipReady \/ PowerCut
  <2>1. erasing' = Null
    BY <1>1, Zenon DEF ErasePtrs, ProgramPtr, ErasePage, ProgramRecord, ChipReady, PowerCut, Ignored, Finish
  <2> QED
    BY <2>1 DEF Busy
<1>2. CASE OpenArchive \/ OpenNoArchive
  <2>1. pc = "off" /\ erasing' = erasing
    BY <1>2, Zenon DEF OpenArchive, OpenNoArchive, chip
  <2>2. erasing' = Null
    BY <2>1 DEF Busy
  <2> QED
    BY <2>2 DEF Busy
<1>3. SUFFICES ASSUME erasing' # Null, StartAdd \/ StartClear \/ FillBuffer \/ SetTime \/ ErasePages
               PROVE  Busy'
  BY <1>1, <1>2, Zenon DEF Next, Busy
<1>4. CASE StartAdd
  <2>1. /\ UNCHANGED <<erasing, missed, added, cleared, sound>> /\ pc = "ready"
        /\ pc' \in {"fill", "erasePtrs", "programPtr"}
    BY <1>4, Zenon DEF StartAdd, WritePtrAt, chip, history
  <2>2. op = "none" /\ sound /\ archive_page_num = 0 /\ added = cleared /\ last_rec_ptr = Null
        /\ (missed => erasing = 0)
    BY <1>3, <2>1 DEF Steps, Busy, Top
  <2>3. last_rec_ptr + 1 # PageRecords
    BY <2>2, Limits
  <2>4. op' = "add" /\ slot' = 0 /\ archive_page_num' = archive_page_num
    BY <1>4, <2>2, <2>3, Zenon DEF StartAdd
  <2>5. Top' = Null
    BY <2>4, Limits DEF Top
  <2> QED
    BY <2>1, <2>2, <2>4, <2>5 DEF Busy
<1>5. CASE StartClear
  <2>1. /\ UNCHANGED <<erasing, missed, sound>> /\ archive_page_num' = 0 /\ op' = "clear"
        /\ pc' \in {"erasePtrs", "programPtr"}
    BY <1>5, Zenon DEF StartClear, ClearRam, WritePtrAt, chip, history
  <2> QED
    BY <1>3, <2>1 DEF Busy
<1>6. CASE FillBuffer
  <2>1. /\ UNCHANGED <<erasing, missed, added, cleared, sound, archive_page_num, op, slot, last_rec_ptr>>
        /\ pc' \in {"erase", "program"}
    BY <1>6, Zenon DEF FillBuffer, chip, history
  <2> QED
    BY <1>3, <2>1 DEF Busy, Top
<1>7. CASE SetTime
  <2>1. UNCHANGED <<erasing, missed, added, cleared, sound, archive_page_num, op, slot, last_rec_ptr, pc>>
    BY <1>7, Zenon DEF SetTime, chip, ram, history
  <2> QED
    BY <1>3, <2>1 DEF Busy, Top
<1>8. CASE ErasePages
  <2>1. /\ pc = "erasePages" /\ pc' = "ready" /\ op' = "none" /\ sound' = TRUE /\ UNCHANGED <<ram, added>>
        /\ cleared' = added
    BY <1>8, Zenon DEF ErasePages
  <2>2. archive_page_num' = 0 /\ Top' = Null
    BY <2>1 DEF Steps, ram, Top
  <2>3. missed' => erasing' = 0
    BY <1>8 DEF ErasePages
  <2> QED
    BY <2>1, <2>2, <2>3 DEF Busy
<1> QED
  BY <1>3, <1>4, <1>5, <1>6, <1>7, <1>8

-----------------------------------------------------------------------------
(* The records in memory. *)

\* The new record in its slot, every other cell has still what belongs there.
LEMMA Added ==
  ASSUME Types, Steps, Memory, ProgramRecord
  PROVE  /\ slot \in Cells /\ added \in Nat /\ arch_buf[slot] = added + 1
         /\ op \in {"add", "turn"} /\ Open /\ Top \in Cells \cup {Null}
         /\ Top = (IF op = "add" THEN slot - 1 ELSE PageRecords - 1)
         /\ op = "turn" => slot = 0
         /\ \A i \in Cells : i # slot =>
              /\ Number(added + 1, slot, i) = Number(added, Top, i)
              /\ arch_buf[i] <= added
         /\ \A i \in Cells :
              /\ Number(added + 1, slot, i) > Base => arch_buf[i] = Number(added + 1, slot, i)
              /\ sound /\ Number(added + 1, slot, i) <= Base => ~Valid(arch_buf[i])
<1>1. pc = "program" /\ op \in {"add", "turn"} /\ (op = "turn" => last_rec_ptr = PageRecords - 1 /\ slot = 0)
  BY DEF ProgramRecord, Steps
<1>2. Open /\ Filled
  BY <1>1 DEF Open, Filled
<1>3. slot \in Cells /\ added \in Nat /\ Base \in Int /\ Base <= added
  BY Limits DEF Types, Base
<1>4. Top = (IF op = "add" THEN slot - 1 ELSE PageRecords - 1) /\ Top \in Cells \cup {Null}
  <2>1. Top = (IF op = "add" THEN slot - 1 ELSE PageRecords - 1)
    BY <1>1 DEF Top
  <2>2. slot - 1 \in Cells \cup {Null} /\ PageRecords - 1 \in Cells
    BY <1>3, Limits
  <2> QED
    BY <2>1, <2>2
<1>5. /\ arch_buf[slot] = added + 1
      /\ \A i \in Cells : i # slot =>
           /\ arch_buf[i] <= added
           /\ Number(added, Top, i) > Base => arch_buf[i] = Number(added, Top, i)
           /\ sound /\ Number(added, Top, i) <= Base => ~Valid(arch_buf[i])
  BY <1>2, Zenon DEF Memory
<1>6. ASSUME NEW i \in Cells, i # slot
      PROVE  Number(added + 1, slot, i) = Number(added, Top, i)
  BY <1>1, <1>3, <1>4, <1>6, Limits DEF Number
<1>7. Number(added + 1, slot, slot) = added + 1
  BY <1>3, Limits DEF Number
<1>8. ASSUME NEW i \in Cells
      PROVE  /\ Number(added + 1, slot, i) > Base => arch_buf[i] = Number(added + 1, slot, i)
             /\ sound /\ Number(added + 1, slot, i) <= Base => ~Valid(arch_buf[i])
  <2>1. CASE i = slot
    BY <1>3, <1>5, <1>7, <2>1
  <2>2. CASE i # slot
    BY <1>5, <1>6, <2>2
  <2> QED
    BY <2>1, <2>2
<1> HIDE DEF Top, Open, Number, Base, Valid
<1> QED
  BY <1>1, <1>2, <1>3, <1>4, <1>5, <1>6, <1>8, Zenon

\* The base of the numbers moves only when the archive becomes whole again: all that
\* could be missing was added since the damage.
LEMMA AddedBase ==
  ASSUME Types, ProgramRecord
  PROVE  \/ Base' = Base /\ sound' = sound
         \/ /\ ~sound /\ sound' /\ since + 1 >= 2 * PageRecords /\ Base' = cleared /\ cleared <= Base
            /\ \A last \in Cells, i \in Cells : Number(added + 1, last, i) > Base
<1>1. /\ sound \in BOOLEAN /\ added \in Nat /\ cleared \in Nat /\ since \in Nat
      /\ since <= added - cleared
  BY Limits DEF Types
<1>2. /\ added' = added + 1 /\ cleared' = cleared /\ since' = IF sound THEN 0 ELSE since + 1
      /\ sound' = (sound \/ since' >= Healing)
  BY Zenon DEF ProgramRecord
<1>3. CASE sound
  BY <1>2, <1>3 DEF Base
<1>4. CASE ~sound /\ ~(since + 1 >= Healing)
  <2>1. since' = since + 1 /\ ~sound'
    BY <1>2, <1>4
  <2> QED
    BY <1>1, <1>2, <1>4, <2>1 DEF Base
<1>5. CASE ~sound /\ since + 1 >= Healing
  <2>1. sound' /\ since + 1 >= 2 * PageRecords
    <3>1. since' = since + 1
      BY <1>2, <1>5
    <3>2. sound'
      BY <1>2, <1>5, <3>1, Zenon
    <3> QED
      BY <1>1, <1>5, <3>2, Limits
  <2>2. Base' = cleared /\ Base = added - since
    BY <1>2, <1>5, <2>1 DEF Base
  <2>3. ASSUME NEW last \in Cells, NEW i \in Cells PROVE Number(added + 1, last, i) > Base
    <3>1. Number(added + 1, last, i) > added + 1 - PageRecords /\ Number(added + 1, last, i) \in Int
      BY <1>1, Limits DEF Number
    <3> HIDE DEF Number
    <3> QED
      BY <1>1, <2>1, <2>2, <3>1, Limits
  <2> QED
    <3>1. cleared <= Base
      BY <1>1, <2>2
    <3> HIDE DEF Base
    <3> QED
      BY <1>5, <2>1, <2>2, <2>3, <3>1, Zenon
<1> QED
  BY <1>1, <1>3, <1>4, <1>5

LEMMA MemoryAdded ==
  ASSUME Types, Steps, Memory, ProgramRecord
  PROVE  Memory'
<1>1. /\ added' = added + 1 /\ last_rec_ptr' = slot /\ arch_buf' = arch_buf
      /\ pc' = "ready" /\ op' = "none" /\ cleared' = cleared
  BY Zenon DEF ProgramRecord
<1>2. Top' = slot /\ ~Filled'
  BY <1>1 DEF Top, Filled
<1>3. /\ slot \in Cells /\ added \in Nat /\ cleared \in Nat /\ cleared <= added
      /\ Base \in Int
  BY Limits DEF Types, Base
<1>4. ASSUME NEW i \in Cells PROVE arch_buf[i] <= added + 1
  <2>1. arch_buf[i] \in Int /\ arch_buf[slot] = added + 1 /\ (i # slot => arch_buf[i] <= added)
    <3>1. arch_buf[i] \in Torn .. added + 1
      BY <1>3 DEF Types
    <3> QED
      BY <1>3, <3>1, Added, Limits
  <2> QED
    BY <1>3, <2>1
<1>5. ASSUME NEW i \in Cells
      PROVE  /\ Number(added + 1, slot, i) > Base' => arch_buf[i] = Number(added + 1, slot, i)
             /\ sound' /\ Number(added + 1, slot, i) <= Base' => ~Valid(arch_buf[i])
  <2>1. /\ Number(added + 1, slot, i) > Base => arch_buf[i] = Number(added + 1, slot, i)
        /\ sound /\ Number(added + 1, slot, i) <= Base => ~Valid(arch_buf[i])
    BY Added
  <2>2. Number(added + 1, slot, i) \in Int
    BY <1>3, NumberIs
  <2> HIDE DEF Number
  <2>3. CASE Base' = Base /\ sound' = sound
    BY <2>1, <2>3
  <2>4. CASE ~(Base' = Base /\ sound' = sound)
    <3>1. Base' = cleared /\ cleared <= Base /\ Number(added + 1, slot, i) > Base
      BY <1>3, <2>4, AddedBase
    <3> HIDE DEF Base
    <3> QED
      BY <1>3, <2>1, <2>2, <3>1
  <2> QED
    BY <2>3, <2>4
<1>6. slot # Null
  BY <1>3, Limits
<1>7. \A i \in Cells : Number(added', Top', i) = Number(added + 1, slot, i)
  BY <1>1, <1>2
<1>8. ASSUME sound' PROVE added' - cleared' > Top'
  <2>1. CASE sound
    <3>1. op \in {"add", "turn"} /\ Top = (IF op = "add" THEN slot - 1 ELSE PageRecords - 1)
          /\ (op = "turn" => slot = 0) /\ Open
      BY Added
    <3>2. added - cleared > Top
      BY <2>1, <3>1, Zenon DEF Memory
    <3>3. \/ Top = slot - 1
          \/ Top = PageRecords - 1 /\ slot = 0
      BY <3>1
    <3> QED
      BY <1>1, <1>2, <1>3, <3>2, <3>3, Limits
  <2>2. CASE ~sound
    <3>1. since + 1 >= 2 * PageRecords /\ since \in 0 .. added - cleared
      BY <1>8, <2>2, AddedBase DEF Types
    <3> QED
      BY <1>1, <1>2, <1>3, <3>1, Limits
  <2> QED
    BY <2>1, <2>2
<1> QED
  BY <1>1, <1>2, <1>4, <1>5, <1>6, <1>8, Zenon DEF Memory

\* A boot after a cut that the archive survived finds what was on show.
LEMMA BootFinds ==
  ASSUME Types, Bootable, sound, OpenArchive
  PROVE  ~scarred /\ stampedInOrder /\ Kept(LatestPtr, archive_page_num', last_rec_ptr')
<1>1. PICK p \in Pages :
        /\ p = archive_page_num' /\ ptrs[LatestPtr].page = p
        /\ last_rec_ptr' = PageRun(p) - 1 /\ pc = "off"
  BY Opened
<1>2. ~ \A j \in PtrCells : ptrs[j] = BlankPtr
  <2>1. PtrRun > 0
    BY Zenon DEF OpenArchive
  <2>2. RunIs({i \in PtrCells : ValidPtr(ptrs[i])}, PtrSlots, PtrRun)
    BY RunFound, Limits DEF PtrRun
  <2>3. 0 \in 0 .. PtrRun - 1
    BY <2>1, BootPtr
  <2>4. 0 \in PtrCells /\ ValidPtr(ptrs[0])
    BY <2>2, <2>3, Zenon DEF RunIs
  <2> QED
    BY <2>4, Limits DEF ValidPtr, BlankPtr
<1>3. PICK c \in PtrCells, q \in Pages, l \in Cells \cup {Null} :
        ~scarred /\ stampedInOrder /\ Kept(c, q, l)
  BY <1>1, <1>2, Zenon DEF Bootable
<1>4. PtrAt(c, q) /\ PageHolds(q, l) /\ First(q) = 0
  BY <1>3, Zenon DEF Kept
<1>5. LatestPtr = c /\ q = p /\ PageRun(q) = l + 1
  BY <1>1, <1>4, BootPtrAt, PageRunOf
<1>6. l = last_rec_ptr'
  BY <1>1, <1>5, Limits
<1> QED
  BY <1>1, <1>3, <1>5, <1>6

LEMMA MemoryKept ==
  ASSUME Types, Steps, Memory, Next, Bootable, Damaged
  PROVE  Memory'
<1> USE DEF Open, Filled, Top, Base
<1>1. CASE StartAdd
  <2>1. /\ UNCHANGED <<arch_buf, added, cleared, sound, since>> /\ pc = "ready" /\ op = "none"
        /\ pc' \in {"fill", "erasePtrs", "programPtr"}
        /\ \/ last_rec_ptr = Null /\ slot' = 0 /\ op' = "add"
           \/ slot' = last_rec_ptr + 1 /\ op' = "add"
           \/ op' = "turn" /\ last_rec_ptr' = last_rec_ptr
    <3>1. /\ pc = "ready"
          /\ \/ last_rec_ptr = Null /\ slot' = 0 /\ op' = "add"
             \/ slot' = last_rec_ptr + 1 /\ op' = "add"
             \/ op' = "turn" /\ last_rec_ptr' = last_rec_ptr
          /\ UNCHANGED <<arch_buf, added, history>>
      BY <1>1, Zenon DEF StartAdd
    <3>2. pc' \in {"fill", "erasePtrs", "programPtr"}
      BY <1>1, Zenon DEF StartAdd, WritePtrAt
    <3>3. op = "none"
      BY <3>1 DEF Steps
    <3> QED
      BY <3>1, <3>2, <3>3 DEF history
  <2>2. Top' = Top /\ Open /\ ~Filled /\ ~Filled' /\ Base' = Base
    <3>1. Open /\ ~Filled /\ ~Filled' /\ Base' = Base /\ Top = last_rec_ptr
      BY <2>1
    <3>2. last_rec_ptr \in Cells \cup {Null}
      BY DEF Types
    <3>3. Top' = last_rec_ptr
      BY <2>1, <3>2, Limits
    <3> QED
      BY <3>1, <3>3
  <2> QED
    BY <2>1, <2>2, Zenon DEF Memory
<1>2. CASE StartClear \/ OpenNoArchive
  <2>1. op' = "clear"
    BY <1>2, Zenon DEF StartClear, OpenNoArchive, ClearRam
  <2> QED
    BY <2>1 DEF Memory
<1>3. CASE ErasePtrs \/ ProgramPtr \/ ErasePage \/ SetTime \/ ChipReady
  <2>1. /\ UNCHANGED <<arch_buf, added, cleared, sound, since, op, slot, last_rec_ptr>>
        /\ Filled' = Filled /\ (Open' => Open)
    <3>1. CASE ErasePtrs
      BY <3>1 DEF ErasePtrs, ram
    <3>2. CASE ProgramPtr
      <4>1. /\ UNCHANGED <<arch_buf, added, cleared, sound, since, op, slot, last_rec_ptr>>
            /\ pc = "programPtr" /\ pc' \in {"erasePages", "fill"}
        BY <3>2, Zenon DEF ProgramPtr
      <4> QED
        BY <4>1
    <3>3. CASE ErasePage
      BY <3>3 DEF ErasePage, ram
    <3>4. CASE SetTime
      BY <3>4 DEF SetTime, ram, history
    <3>5. CASE ChipReady
      BY <3>5 DEF ChipReady, ram
    <3> QED
      BY <1>3, <3>1, <3>2, <3>3, <3>4, <3>5, Zenon
  <2>2. Top' = Top /\ Base' = Base
    BY <2>1
  <2> QED
    BY <2>1, <2>2, Zenon DEF Memory
<1>4. CASE FillBuffer
  <2>1. /\ UNCHANGED <<added, cleared, sound, since, op, slot, last_rec_ptr>>
        /\ pc = "fill" /\ pc' \in {"program", "erase"}
        /\ arch_buf' = [arch_buf EXCEPT ![slot] = added + 1]
    BY <1>4 DEF FillBuffer, history
  <2>2. Top' = Top /\ Base' = Base /\ Filled' /\ ~Filled /\ (Open' => Open)
    BY <2>1
  <2>3. arch_buf'[slot] = added + 1 /\ \A i \in Cells : i # slot => arch_buf'[i] = arch_buf[i]
    BY <2>1 DEF Types
  <2> QED
    BY <2>1, <2>2, <2>3, Zenon DEF Memory
<1>5. CASE ProgramRecord
  BY <1>5, MemoryAdded
<1>6. CASE ErasePages
  <2>1. /\ pc = "erasePages" /\ pc' = "ready" /\ op' = "none" /\ cleared' = added /\ sound' = TRUE
        /\ UNCHANGED <<added, arch_buf, last_rec_ptr>>
    BY <1>6, Zenon DEF ErasePages, ram
  <2>2. arch_buf = BlankPage /\ last_rec_ptr = Null
    BY <2>1 DEF Steps
  <2>3. Top' = Null /\ Base' = added /\ ~Filled'
    BY <2>1, <2>2
  <2>4. ASSUME NEW i \in Cells
        PROVE  /\ arch_buf'[i] = 0 /\ Number(added', Null, i) <= added /\ added \in Nat
               /\ Number(added', Null, i) \in Int
    <3>1. added \in Nat /\ Null \in Cells \cup {Null} /\ added' = added
      BY <2>1, Limits DEF Types
    <3>2. Number(added', Null, i) <= added /\ Number(added', Null, i) \in Int
      <4> HIDE DEF Null
      <4>1. Null < i \/ i <= Null
        BY Limits
      <4> QED
        BY <3>1, <4>1, NumberIs
    <3>3. arch_buf'[i] = 0
      BY <2>1, <2>2, Limits DEF BlankPage
    <3> QED
      BY <3>1, <3>2, <3>3
  <2>5. ASSUME NEW i \in Cells
        PROVE  /\ arch_buf'[i] <= added' /\ ~Valid(arch_buf'[i])
               /\ ~(Number(added', Null, i) > Base')
    <3> HIDE DEF Number, Base
    <3> QED
      BY <2>1, <2>3, <2>4 DEF Valid
  <2>6. added' - cleared' > Top'
    BY <2>1, <2>3, Limits DEF Types
  <2> QED
    BY <2>1, <2>3, <2>5, <2>6, Zenon DEF Memory
<1>7. CASE OpenArchive
  <2>1. PICK p \in Pages :
          /\ p = archive_page_num' /\ ptrs[LatestPtr].page = p
          /\ arch_buf' = Loaded(p) /\ last_rec_ptr' = PageRun(p) - 1 /\ pc = "off" /\ pc' = "ready"
          /\ UNCHANGED <<chip, op, added, history>>
    BY <1>7, Opened
  <2>2. PICK last \in Cells \cup {Null} : last = PageRun(p) - 1
    BY LoadedTypes
  <2>3. op = "none" /\ PtrRun > 0
    BY <1>7, <2>1 DEF Steps, OpenArchive
  <2>4. Top' = last /\ ~Filled' /\ Base' = Base /\ sound' = sound /\ cleared' = cleared /\ added' = added
    BY <2>1, <2>2, <2>3 DEF history
  <2>5. added \in Nat /\ Base \in Nat /\ Base <= added
    BY Limits DEF Types
  <2>6. ASSUME NEW i \in Cells PROVE arch_buf'[i] <= added
    BY <2>1, <2>5, LoadedTypes, Limits
  <2>7. ASSUME NEW i \in Cells
        PROVE  /\ Number(added, last, i) > Base => arch_buf'[i] = Number(added, last, i)
               /\ sound /\ Number(added, last, i) <= Base => ~Valid(arch_buf'[i])
    <3>1. CASE ~sound
      <4>1. Base = added /\ ~(Number(added, last, i) > added)
        <5>1. since = 0
          BY <2>1, <3>1 DEF Damaged
        <5>2. Number(added, last, i) \in Int /\ Number(added, last, i) <= added
          <6>1. last < i \/ i <= last
            BY Limits
          <6> QED
            BY <2>5, <6>1, NumberIs
        <5> HIDE DEF Number
        <5> QED
          BY <2>5, <3>1, <5>1, <5>2
      <4> QED
        BY <3>1, <4>1
    <3>2. CASE sound
      <4>1. Kept(LatestPtr, p, last) /\ Base = cleared
        BY <1>7, <2>1, <2>2, <3>2, BootFinds
      <4>7. i > last /\ Number(added, last, i) > Base => First(PrevPage(p)) <= i
        <5> SUFFICES ASSUME i > last, Number(added, last, i) > Base PROVE First(PrevPage(p)) <= i
          OBVIOUS
        <5>1. last # Null
          <6> SUFFICES ASSUME last = Null PROVE FALSE
            OBVIOUS
          <6>1. added = cleared
            BY <4>1, Zenon DEF Kept
          <6>2. Number(added, last, i) <= added /\ Number(added, last, i) \in Int
            BY <2>5, NumberIs
          <6> HIDE DEF Number, Base
          <6> QED
            BY <2>5, <4>1, <6>1, <6>2
        <5>2. i >= 1
          BY <5>1, Limits
        <5>3. First(PrevPage(p)) \in {0, 1}
          BY FirstIs
        <5> QED
          BY <5>2, <5>3, Limits
      <4>2. /\ i <= last => Number(added, last, i) > Base /\ pages[p][i] = Number(added, last, i)
            /\ i > last /\ Number(added, last, i) > Base => pages[PrevPage(p)][i] = Number(added, last, i)
            /\ i > last /\ Number(added, last, i) <= Base => pages[PrevPage(p)][i] = Blank
        BY <4>1, <4>7, Zenon DEF Kept, Rest
      <4>3. arch_buf'[i] = IF i <= last THEN pages[p][i] ELSE pages[PrevPage(p)][i]
        <5>1. (i < PageRun(p)) = (i <= last) /\ PageRun(p) \in 0 .. PageRecords
          BY <2>2, PageRunIs, Limits
        <5>2. arch_buf'[i] = IF i < PageRun(p) THEN pages[p][i] ELSE pages[PrevPage(p)][i]
          BY <2>1, LoadedTypes
        <5> QED
          BY <5>1, <5>2, Zenon
      <4>4. Number(added, last, i) \in Int
        BY <2>5, NumberIs
      <4> HIDE DEF Number, Base
      <4>5. CASE i <= last
        BY <2>5, <4>2, <4>3, <4>4, <4>5
      <4>6. CASE ~ i <= last
        <5>1. i > last
          BY <4>6, Limits
        <5> QED
          BY <2>5, <4>2, <4>3, <4>6, <5>1, Limits DEF Valid
      <4> QED
        BY <4>5, <4>6
    <3> QED
      BY <3>1, <3>2
  <2>8. ASSUME sound, last = Null PROVE added = cleared
    BY <1>7, <2>1, <2>2, <2>8, BootFinds DEF Kept
  <2>9. ASSUME sound PROVE added - cleared > last
    <3>1. Kept(LatestPtr, p, last)
      BY <1>7, <2>1, <2>2, <2>9, BootFinds
    <3>2. CASE last = Null
      BY <2>8, <2>9, <3>2, Limits DEF Types
    <3>3. CASE last \in Cells
      <4>1. 0 \in Cells /\ 0 <= last
        BY <3>3, Limits
      <4>2. Number(added, last, 0) > cleared
        BY <3>1, <4>1, Zenon DEF Kept
      <4>3. Number(added, last, 0) = added - last
        BY <2>5, <4>1, Limits DEF Number
      <4> QED
        BY <2>5, <3>3, <4>2, <4>3, Limits DEF Types
    <3> QED
      BY <3>2, <3>3
  <2> QED
    BY <2>4, <2>6, <2>7, <2>8, <2>9, Zenon DEF Memory
<1>8. CASE PowerCut
  <2>1. pc' = "off"
    BY <1>8, Zenon DEF PowerCut
  <2> QED
    BY <2>1 DEF Memory
<1> QED
  BY <1>1, <1>2, <1>3, <1>4, <1>5, <1>6, <1>7, <1>8, Zenon DEF Next

-----------------------------------------------------------------------------
(* The records in the flash. *)

\* While a page is being turned the page before is not the one that takes the record.
LEMMA PageIs ==
  ASSUME Types
  PROVE  /\ Page \in Pages /\ PrevPage(Page) \in Pages /\ PrevPage(Page) # Page
         /\ op = "turn" => Page # archive_page_num /\ Page = PrevPage(archive_page_num)
         /\ op # "turn" => Page = archive_page_num
<1>1. archive_page_num \in Pages
  BY DEF Types
<1>2. Page \in Pages
  BY <1>1, NextAndPrev DEF Page
<1> QED
  BY <1>1, <1>2, NextAndPrev DEF Page

\* What the steps change in the pages: nothing, or the chip alone does.
LEMMA PagesSame ==
  ASSUME Next, ~ProgramRecord, ~ErasePages, ~PowerCut, ErasePage => erasing # Null
  PROVE  UNCHANGED <<pages, erasing, missed>> \/ (Finish /\ missed' = FALSE)
BY Zenon DEF Next, StartAdd, StartClear, ErasePtrs, ProgramPtr, FillBuffer, ErasePage, OpenArchive,
             OpenNoArchive, SetTime, ChipReady, Ignored, chip, flash, history

LEMMA PageErased ==
  ASSUME Types, ErasePage, erasing = Null
  PROVE  /\ \A p \in Pages, i \in Cells :
              pages'[p][i] = IF p = archive_page_num THEN Blank ELSE pages[p][i]
         /\ erasing' = Null /\ missed' = (missed /\ (archive_page_num # 0 \/ slot # 0))
<1>1. ~Ignored
  BY DEF Ignored, Finish
<1>2. /\ pages' = [pages EXCEPT ![archive_page_num] = BlankPage] /\ erasing' = Null
      /\ missed' = (missed /\ (archive_page_num # 0 \/ slot # 0))
  BY <1>1, Zenon DEF ErasePage
<1> QED
  BY <1>2 DEF Types, BlankPage

LEMMA RecordWritten ==
  ASSUME Types, Steps, Memory, ProgramRecord, erasing = Null
  PROVE  /\ \A p \in Pages, i \in Cells :
              pages'[p][i] = IF p = archive_page_num /\ i = slot THEN added + 1 ELSE pages[p][i]
         /\ erasing' = Null /\ missed' = missed
<1>1. arch_buf[slot] = added + 1 /\ slot \in Cells
  BY Added
<1>2. /\ pages' = [pages EXCEPT ![archive_page_num][slot] = arch_buf[slot]]
      /\ erasing' = erasing /\ missed' = missed
  BY Zenon DEF ProgramRecord, Finish
<1> QED
  BY <1>1, <1>2 DEF Types

LEMMA RecordIgnored ==
  ASSUME ProgramRecord, erasing # Null
  PROVE  Finish /\ missed' = TRUE
BY Zenon DEF ProgramRecord

LEMMA PagesErased ==
  ASSUME Types, ErasePages
  PROVE  /\ \A p \in Pages : \/ \A i \in Cells : pages'[p][i] = pages[p][i]
                             \/ \A i \in Cells : pages'[p][i] = Blank
         /\ \/ erasing' = 0 /\ missed' = missed
               /\ \A p \in Pages, i \in Cells : pages'[p][i] = pages[p][i]
            \/ erasing' # 0 /\ missed' = FALSE /\ \A i \in Cells : pages'[0][i] = Blank
<1>1. PICK last \in 0 .. ClearedPages - 1 : \E ps \in SUBSET (0 .. last - 1) :
        /\ last > 0 => 0 \in ps
        /\ pages' = [p \in Pages |-> IF p \in ps THEN BlankPage ELSE pages[p]]
        /\ erasing' = last /\ missed' = (missed /\ last = 0)
  BY Zenon DEF ErasePages
<1>5. PICK ps \in SUBSET (0 .. last - 1) :
        /\ last > 0 => 0 \in ps
        /\ pages' = [p \in Pages |-> IF p \in ps THEN BlankPage ELSE pages[p]]
        /\ erasing' = last /\ missed' = (missed /\ last = 0)
  BY <1>1
<1>2. \A p \in Pages, i \in Cells : pages'[p][i] = IF p \in ps THEN Blank ELSE pages[p][i]
  BY <1>5 DEF BlankPage
<1>3. CASE last = 0
  <2>1. ps = {} /\ missed' = missed
    BY <1>5, <1>3 DEF Types
  <2> QED
    BY <1>5, <1>2, <1>3, <2>1
<1>4. CASE last # 0
  <2>1. 0 \in ps /\ 0 \in Pages
    BY <1>5, <1>4, Limits
  <2>2. missed' = FALSE
    BY <1>5, <1>4, Zenon
  <2> QED
    BY <1>5, <1>2, <1>4, <2>1, <2>2
<1> QED
  BY <1>3, <1>4

\* Before the first record after a clear the page that takes it is blank as soon as the
\* chip is done.
LEMMA BusyPage ==
  ASSUME Types, Steps, Busy, Open, erasing # Null
  PROVE  /\ Page = 0 /\ archive_page_num = 0 /\ op # "turn" /\ Top = Null
         /\ sound /\ added = cleared /\ (missed => erasing = 0) /\ pc # "off"
         /\ op = "add" => slot = 0
<1>1. /\ archive_page_num = 0 /\ op # "turn" /\ Top = Null /\ sound /\ added = cleared
      /\ (missed => erasing = 0) /\ pc # "off"
  BY DEF Busy, Open
<1>2. Page = 0
  BY <1>1 DEF Page
<1>3. op = "add" => slot = 0
  <2> SUFFICES ASSUME op = "add" PROVE slot = 0
    OBVIOUS
  <2>1. slot - 1 = -1 /\ slot \in Int
    BY <1>1, Limits DEF Top, Types
  <2> QED
    BY <2>1
<1> QED
  BY <1>1, <1>2, <1>3

LEMMA DoneBlank ==
  ASSUME Types, Steps, Busy, InMemory, Open, ~scarred, Finish
  PROVE  \A i \in Cells : pages'[0][i] = Blank
<1>1. /\ erasing # Null /\ 0 \in Pages
      /\ \A p \in Pages, i \in Cells : pages'[p][i] = IF p = erasing THEN Blank ELSE pages[p][i]
  BY Finished, Limits
<1>2. Page = 0 /\ Top = Null /\ (missed => erasing = 0)
  BY <1>1, BusyPage
<1>3. CASE erasing = 0
  BY <1>1, <1>3
<1>4. CASE erasing # 0
  <2>1. PageHolds(0, Null)
    BY <1>2, <1>4, Zenon DEF InMemory
  <2>2. First(0) = 0 /\ \A i \in Cells : i > Null
    BY <1>2, <1>4, FirstIs, Limits
  <2>3. \A i \in Cells : pages[0][i] = Blank
    BY <2>1, <2>2, Zenon DEF PageHolds
  <2> QED
    BY <1>1, <1>4, <2>3
<1> QED
  BY <1>3, <1>4

LEMMA UniqueKept ==
  ASSUME Types, Steps, Memory, Unique, Next
  PROVE  Unique'
<1>1. ASSUME \A p \in Pages, i \in Cells : pages'[p][i] = pages[p][i] \/ ~(pages'[p][i] > 0)
      PROVE  Unique'
  <2> SUFFICES ASSUME NEW p \in Pages, NEW q \in Pages, NEW i \in Cells, NEW j \in Cells,
                      pages'[p][i] = pages'[q][j], pages'[p][i] > 0
               PROVE  p = q /\ i = j
    BY Zenon DEF Unique
  <2>1. pages'[q][j] > 0
    OBVIOUS
  <2>2. pages[p][i] = pages[q][j] /\ pages[p][i] > 0
    BY <1>1, <2>1
  <2> QED
    BY <2>2 DEF Unique
<1>2. CASE ErasePage /\ erasing = Null
  <2>1. \A p \in Pages, i \in Cells : pages'[p][i] = pages[p][i] \/ ~(pages'[p][i] > 0)
    BY <1>2, PageErased, Limits
  <2> QED
    BY <1>1, <2>1
<1>3. CASE ErasePages
  <2>1. \A p \in Pages, i \in Cells : pages'[p][i] = pages[p][i] \/ ~(pages'[p][i] > 0)
    BY <1>3, PagesErased, Limits
  <2> QED
    BY <1>1, <2>1
<1>4. CASE PowerCut
  <2>1. CutFlash
    BY <1>4, Zenon DEF PowerCut
  <2>2. \A p \in Pages, i \in Cells : pages'[p][i] = pages[p][i] \/ ~(pages'[p][i] > 0)
    <3> SUFFICES ASSUME NEW p \in Pages, NEW i \in Cells, pages'[p][i] # pages[p][i]
                 PROVE  ~(pages'[p][i] > 0)
      OBVIOUS
    <3>1. pages'[p][i] = Torn
      BY <2>1, CutTears, Zenon
    <3> QED
      BY <3>1, Limits
  <2> QED
    BY <1>1, <2>2
<1>5. CASE ProgramRecord /\ erasing = Null
  <2>1. \A p \in Pages, i \in Cells : pages[p][i] < added + 1 /\ pages[p][i] \in Int
    BY CellTypes
  <2>2. \A p \in Pages, i \in Cells :
           pages'[p][i] = IF p = archive_page_num /\ i = slot THEN added + 1 ELSE pages[p][i]
    BY <1>5, RecordWritten
  <2>3. SUFFICES ASSUME NEW p \in Pages, NEW q \in Pages, NEW i \in Cells, NEW j \in Cells,
                        pages'[p][i] = pages'[q][j], pages'[p][i] > 0
                 PROVE  p = q /\ i = j
    BY Zenon DEF Unique
  <2>4. added + 1 \in Int
    BY Limits DEF Types
  <2>5. CASE pages'[p][i] = added + 1
    <3>1. p = archive_page_num /\ i = slot
      BY <2>1, <2>2, <2>5, <2>4
    <3>2. q = archive_page_num /\ j = slot
      BY <2>1, <2>2, <2>5, <2>3, <2>4
    <3> QED
      BY <3>1, <3>2
  <2>6. CASE pages'[p][i] # added + 1
    <3>1. pages'[p][i] = pages[p][i] /\ pages'[q][j] = pages[q][j]
      BY <2>2, <2>3, <2>6
    <3> QED
      <4>1. pages[p][i] = pages[q][j] /\ pages[p][i] > 0
        BY <2>3, <3>1
      <4> QED
        BY <4>1 DEF Unique
  <2> QED
    BY <2>5, <2>6
<1>6. CASE pages' = pages
  BY <1>1, <1>6
<1>7. CASE Finish
  <2>1. \A p \in Pages, i \in Cells : pages'[p][i] = pages[p][i] \/ ~(pages'[p][i] > 0)
    BY <1>7, Finished, Limits
  <2> QED
    BY <1>1, <2>1
<1>8. pages' = pages \/ Finish \/ (ErasePage /\ erasing = Null) \/ ErasePages \/ PowerCut
      \/ (ProgramRecord /\ erasing = Null)
  BY PagesSame, RecordIgnored, Zenon
<1> QED
  BY <1>2, <1>3, <1>4, <1>5, <1>6, <1>7, <1>8, Zenon

\* Nothing takes the scars away; the cut that leaves none leaves the flash alone.
LEMMA Scars ==
  ASSUME Next, ~scarred'
  PROVE  ~scarred /\ (PowerCut => UNCHANGED <<ptrs, pages>>)
<1>1. CASE PowerCut
  BY <1>1, Zenon DEF PowerCut, chip, flash
<1>2. CASE ~PowerCut
  <2>1. UNCHANGED history \/ UNCHANGED scarred
    BY <1>2, Zenon DEF Next, StartAdd, StartClear, ErasePtrs, ProgramPtr, FillBuffer, ErasePage,
                       ProgramRecord, ErasePages, OpenArchive, OpenNoArchive, SetTime, ChipReady
  <2> QED
    BY <1>2, <2>1 DEF history
<1> QED
  BY <1>1, <1>2

\* A page that is erased, or loses nothing, keeps its form.
LEMMA FormStill ==
  ASSUME Form, ~scarred,
         \A p \in Pages : \/ \A i \in Cells : pages'[p][i] = Blank
                         \/ /\ First(p) <= First(p)'
                            /\ \A i \in Cells : pages'[p][i] = pages[p][i]
  PROVE  Form'
<1>1. /\ \A p \in Pages, i \in Cells : pages[p][i] # Torn
      /\ \A p \in Pages, i, j \in Cells :
           First(p) <= i /\ i < j /\ pages[p][i] = Blank => pages[p][j] = Blank
  BY Zenon DEF Form
<1>2. \A p \in Pages, i \in Cells : pages'[p][i] # Torn
  BY <1>1, Limits
<1>3. ASSUME NEW p \in Pages, NEW i \in Cells, NEW j \in Cells,
             First(p)' <= i, i < j, pages'[p][i] = Blank
      PROVE  pages'[p][j] = Blank
  <2>1. CASE First(p) <= First(p)' /\ \A k \in Cells : pages'[p][k] = pages[p][k]
    <3>1. First(p) <= i
      BY <1>3, <2>1, Limits DEF First
    <3>2. pages[p][i] = Blank /\ pages'[p][j] = pages[p][j]
      BY <1>3, <2>1
    <3> QED
      BY <1>1, <1>3, <3>1, <3>2
  <2> QED
    BY <2>1
<1> QED
  BY <1>2, <1>3, Zenon DEF Form

LEMMA FormKept ==
  ASSUME Types, Steps, Busy, Memory, InMemory, Form, Next
  PROVE  Form'
<1> SUFFICES ASSUME ~scarred' PROVE Form'
  BY Zenon DEF Form
<1>1. ~scarred /\ (PowerCut => pages' = pages)
  BY Scars
<1>3. CASE UNCHANGED <<pages, missed>>
  <2>1. \A p \in Pages : First(p) <= First(p)'
    BY <1>3 DEF First
  <2> QED
    BY <1>1, <1>3, <2>1, FormStill
<1>4. CASE ErasePage /\ erasing = Null
  <2>1. /\ \A p \in Pages, i \in Cells :
             pages'[p][i] = IF p = archive_page_num THEN Blank ELSE pages[p][i]
        /\ missed' = (missed /\ (archive_page_num # 0 \/ slot # 0))
    BY <1>4, PageErased
  <2>2. \A p \in Pages \ {archive_page_num} : First(p) <= First(p)'
    <3>1. archive_page_num # 0 => missed' = missed
      BY <2>1, Zenon DEF Types
    <3> QED
      BY <3>1 DEF First
  <2> QED
    BY <1>1, <2>1, <2>2, FormStill
<1>5. CASE ErasePages
  <2>1. \A p \in Pages : \/ \A i \in Cells : pages'[p][i] = pages[p][i]
                         \/ \A i \in Cells : pages'[p][i] = Blank
    BY <1>5, PagesErased
  <2>2. \/ missed' = missed
        \/ missed' = FALSE /\ \A i \in Cells : pages'[0][i] = Blank
    BY <1>5, PagesErased
  <2>3. \A p \in Pages : First(p) <= First(p)' \/ \A i \in Cells : pages'[p][i] = Blank
    BY <2>2 DEF First
  <2> QED
    BY <1>1, <2>1, <2>3, FormStill
<1>6. CASE ProgramRecord /\ erasing = Null
  <2>1. /\ \A p \in Pages, i \in Cells :
             pages'[p][i] = IF p = archive_page_num /\ i = slot THEN added + 1 ELSE pages[p][i]
        /\ missed' = missed
    BY <1>6, RecordWritten
  <2>2. added + 1 # Torn /\ added + 1 # Blank
    BY Limits DEF Types
  <2>3. ASSUME NEW i \in Cells, i < slot, First(archive_page_num) <= i
        PROVE  pages[archive_page_num][i] # Blank
    <3>1. Open /\ op \in {"add", "turn"} /\ Top = (IF op = "add" THEN slot - 1 ELSE PageRecords - 1)
          /\ (op = "turn" => slot = 0) /\ slot \in Cells
      BY <1>6, Added
    <3>2. op = "add" /\ i <= Top /\ Page = archive_page_num
      BY <2>3, <3>1, PageIs, Limits
    <3>3. erasing # Page
      BY <1>6, PageIs, Limits
    <3>4. PageHolds(Page, Top)
      BY <1>1, <3>1, <3>3, Zenon DEF InMemory
    <3>5. pages[Page][i] > 0
      BY <2>3, <3>2, <3>4 DEF PageHolds
    <3> QED
      BY <3>2, <3>5, Limits
  <2>4. /\ \A p \in Pages, i \in Cells : pages[p][i] # Torn
        /\ \A p \in Pages, i, j \in Cells :
             First(p) <= i /\ i < j /\ pages[p][i] = Blank => pages[p][j] = Blank
    BY <1>1, Zenon DEF Form
  <2>5. \A p \in Pages : First(p)' = First(p)
    BY <2>1 DEF First
  <2>6. \A p \in Pages, i, j \in Cells :
             First(p) <= i /\ i < j /\ pages'[p][i] = Blank => pages'[p][j] = Blank
    BY <2>1, <2>2, <2>3, <2>4
  <2>7. \A p \in Pages, i \in Cells : pages'[p][i] # Torn
    BY <2>1, <2>2, <2>4
  <2> QED
    BY <2>5, <2>6, <2>7, Zenon DEF Form
<1>7. CASE Finish
  <2>1. /\ erasing \in Pages
        /\ \A p \in Pages, i \in Cells : pages'[p][i] = IF p = erasing THEN Blank ELSE pages[p][i]
    BY <1>7, Finished
  <2>2. missed => erasing = 0
    BY <1>7 DEF Busy, Finish
  <2>3. \A p \in Pages \ {erasing} : First(p) = 0 /\ First(p)' \in {0, 1}
    BY <2>2 DEF First
  <2> QED
    BY <1>1, <2>1, <2>3, FormStill
<1>8. UNCHANGED <<pages, missed>> \/ Finish \/ (ErasePage /\ erasing = Null) \/ ErasePages
      \/ (ProgramRecord /\ erasing = Null)
  <2>1. PowerCut => UNCHANGED <<pages, missed>>
    BY <1>1, Zenon DEF PowerCut
  <2> QED
    BY <2>1, PagesSame, RecordIgnored, Zenon
<1> QED
  BY <1>3, <1>4, <1>5, <1>6, <1>7, <1>8, Zenon

\* The steps that move nothing of what is open: the page, its newest record and its
\* cells stay what they are.
LEMMA OpenMoves ==
  ASSUME Types, Steps, Busy, Open', StartAdd \/ ErasePtrs \/ ProgramPtr \/ FillBuffer \/ SetTime
  PROVE  /\ UNCHANGED <<erasing, missed>>
         /\ Open /\ Page' = Page /\ Top' = Top /\ Base' = Base /\ pages' = pages /\ ~Filled
         /\ UNCHANGED <<added, cleared, sound, since, scarred>>
         /\ FillBuffer \/ UNCHANGED arch_buf
         /\ pc' \in {"erase", "program"} => FillBuffer
<1>1. CASE StartAdd
  <2>1. /\ UNCHANGED <<pages, erasing, missed, arch_buf, added, cleared, sound, since, scarred>>
        /\ pc = "ready" /\ op = "none"
        /\ pc' \in {"fill", "erasePtrs", "programPtr"}
    <3>1. pc = "ready" /\ UNCHANGED <<chip, arch_buf, added, history>>
      BY <1>1, Zenon DEF StartAdd
    <3>2. pc' \in {"fill", "erasePtrs", "programPtr"}
      BY <1>1, Zenon DEF StartAdd, WritePtrAt
    <3>3. op = "none"
      BY <3>1 DEF Steps
    <3> QED
      BY <3>1, <3>2, <3>3 DEF history, chip, flash
  <2>2. /\ Open /\ ~Filled /\ Base' = Base /\ Top = last_rec_ptr /\ Page = archive_page_num
        /\ Filled' = FALSE
    BY <2>1 DEF Open, Filled, Base, Top, Page
  <2>3. archive_page_num \in Pages
    BY DEF Types
  <2>4. CASE op' = "add" /\ archive_page_num' = archive_page_num
             /\ (slot' = last_rec_ptr + 1 \/ (last_rec_ptr = Null /\ slot' = 0))
    <3>1. Page' = Page /\ Top' = slot' - 1
      BY <2>2, <2>4 DEF Page, Top
    <3>2. last_rec_ptr \in Cells \cup {Null}
      BY DEF Types
    <3>3. slot' - 1 = last_rec_ptr
      BY <2>4, <3>2, Limits
    <3> QED
      BY <2>1, <2>2, <3>1, <3>3
  <2>5. CASE op' = "turn" /\ archive_page_num' = NextPage(archive_page_num) /\ last_rec_ptr' = last_rec_ptr
    <3>1. Page' = Page /\ Top' = Top
      BY <2>2, <2>3, <2>5, NextAndPrev DEF Page, Top
    <3> QED
      BY <2>1, <2>2, <3>1
  <2> QED
    BY <1>1, <2>4, <2>5, Zenon DEF StartAdd
<1>2. CASE ErasePtrs \/ ProgramPtr
  <2>1. /\ pc \in {"erasePtrs", "programPtr"} /\ pc' \in {"erasePages", "fill", "programPtr"}
        /\ UNCHANGED <<arch_buf, last_rec_ptr, archive_page_num, op, slot,
                       added, cleared, sound, since, scarred>>
    BY <1>2, Zenon DEF ErasePtrs, ProgramPtr, ram
  <2>2. op = "turn"
    BY <2>1 DEF Open, Steps
  <2>3. erasing = Null
    BY <2>2 DEF Busy
  <2>4. UNCHANGED <<pages, erasing, missed>>
    BY <1>2, <2>3, Zenon DEF ErasePtrs, ProgramPtr, Ignored, Finish
  <2> QED
    BY <1>2, <2>1, <2>4 DEF Open, Filled, Base, Top, Page
<1>4. CASE FillBuffer
  <2>1. /\ pc = "fill" /\ pc' \in {"program", "erase"}
        /\ UNCHANGED <<chip, last_rec_ptr, archive_page_num, op, slot, added, history>>
    BY <1>4 DEF FillBuffer
  <2> QED
    BY <1>4, <2>1 DEF chip, flash, history, Open, Filled, Base, Top, Page
<1>5. CASE SetTime
  <2>1. pc = "ready" /\ UNCHANGED <<chip, ram, pc, op, slot, added, history>>
    BY <1>5, Zenon DEF SetTime
  <2> QED
    BY <2>1 DEF chip, flash, ram, history, Open, Filled, Base, Top, Page
<1> QED
  BY <1>1, <1>2, <1>4, <1>5

\* The chip gets done before the first record after a clear, if at all.
LEMMA ReadyMoves ==
  ASSUME Types, Steps, Busy, InMemory, ~scarred, Open', ChipReady \/ (ErasePage /\ erasing # Null)
  PROVE  /\ Open /\ Page = 0 /\ Page' = 0 /\ Top = Null /\ Top' = Null /\ Base' = Base
         /\ archive_page_num = 0 /\ archive_page_num' = 0 /\ op' # "turn" /\ (op = "add" => slot = 0)
         /\ sound /\ added = cleared /\ Finish /\ missed' = FALSE
         /\ UNCHANGED <<op, slot, arch_buf, added, cleared, sound, since, scarred>>
         /\ \A i \in Cells : pages'[0][i] = Blank
<1>1. /\ Finish /\ missed' = FALSE
      /\ UNCHANGED <<arch_buf, last_rec_ptr, archive_page_num, op, slot, added, cleared, sound, since,
                     scarred>>
      /\ pc' = pc \/ (pc = "erase" /\ pc' = "program")
  BY Zenon DEF ChipReady, ErasePage, Ignored, ram
<1>2. Open /\ erasing # Null
  BY <1>1 DEF Open, Finish
<1>3. /\ Page = 0 /\ archive_page_num = 0 /\ op # "turn" /\ Top = Null
      /\ sound /\ added = cleared /\ (op = "add" => slot = 0)
  BY <1>2, BusyPage
<1>4. Page' = Page /\ Top' = Top /\ Base' = Base
  BY <1>1 DEF Page, Top, Base
<1>5. \A i \in Cells : pages'[0][i] = Blank
  BY <1>1, <1>2, DoneBlank
<1> QED
  BY <1>1, <1>2, <1>3, <1>4, <1>5

LEMMA Closed ==
  ASSUME Next, ~StartAdd, ~ErasePtrs, ~ProgramPtr, ~FillBuffer, ~SetTime, ~ChipReady,
         ~ErasePage, ~ProgramRecord, ~ErasePages, ~OpenArchive
  PROVE  ~Open'
<1>1. pc' = "off" \/ op' = "clear"
  BY Zenon DEF Next, StartClear, OpenNoArchive, ClearRam, PowerCut
<1> QED
  BY <1>1 DEF Open

LEMMA InMemoryKept ==
  ASSUME Types, Steps, Busy, Form, Memory, InMemory, Next
  PROVE  InMemory'
<1> SUFFICES ASSUME Open', ~scarred', erasing' # Page'
             PROVE  /\ PageHolds(Page, Top)'
                    /\ \A i \in Cells : First(Page)' <= i /\ i <= Top' /\ ~(Filled' /\ i = slot') =>
                         pages'[Page'][i] = arch_buf'[i]
                    /\ pc' = "erase" => op' = "turn" \/ slot' <= First(Page)'
                    /\ pc' = "program" => \A i \in Cells :
                         i = slot' \/ (i > slot' /\ slot' >= First(archive_page_num)') =>
                           pages'[archive_page_num'][i] = Blank
  BY Zenon DEF InMemory
<1>1. ~scarred
  BY Scars
<1>2. /\ slot \in Cells /\ Page \in Pages /\ PrevPage(Page) # Page
      /\ op = "turn" => Page # archive_page_num
      /\ op # "turn" => Page = archive_page_num
  BY PageIs DEF Types
<1>3. CASE StartAdd \/ ErasePtrs \/ ProgramPtr \/ SetTime
  <2>1. /\ Open /\ Page' = Page /\ Top' = Top /\ pages' = pages /\ ~Filled
        /\ FillBuffer \/ UNCHANGED arch_buf
        /\ UNCHANGED <<erasing, missed>>
    BY <1>3, OpenMoves
  <2>2. ~FillBuffer
    BY <1>3 DEF StartAdd, ErasePtrs, ProgramPtr, SetTime, FillBuffer
  <2>3. pc' # "erase" /\ pc' # "program"
    BY <1>3, <2>2, OpenMoves
  <2>4. PageHolds(Page, Top) /\ \A i \in Cells : First(Page) <= i /\ i <= Top => pages[Page][i] = arch_buf[i]
    BY <1>1, <2>1, Zenon DEF InMemory
  <2>5. First(Page)' = First(Page)
    BY <2>1 DEF First
  <2>6. PageHolds(Page, Top)'
    BY <2>1, <2>4, <2>5 DEF PageHolds
  <2> QED
    BY <2>1, <2>2, <2>3, <2>4, <2>5, <2>6
<1>4. CASE FillBuffer
  <2>1. /\ Open /\ Page' = Page /\ Top' = Top /\ pages' = pages /\ ~Filled
        /\ UNCHANGED <<erasing, missed>>
    BY <1>4, OpenMoves
  <2>2. /\ arch_buf' = [arch_buf EXCEPT ![slot] = added + 1]
        /\ pc' \in {"program", "erase"}
        /\ erasing = Null => (pc' = "program" <=> pages[archive_page_num][slot] = Blank)
        /\ slot' = slot /\ op' = op /\ archive_page_num' = archive_page_num /\ pc = "fill"
    BY <1>4 DEF FillBuffer
  <2>3. PageHolds(Page, Top) /\ \A i \in Cells : First(Page) <= i /\ i <= Top => pages[Page][i] = arch_buf[i]
    BY <1>1, <2>1, Zenon DEF InMemory
  <2>4. Filled' /\ First(Page)' = First(Page) /\ First(archive_page_num)' = First(archive_page_num)
    BY <2>1, <2>2 DEF Filled, First
  <2>5. \A i \in Cells : i # slot => arch_buf'[i] = arch_buf[i]
    BY <2>2 DEF Types
  <2>6. \A i \in Cells : First(Page)' <= i /\ i <= Top' /\ ~(Filled' /\ i = slot') =>
          pages'[Page'][i] = arch_buf'[i]
    BY <2>1, <2>2, <2>3, <2>4, <2>5
  <2>7. op \in {"add", "turn"} /\ (op = "turn" => slot = 0) /\ archive_page_num \in Pages
        /\ First(Page) \in {0, 1} /\ First(archive_page_num) \in {0, 1}
    BY <2>2, FirstIs DEF Steps, Types
  <2>8. op = "add" => Top = slot - 1 /\ Page = archive_page_num
    BY <1>2 DEF Top
  <2>9. ASSUME pc' = "erase" PROVE op' = "turn" \/ slot' <= First(Page)'
    <3> SUFFICES ASSUME op = "add", ~(slot <= First(Page)) PROVE FALSE
      BY <2>2, <2>4, <2>7
    <3>1. erasing = Null
      <4>1. slot # 0
        BY <2>7, Limits DEF Types
      <4> QED
        BY <2>1, <4>1, BusyPage
    <3>2. pages[archive_page_num][slot] = Blank
      <4>1. slot > Top /\ (First(Page) = 0 \/ Top >= 1)
        BY <1>2, <2>7, <2>8, Limits
      <4> QED
        BY <1>2, <2>3, <2>8, <4>1 DEF PageHolds
    <3> QED
      BY <2>2, <2>9, <3>1, <3>2
  <2>10. ASSUME pc' = "program", NEW i \in Cells, i = slot \/ (i > slot /\ slot >= First(archive_page_num))
         PROVE  pages[archive_page_num][i] = Blank
    <3>1. CASE erasing = Null
      <4>1. pages[archive_page_num][slot] = Blank
        BY <2>2, <2>10, <3>1
      <4>2. CASE i = slot
        BY <4>1, <4>2
      <4>3. CASE i > slot /\ slot >= First(archive_page_num)
        <5>1. First(archive_page_num) <= slot /\ slot < i
          BY <1>2, <2>7, <4>3, Limits
        <5> QED
          BY <1>1, <1>2, <2>7, <4>1, <5>1 DEF Form
      <4> QED
        BY <2>10, <4>2, <4>3
    <3>2. CASE erasing # Null
      <4>1. Page = 0 /\ archive_page_num = 0 /\ Top = Null /\ (missed => erasing = 0)
        BY <2>1, <3>2, BusyPage
      <4>2. First(Page) = 0 /\ i > Top
        BY <2>1, <4>1, FirstIs, Limits
      <4> QED
        BY <2>3, <4>1, <4>2 DEF PageHolds
    <3> QED
      BY <3>1, <3>2
  <2>11. PageHolds(Page, Top)'
    BY <2>1, <2>3, <2>4 DEF PageHolds
  <2>12. pc' = "program" => \A i \in Cells :
           i = slot' \/ (i > slot' /\ slot' >= First(archive_page_num)') =>
             pages'[archive_page_num'][i] = Blank
    BY <2>1, <2>2, <2>4, <2>10
  <2> QED
    BY <2>6, <2>9, <2>11, <2>12
<1>5. CASE ErasePage /\ erasing = Null
  <2>1. /\ pc = "erase" /\ pc' = "program"
        /\ UNCHANGED <<arch_buf, last_rec_ptr, archive_page_num, op, slot>>
    BY <1>5 DEF ErasePage, ram
  <2>2. /\ Open /\ Page' = Page /\ Top' = Top /\ Filled /\ Filled' /\ op \in {"add", "turn"}
        /\ op = "turn" => slot = 0
    BY <2>1 DEF Steps, Open, Page, Top, Filled
  <2>3. /\ PageHolds(Page, Top) /\ (op = "turn" \/ slot <= First(Page))
        /\ \A i \in Cells : First(Page) <= i /\ i <= Top /\ ~(Filled /\ i = slot) => pages[Page][i] = arch_buf[i]
    <3>1. erasing # Page
      BY <1>2, <1>5, Limits
    <3> QED
      BY <1>1, <2>1, <2>2, <3>1, Zenon DEF InMemory
  <2>4. /\ \A p \in Pages, i \in Cells :
             pages'[p][i] = IF p = archive_page_num THEN Blank ELSE pages[p][i]
        /\ missed' = (missed /\ (archive_page_num # 0 \/ slot # 0))
    BY <1>5, PageErased
  <2>5. archive_page_num \in Pages /\ missed \in BOOLEAN /\ First(Page) \in {0, 1}
    BY FirstIs DEF Types
  <2>6. \A i \in Cells : pages'[archive_page_num'][i] = Blank
    BY <2>1, <2>4, <2>5
  <2>7. CASE op = "turn"
    <3>1. Page # archive_page_num /\ \A i \in Cells : pages'[Page][i] = pages[Page][i]
      BY <1>2, <2>4, <2>7
    <3>2. Page = 0 => missed' = missed
      BY <2>4, <2>5, <3>1, Zenon
    <3>3. First(Page)' = First(Page)
      BY <2>2, <3>2 DEF First
    <3>4. PageHolds(Page, Top)'
      BY <2>2, <2>3, <3>1, <3>3 DEF PageHolds
    <3> QED
      BY <2>1, <2>2, <2>3, <2>6, <2>7, <3>1, <3>3, <3>4
  <2>8. CASE op = "add"
    <3>1. Page = archive_page_num /\ Top = slot - 1 /\ slot <= First(Page)
      BY <1>2, <2>3, <2>8 DEF Top
    <3>2. \A i \in Cells : ~(First(Page)' <= i /\ i <= Top)
      <4>1. CASE slot = 0
        BY <3>1, <4>1, Limits
      <4>2. CASE slot # 0
        <5>1. slot = 1 /\ First(Page) = 1
          BY <1>2, <2>5, <3>1, <4>2, Limits
        <5>2. missed' = TRUE /\ Page = 0
          BY <2>4, <4>2, <5>1, FirstIs, Zenon
        <5>3. First(Page)' = 1
          BY <2>2, <5>2 DEF First
        <5> QED
          BY <3>1, <5>1, <5>3, Limits
      <4> QED
        BY <4>1, <4>2
    <3>3. \A i \in Cells : pages'[Page'][i] = Blank
      BY <2>1, <2>2, <2>6, <3>1
    <3>4. PageHolds(Page, Top)'
      BY <2>2, <3>2, <3>3 DEF PageHolds
    <3> QED
      BY <2>1, <2>2, <2>6, <3>2, <3>4
  <2> QED
    BY <2>2, <2>7, <2>8
<1>9. CASE ChipReady \/ (ErasePage /\ erasing # Null)
  <2>1. /\ Page' = 0 /\ Top' = Null /\ archive_page_num' = 0 /\ missed' = FALSE
        /\ op' = op /\ slot' = slot /\ (op = "add" => slot = 0) /\ op' # "turn"
        /\ \A i \in Cells : pages'[0][i] = Blank
    BY <1>1, <1>9, ReadyMoves
  <2>2. \A i \in Cells : ~(i <= Null)
    BY Limits
  <2>3. PageHolds(Page, Top)'
    BY <2>1, <2>2 DEF PageHolds
  <2>4. pc' = "erase" => slot' <= First(Page)'
    <3>1. Steps'
      BY StepsKept
    <3>2. First(Page)' = 0
      BY <2>1 DEF First
    <3> QED
      BY <2>1, <3>1, <3>2 DEF Steps
  <2> QED
    BY <2>1, <2>2, <2>3, <2>4
<1>6. CASE ProgramRecord
  <2>1. /\ pc = "program" /\ pc' = "ready" /\ op' = "none" /\ last_rec_ptr' = slot
        /\ UNCHANGED <<arch_buf, archive_page_num, slot>>
    BY <1>6, Zenon DEF ProgramRecord
  <2>2. Page' = archive_page_num /\ Top' = slot /\ ~Filled' /\ Filled
    BY <2>1 DEF Page, Top, Filled
  <2>3. /\ Open /\ arch_buf[slot] = added + 1 /\ added \in Nat
        /\ Top = (IF op = "add" THEN slot - 1 ELSE PageRecords - 1) /\ op \in {"add", "turn"}
        /\ op = "turn" => slot = 0
    BY <1>6, Added
  <2>4. archive_page_num \in Pages
    BY DEF Types
  <2>5. CASE erasing = Null
    <3>1. /\ PageHolds(Page, Top)
          /\ \A i \in Cells : First(Page) <= i /\ i <= Top /\ ~(Filled /\ i = slot) => pages[Page][i] = arch_buf[i]
          /\ \A i \in Cells : i > slot /\ slot >= First(archive_page_num) => pages[archive_page_num][i] = Blank
      <4>1. erasing # Page
        BY <1>2, <2>5, Limits
      <4> QED
        BY <1>1, <2>1, <2>3, <4>1, Zenon DEF InMemory
    <3>2. /\ \A i \in Cells : pages'[archive_page_num][i] = IF i = slot THEN added + 1 ELSE pages[archive_page_num][i]
          /\ First(archive_page_num)' = First(archive_page_num)
      BY <1>6, <2>1, <2>4, <2>5, RecordWritten DEF First
    <3>3. First(archive_page_num) \in {0, 1}
      BY FirstIs
    <3>4. ASSUME NEW i \in Cells, First(archive_page_num) <= i, i < slot
          PROVE  pages[archive_page_num][i] > 0 /\ pages[archive_page_num][i] = arch_buf[i]
      <4>1. op = "add" /\ i <= Top /\ i # slot /\ Page = archive_page_num
        BY <1>2, <2>3, <3>4, Limits
      <4> QED
        BY <3>1, <3>4, <4>1 DEF PageHolds
    <3>5. ASSUME NEW i \in Cells
          PROVE  /\ First(archive_page_num) <= i /\ i <= slot =>
                      pages'[archive_page_num][i] > 0 /\ pages'[archive_page_num][i] = arch_buf[i]
                 /\ i > slot /\ (First(archive_page_num) = 0 \/ slot >= 1) => pages'[archive_page_num][i] = Blank
      <4>1. CASE i = slot
        BY <1>2, <2>3, <3>2, <4>1, Limits
      <4>2. CASE i < slot
        BY <1>2, <3>2, <3>4, <4>2, Limits
      <4>3. CASE i > slot
        <5>1. First(archive_page_num) = 0 \/ slot >= 1 => slot >= First(archive_page_num)
          BY <1>2, <3>3, Limits
        <5> QED
          BY <1>2, <3>1, <3>2, <4>3, <5>1, Limits
      <4> QED
        BY <1>2, <4>1, <4>2, <4>3, Limits
    <3> QED
      BY <2>1, <2>2, <3>2, <3>5 DEF PageHolds
  <2>6. CASE erasing # Null
    <3>1. archive_page_num = 0 /\ slot = 0 /\ missed' = TRUE
      <4>1. archive_page_num = 0 /\ op = "add" /\ slot = 0
        BY <2>3, <2>6, BusyPage
      <4>2. missed' = TRUE
        BY <1>6, <2>6, RecordIgnored
      <4> QED
        BY <4>1, <4>2
    <3>2. First(archive_page_num)' = 1
      BY <2>1, <3>1 DEF First
    <3>3. \A i \in Cells : ~(1 <= i /\ i <= slot) /\ ~(1 = 0 \/ slot >= 1)
      BY <3>1, Limits
    <3> QED
      BY <2>1, <2>2, <3>2, <3>3 DEF PageHolds
  <2> QED
    BY <2>5, <2>6
<1>7. CASE ErasePages
  <2>1. pc = "erasePages" /\ pc' = "ready" /\ op' = "none" /\ UNCHANGED ram
    BY <1>7, Zenon DEF ErasePages
  <2>2. last_rec_ptr' = Null /\ archive_page_num' = 0
    BY <2>1 DEF Steps, ram
  <2>3. Page' = 0 /\ Top' = Null
    BY <2>1, <2>2 DEF Page, Top
  <2>4. \A i \in Cells : pages'[0][i] = Blank
    BY <1>7, <2>3, PagesErased
  <2>5. \A i \in Cells : ~(i <= Null)
    BY Limits
  <2> QED
    BY <2>1, <2>3, <2>4, <2>5 DEF PageHolds
<1>8. CASE OpenArchive
  <2>1. PICK p \in Pages :
          /\ p = archive_page_num' /\ arch_buf' = Loaded(p) /\ last_rec_ptr' = PageRun(p) - 1
          /\ pc = "off" /\ pc' = "ready" /\ op' = op /\ pages' = pages
    BY <1>8, Opened DEF chip, flash
  <2>2. op = "none"
    BY <2>1 DEF Steps
  <2>3. Page' = p /\ Top' = PageRun(p) - 1
    BY <2>1, <2>2 DEF Page, Top
  <2>4. PageHolds(p, PageRun(p) - 1)
    BY <1>1, PageHoldsRun
  <2>6. First(p)' = First(p)
    BY <1>8, Opened DEF First, history
  <2>5. \A i \in Cells : i <= PageRun(p) - 1 => pages[p][i] = arch_buf'[i]
    <3> SUFFICES ASSUME NEW i \in Cells, i <= PageRun(p) - 1 PROVE pages[p][i] = arch_buf'[i]
      OBVIOUS
    <3>1. i < PageRun(p)
      BY PageRunIs, Limits
    <3> QED
      BY <2>1, <3>1, LoadedTypes
  <2>7. PageHolds(Page, Top)'
    BY <2>1, <2>3, <2>4, <2>6 DEF PageHolds
  <2> QED
    BY <2>1, <2>3, <2>5, <2>7
<1> QED
  BY <1>3, <1>4, <1>5, <1>6, <1>7, <1>8, <1>9, Closed

\* When the chip has ignored a record, no other place has it.
LEMMA GoneKept ==
  ASSUME Types, Steps, Busy, Unique, Memory, InMemory, Gone, Next
  PROVE  Gone'
<1> SUFFICES ASSUME Open', ~scarred', op' # "turn", Top' >= 0, First(Page)' = 1, arch_buf'[0] > 0
             PROVE  OnlyAt(arch_buf[0], 0, 0)'
  BY Zenon DEF Gone
<1>1. ~scarred /\ missed' /\ Page' = 0 /\ 0 \in Cells /\ 0 \in Pages
  BY Scars, Limits DEF First
<1>2. ASSUME Open, op # "turn", Top >= 0, First(Page) = 1, arch_buf[0] > 0
      PROVE  OnlyAt(arch_buf[0], 0, 0)
  BY <1>1, <1>2, Zenon DEF Gone
<1>3. CASE StartAdd \/ ErasePtrs \/ ProgramPtr \/ FillBuffer \/ SetTime
  <2>1. /\ UNCHANGED <<erasing, missed>> /\ Open /\ Page' = Page /\ Top' = Top /\ pages' = pages
        /\ FillBuffer \/ UNCHANGED arch_buf
    BY <1>3, OpenMoves
  <2>2. First(Page) = 1
    BY <2>1 DEF First
  <2>3. op # "turn"
    <3>1. StartAdd => pc = "ready"
      BY Zenon DEF StartAdd
    <3>2. ~StartAdd => op' = op
      BY <1>3, Zenon DEF ErasePtrs, ProgramPtr, FillBuffer, SetTime
    <3> QED
      BY <3>1, <3>2 DEF Steps
  <2>4. arch_buf'[0] = arch_buf[0]
    <3>1. CASE FillBuffer
      <4>1. pc = "fill" /\ arch_buf' = [arch_buf EXCEPT ![slot] = added + 1]
        BY <3>1 DEF FillBuffer
      <4>2. op = "add"
        BY <2>3, <4>1 DEF Steps
      <4>3. slot # 0
        BY <2>1, <4>2 DEF Top
      <4> QED
        BY <1>1, <4>1, <4>3 DEF Types
    <3> QED
      BY <2>1, <3>1
  <2> QED
    BY <1>2, <2>1, <2>2, <2>3, <2>4 DEF OnlyAt
<1>4. CASE ErasePage /\ erasing = Null
  <2>1. /\ pc = "erase" /\ UNCHANGED <<arch_buf, last_rec_ptr, archive_page_num, op, slot>>
    BY <1>4 DEF ErasePage, ram
  <2>2. op = "add" /\ Open /\ Page = 0 /\ archive_page_num = 0 /\ Top' = Top
    BY <1>1, <2>1 DEF Steps, Open, Page, Top
  <2>3. /\ \A p \in Pages, i \in Cells :
             pages'[p][i] = IF p = archive_page_num THEN Blank ELSE pages[p][i]
        /\ missed' = (missed /\ (archive_page_num # 0 \/ slot # 0))
    BY <1>4, PageErased
  <2>4. missed
    BY <1>1, <2>3, Zenon
  <2>5. OnlyAt(arch_buf[0], 0, 0)
    BY <1>2, <2>1, <2>2, <2>4, FirstIs
  <2>6. ASSUME NEW q \in Pages, NEW j \in Cells PROVE pages'[q][j] # arch_buf[0]
    <3>1. CASE q = 0
      BY <2>1, <2>2, <2>3, <3>1, Limits
    <3>2. CASE q # 0
      <4>1. pages'[q][j] = pages[q][j]
        BY <2>2, <2>3, <3>2
      <4>2. pages[q][j] # arch_buf[0]
        BY <1>1, <2>1, <2>5, <3>2 DEF OnlyAt, Unique
      <4> QED
        BY <4>1, <4>2
    <3> QED
      BY <3>1, <3>2
  <2> QED
    BY <2>1, <2>6 DEF OnlyAt
<1>5. CASE ProgramRecord
  <2>1. /\ pc = "program" /\ last_rec_ptr' = slot /\ op' = "none"
        /\ UNCHANGED <<arch_buf, archive_page_num, slot>>
    BY <1>5, Zenon DEF ProgramRecord
  <2>2. archive_page_num = 0
    BY <1>1, <2>1 DEF Page
  <2>3. /\ Open /\ arch_buf[slot] = added + 1 /\ added \in Nat /\ slot \in Cells
        /\ Top = (IF op = "add" THEN slot - 1 ELSE PageRecords - 1) /\ op \in {"add", "turn"}
        /\ op = "turn" => slot = 0
        /\ slot # 0 => arch_buf[0] <= added
    BY <1>1, <1>5, Added
  <2>4. \A p \in Pages, i \in Cells : pages[p][i] <= added
    BY CellTypes
  <2>5. CASE erasing = Null
    <3>1. /\ \A p \in Pages, i \in Cells :
               pages'[p][i] = IF p = archive_page_num /\ i = slot THEN added + 1 ELSE pages[p][i]
          /\ missed
      BY <1>1, <1>5, <2>5, RecordWritten
    <3>2. CASE slot = 0
      <4>1. pages'[0][0] = arch_buf'[0]
        BY <1>1, <2>1, <2>2, <2>3, <3>1, <3>2
      <4> QED
        BY <4>1 DEF OnlyAt
    <3>3. CASE slot # 0
      <4>1. op = "add" /\ Top >= 0 /\ Page = 0
        BY <2>2, <2>3, <3>3, Limits DEF Page
      <4>2. First(Page) = 1
        BY <3>1, <4>1 DEF First
      <4>3. OnlyAt(arch_buf[0], 0, 0)
        BY <1>2, <2>1, <2>3, <4>1, <4>2
      <4>4. CASE pages[0][0] = arch_buf[0]
        <5>1. pages'[0][0] = arch_buf'[0]
          BY <1>1, <2>1, <3>1, <3>3, <4>4
        <5> QED
          BY <5>1 DEF OnlyAt
      <4>5. CASE \A q \in Pages, j \in Cells : pages[q][j] # arch_buf[0]
        <5>1. \A q \in Pages, j \in Cells : pages'[q][j] # arch_buf'[0]
          <6>1. added + 1 # arch_buf[0]
            BY <2>3, <3>3
          <6> QED
            BY <2>1, <3>1, <4>5, <6>1
        <5> QED
          BY <5>1 DEF OnlyAt
      <4> QED
        BY <4>3, <4>4, <4>5 DEF OnlyAt
    <3> QED
      BY <3>2, <3>3
  <2>6. CASE erasing # Null
    <3>1. slot = 0 /\ Finish
      BY <1>5, <2>3, <2>6, BusyPage, RecordIgnored
    <3>2. \A p \in Pages, i \in Cells : pages'[p][i] = Blank \/ pages'[p][i] = pages[p][i]
      BY <3>1, Finished
    <3>3. arch_buf'[0] = added + 1
      BY <2>1, <2>3, <3>1
    <3>4. \A q \in Pages, j \in Cells : pages'[q][j] # arch_buf'[0]
      BY <2>3, <2>4, <3>2, <3>3, Limits
    <3> QED
      BY <3>4 DEF OnlyAt
  <2> QED
    BY <2>5, <2>6
<1>6. CASE ErasePages
  <2>1. pc = "erasePages" /\ op' = "none" /\ UNCHANGED ram
    BY <1>6, Zenon DEF ErasePages
  <2>2. Top' = Null
    BY <2>1 DEF Steps, ram, Top
  <2> QED
    BY <2>2, Limits
<1>7. CASE OpenArchive
  <2>1. PICK p \in Pages :
          /\ p = archive_page_num' /\ arch_buf' = Loaded(p) /\ last_rec_ptr' = PageRun(p) - 1
          /\ pc = "off" /\ op' = op /\ pages' = pages
    BY <1>7, Opened DEF chip, flash
  <2>2. op = "none"
    BY <2>1 DEF Steps
  <2>3. p = 0 /\ PageRun(p) - 1 >= 0
    BY <1>1, <2>1, <2>2 DEF Page, Top
  <2>4. 0 < PageRun(p)
    BY <2>3, PageRunIs
  <2>5. arch_buf'[0] = pages'[0][0]
    BY <1>1, <2>1, <2>3, <2>4, LoadedTypes
  <2> QED
    BY <2>5 DEF OnlyAt
<1>8. CASE ChipReady \/ (ErasePage /\ erasing # Null)
  BY <1>1, <1>8, ReadyMoves
<1> QED
  BY <1>3, <1>4, <1>5, <1>6, <1>7, <1>8, Closed

LEMMA InFlashKept ==
  ASSUME Types, Steps, Busy, Form, Memory, InMemory, InFlash, Bootable, Damaged, Next
  PROVE  InFlash'
<1> SUFFICES ASSUME Open', ~scarred'
             PROVE  Rest(Page, Top)' /\ (op' = "turn" /\ sound' => added' - cleared' >= PageRecords)
  BY Zenon DEF InFlash
<1>1. ~scarred
  BY Scars
<1>2. /\ slot \in Cells /\ Page \in Pages /\ PrevPage(Page) # Page /\ PrevPage(Page) \in Pages
      /\ op = "turn" => Page # archive_page_num /\ Page = PrevPage(archive_page_num)
      /\ op # "turn" => Page = archive_page_num
      /\ added \in Nat /\ cleared \in Nat /\ since \in Nat /\ since <= added - cleared /\ cleared <= added
  <2>1. /\ slot \in Cells /\ added \in 0 .. MaxRecords /\ cleared \in 0 .. added
        /\ since \in 0 .. added - cleared
    BY DEF Types
  <2>2. added \in Nat /\ cleared \in Nat /\ since \in Nat /\ since <= added - cleared /\ cleared <= added
    BY <2>1, Limits
  <2> QED
    BY <2>1, <2>2, PageIs
<1>3. CASE StartAdd \/ ErasePtrs \/ ProgramPtr \/ FillBuffer \/ SetTime
  <2>1. /\ Open /\ Page' = Page /\ Top' = Top /\ pages' = pages /\ Base' = Base /\ ~Filled
        /\ UNCHANGED <<added, cleared, sound, since, missed>>
    BY <1>3, OpenMoves
  <2>2. Rest(Page, Top) /\ (op = "turn" /\ sound => added - cleared >= PageRecords)
    BY <1>1, <2>1, Zenon DEF InFlash
  <2>3. Rest(Page, Top)'
    BY <2>1, <2>2, Zenon DEF Rest, First
  <2>4. ASSUME op' = "turn", sound' PROVE added' - cleared' >= PageRecords
    <3>1. CASE op = "turn"
      BY <2>1, <2>2, <2>4, <3>1
    <3>2. CASE op # "turn"
      <4>1. StartAdd
        BY <1>3, <2>4, <3>2 DEF ErasePtrs, ProgramPtr, FillBuffer, SetTime
      <4>2. last_rec_ptr + 1 = PageRecords /\ op = "none"
        <5>1. op' # "add"
          BY <2>4
        <5>2. pc = "ready" /\ last_rec_ptr + 1 = PageRecords
          BY <4>1, <5>1, Zenon DEF StartAdd
        <5> QED
          BY <5>2 DEF Steps
      <4>3. Top = PageRecords - 1
        BY <4>2, Limits DEF Top, Types
      <4>4. added - cleared > Top
        BY <2>1, <2>4, Zenon DEF Memory
      <4> QED
        BY <1>2, <2>1, <4>3, <4>4, Limits
    <3> QED
      BY <3>1, <3>2
  <2> QED
    BY <2>3, <2>4
<1>4. CASE ErasePage /\ erasing = Null
  <2>1. /\ pc = "erase" /\ pc' = "program" /\ UNCHANGED <<last_rec_ptr, archive_page_num, op, slot>>
        /\ UNCHANGED <<added, cleared, sound, since>>
    BY <1>4 DEF ErasePage, ram
  <2>2. /\ Open /\ Page' = Page /\ Top' = Top /\ Base' = Base /\ op \in {"add", "turn"}
    BY <2>1 DEF Steps, Open, Page, Top, Base
  <2>3. Rest(Page, Top) /\ (op = "turn" /\ sound => added - cleared >= PageRecords)
    BY <1>1, <2>2, Zenon DEF InFlash
  <2>4. CASE op = "turn"
    <3>1. Top = PageRecords - 1
      BY <2>1, <2>4 DEF Top, Steps
    <3>2. \A i \in Cells : ~(i > Top)
      BY <3>1, Limits
    <3>3. ~(sound /\ added - cleared < PageRecords)
      BY <1>2, <2>3, <2>4, Limits
    <3>4. Rest(Page, Top)'
      BY <2>1, <2>2, <3>2, <3>3 DEF Rest
    <3> QED
      BY <2>1, <2>3, <3>4
  <2>5. CASE op = "add"
    <3>1. /\ \A p \in Pages, i \in Cells :
               pages'[p][i] = IF p = archive_page_num THEN Blank ELSE pages[p][i]
          /\ missed' = (missed /\ (archive_page_num # 0 \/ slot # 0))
      BY <1>4, PageErased
    <3>2. Page = archive_page_num
      BY <1>2, <2>5
    <3>3. First(PrevPage(Page))' = First(PrevPage(Page))
      <4>1. archive_page_num # 0 => missed' = missed
        BY <3>1, Zenon DEF Types
      <4>2. PrevPage(Page)' = PrevPage(Page)
        BY <2>2 DEF PrevPage
      <4> QED
        BY <1>2, <3>2, <4>1, <4>2 DEF First
    <3>4. \A p \in Pages \ {Page}, i \in Cells : pages'[p][i] = pages[p][i]
      BY <3>1, <3>2
    <3>5. /\ PrevPage(Page)' = PrevPage(Page)
          /\ \A i \in Cells : Number(added, Top, i)' = Number(added, Top, i)
      BY <2>1, <2>2 DEF PrevPage, Number
    <3>6. Rest(Page, Top)'
      BY <1>2, <2>1, <2>2, <2>3, <3>3, <3>4, <3>5 DEF Rest
    <3> QED
      BY <2>1, <2>5, <3>6
  <2> QED
    BY <2>2, <2>4, <2>5
<1>8. CASE ChipReady \/ (ErasePage /\ erasing # Null)
  <2>1. /\ Open /\ Page = 0 /\ Page' = 0 /\ Top = Null /\ Top' = Null /\ Base' = Base /\ op' # "turn"
        /\ sound /\ added = cleared /\ Finish /\ UNCHANGED <<added, cleared, sound>>
    BY <1>1, <1>8, ReadyMoves
  <2>2. Rest(Page, Top) /\ Base = cleared
    BY <1>1, <2>1, Zenon DEF InFlash, Base
  <2>3. \A p \in Pages, i \in Cells : pages'[p][i] = Blank \/ pages'[p][i] = pages[p][i]
    BY <2>1, Finished
  <2>4. \A i \in Cells : ~(Number(added, Null, i) > cleared)
    BY <1>2, <2>1, Limits DEF Number
  <2>5. \A q \in Pages \ {0}, i \in Cells : pages'[q][i] <= cleared
    <3>1. added - cleared < PageRecords
      BY <1>2, <2>1, Limits
    <3>2. \A q \in Pages \ {0}, i \in Cells : pages[q][i] <= cleared
      BY <2>1, <2>2, <3>1 DEF Rest
    <3> QED
      BY <1>2, <2>3, <3>2, Limits
  <2>6. Rest(Page, Top)'
    BY <2>1, <2>2, <2>4, <2>5, Zenon DEF Rest
  <2> QED
    BY <2>1, <2>6
<1>5. CASE ProgramRecord /\ erasing = Null
  <2>1. /\ pc' = "ready" /\ op' = "none" /\ last_rec_ptr' = slot /\ added' = added + 1
        /\ UNCHANGED <<archive_page_num, cleared>>
    BY <1>5, Zenon DEF ProgramRecord
  <2>2. Page' = archive_page_num /\ Top' = slot
    BY <2>1 DEF Page, Top
  <2>3. /\ Open /\ Top = (IF op = "add" THEN slot - 1 ELSE PageRecords - 1) /\ op \in {"add", "turn"}
        /\ op = "turn" => slot = 0
        /\ Top \in Cells \cup {Null}
    BY <1>5, Added
  <2>4. /\ Rest(Page, Top) /\ (op = "turn" /\ sound => added - cleared >= PageRecords)
        /\ \A i \in Cells : First(Page) <= i /\ i <= Top /\ i # slot => pages[Page][i] = arch_buf[i]
    <3>1. erasing # Page
      BY <1>2, <1>5, Limits
    <3> QED
      BY <1>1, <2>3, <3>1, Zenon DEF InMemory, InFlash
  <2>5. /\ \A p \in Pages, i \in Cells :
             pages'[p][i] = IF p = archive_page_num /\ i = slot THEN added + 1 ELSE pages[p][i]
        /\ missed' = missed
    BY <1>5, RecordWritten
  <2>9. First(PrevPage(archive_page_num))' = First(PrevPage(archive_page_num))
    BY <2>1, <2>5 DEF First, PrevPage
  <2>6. ASSUME NEW i \in Cells, i > slot, First(PrevPage(archive_page_num)) <= i,
               Number(added + 1, slot, i) > Base'
        PROVE  pages'[PrevPage(archive_page_num)][i] = Number(added + 1, slot, i)
    <3>1. Number(added + 1, slot, i) = Number(added, Top, i) /\ i # slot
      BY <1>2, <1>5, <2>6, Added, Limits
    <3>2. Number(added + 1, slot, i) > Base
      BY <1>2, <1>5, <2>6, AddedBase
    <3>3. pages'[PrevPage(archive_page_num)][i] = pages[PrevPage(archive_page_num)][i]
      <4>1. archive_page_num \in Pages
        BY DEF Types
      <4>2. PrevPage(archive_page_num) \in Pages /\ PrevPage(archive_page_num) # archive_page_num
        BY <4>1, NextAndPrev
      <4> QED
        BY <2>5, <4>2
    <3>4. CASE op = "add"
      <4>1. i > Top /\ Page = archive_page_num
        BY <1>2, <2>3, <2>6, <3>4, Limits
      <4>2. pages[PrevPage(Page)][i] = Number(added, Top, i)
        BY <2>4, <2>6, <3>1, <3>2, <4>1 DEF Rest
      <4> QED
        BY <3>1, <3>3, <4>1, <4>2
    <3>5. CASE op = "turn"
      <4>1. i <= Top /\ Page = PrevPage(archive_page_num)
        BY <1>2, <2>3, <3>5, Limits
      <4>2. arch_buf[i] = Number(added + 1, slot, i)
        BY <1>5, <3>2, Added
      <4> QED
        BY <2>4, <2>6, <3>1, <3>3, <4>1, <4>2
    <3> QED
      BY <2>3, <3>4, <3>5
  <2>7. ASSUME sound', added' - cleared' < PageRecords,
               NEW q \in Pages \ {archive_page_num}, NEW i \in Cells
        PROVE  pages'[q][i] <= cleared
    <3>1. sound
      <4> SUFFICES ASSUME ~sound PROVE FALSE
        BY DEF Types
      <4>1. since + 1 >= 2 * PageRecords
        BY <1>5, <2>7, AddedBase
      <4> QED
        BY <1>2, <2>1, <2>7, <4>1, Limits
    <3>2. added - cleared < PageRecords
      BY <1>2, <2>1, <2>7, Limits
    <3>3. op # "turn" /\ Page = archive_page_num
      BY <1>2, <2>4, <3>1, <3>2, Limits
    <3>4. pages[q][i] <= cleared
      BY <2>4, <2>7, <3>1, <3>2, <3>3 DEF Rest
    <3> QED
      BY <2>5, <2>7, <3>4
  <2>8. Rest(Page, Top)'
    <3>1. /\ Page' = archive_page_num /\ Top' = slot /\ added' = added + 1 /\ cleared' = cleared
          /\ PrevPage(Page)' = PrevPage(archive_page_num)
          /\ First(PrevPage(Page))' = First(PrevPage(archive_page_num))
      BY <2>1, <2>2, <2>9 DEF PrevPage, First
    <3>2. \A i \in Cells : Number(added, Top, i)' = Number(added + 1, slot, i)
      BY <2>1, <2>2 DEF Number
    <3> QED
      BY <2>6, <2>7, <3>1, <3>2, Zenon DEF Rest
  <2> QED
    BY <2>1, <2>8
<1>9. CASE ProgramRecord /\ erasing # Null
  <2>1. /\ pc' = "ready" /\ op' = "none" /\ last_rec_ptr' = slot /\ added' = added + 1
        /\ UNCHANGED <<archive_page_num, cleared>>
    BY <1>9, Zenon DEF ProgramRecord
  <2>2. Open /\ op \in {"add", "turn"}
    BY <1>9, Added
  <2>3. /\ Page = 0 /\ archive_page_num = 0 /\ slot = 0 /\ sound /\ added = cleared
    BY <1>9, <2>2, BusyPage
  <2>4. Page' = 0 /\ Top' = 0 /\ Base = cleared /\ Base' = cleared
    <3>1. Base = cleared
      BY <2>3 DEF Base
    <3>2. Base' = Base
      BY <1>9, <2>3, AddedBase
    <3> QED
      BY <2>1, <2>3, <3>1, <3>2 DEF Page, Top
  <2>5. \A i \in Cells : i > 0 => ~(Number(added + 1, 0, i) > cleared)
    BY <1>2, <2>3, Limits DEF Number
  <2>6. \A q \in Pages \ {0}, i \in Cells : pages'[q][i] <= cleared
    <3>1. \A p \in Pages, i \in Cells : pages'[p][i] = Blank \/ pages'[p][i] = pages[p][i]
      BY <1>9, RecordIgnored, Finished
    <3>2. Rest(Page, Top)
      BY <1>1, <2>2, Zenon DEF InFlash
    <3>4. added - cleared < PageRecords
      BY <1>2, <2>3, Limits
    <3>3. \A q \in Pages \ {0}, i \in Cells : pages[q][i] <= cleared
      BY <2>3, <3>2, <3>4 DEF Rest
    <3> QED
      BY <1>2, <3>1, <3>3, Limits
  <2>7. Rest(Page, Top)'
    BY <2>1, <2>4, <2>5, <2>6, Zenon DEF Rest
  <2> QED
    BY <2>1, <2>7
<1>6. CASE ErasePages
  <2>1. pc = "erasePages" /\ op' = "none" /\ UNCHANGED ram /\ cleared' = added /\ added' = added /\ sound' = TRUE
    BY <1>6, Zenon DEF ErasePages
  <2>2. Top' = Null /\ Base' = added
    BY <2>1 DEF Steps, ram, Top, Base
  <2>3. Types'
    BY TypesRest, <1>6
  <2>4. \A q \in Pages, i \in Cells : pages'[q][i] <= added
    <3> SUFFICES ASSUME NEW q \in Pages, NEW i \in Cells PROVE pages'[q][i] <= added
      OBVIOUS
    <3>1. pages' \in [Pages -> [Cells -> Torn .. added]]
      BY <2>1, <2>3 DEF Types
    <3>2. pages'[q][i] \in Torn .. added
      BY <3>1
    <3> QED
      BY <1>2, <3>2, Limits
  <2>5. ASSUME NEW i \in Cells PROVE ~(Number(added, Null, i) > added)
    BY <1>2, Limits DEF Number
  <2>6. Rest(Page, Top)'
    BY <2>1, <2>2, <2>4, <2>5, Zenon DEF Rest
  <2> QED
    BY <2>1, <2>6
<1>7. CASE OpenArchive
  <2>1. /\ archive_page_num' \in Pages /\ last_rec_ptr' = PageRun(archive_page_num') - 1
        /\ pc = "off" /\ pc' = "ready" /\ UNCHANGED <<chip, op, added, history>>
    BY <1>7, Opened
  <2>2. op = "none" /\ op' = "none"
    BY <2>1 DEF Steps
  <2>3. /\ Page' = archive_page_num' /\ Top' = last_rec_ptr' /\ Base' = Base /\ pages' = pages
        /\ UNCHANGED <<cleared, sound, since, added, missed>>
    BY <2>1, <2>2 DEF Page, Top, Base, chip, flash, history
  <2>4. Rest(archive_page_num', last_rec_ptr')
    <3>1. CASE sound
      BY <1>7, <3>1, BootFinds DEF Kept
    <3>2. CASE ~sound
      <4>1. Base = added
        BY <1>2, <2>1, <3>2 DEF Damaged, Base
      <4>2. last_rec_ptr' \in Cells \cup {Null}
        BY <2>1, LoadedTypes
      <4>3. ASSUME NEW i \in Cells PROVE ~(Number(added, last_rec_ptr', i) > added)
        <5>1. PICK l \in Cells \cup {Null} : l = last_rec_ptr'
          BY <4>2
        <5>2. ~(Number(added, l, i) > added)
          BY <1>2, Limits DEF Number
        <5> QED
          BY <5>1, <5>2
      <4> QED
        BY <3>2, <4>1, <4>3 DEF Rest
    <3> QED
      BY <3>1, <3>2
  <2>5. Rest(Page, Top)'
    BY <2>3, <2>4, Zenon DEF Rest, First
  <2> QED
    BY <2>2, <2>5
<1> QED
  BY <1>3, <1>4, <1>5, <1>6, <1>7, <1>8, <1>9, Closed

-----------------------------------------------------------------------------
(* What is on show. *)

LEMMA ShownTypes ==
  ASSUME NEW n \in Nat, NEW buf, NEW last \in Cells \cup {Null},
         \A i \in Cells : buf[i] \in Int /\ buf[i] <= n
  PROVE  LET s == Shown(buf, last)
         IN  s \in [1 .. Len(s) -> 1 .. n] /\ Len(s) \in 0 .. PageRecords
<1> DEFINE s == Shown(buf, last)
           m == RecordsCnt(buf, last)
<1>1. /\ Len(s) \in 0 .. PageRecords /\ DOMAIN s = 1 .. Len(s)
      /\ \A k \in 1 .. Len(s) : Valid(s[k]) /\ \E i \in Cells : s[k] = buf[i]
  BY ShownFrom
<1>2. s = [k \in 1 .. m |-> Back(buf, last, k - 1)]
  BY Zenon DEF Shown
<1>3. s = [k \in DOMAIN s |-> s[k]]
  BY <1>2
<1> HIDE DEF s
<1>4. \A k \in 1 .. Len(s) : s[k] \in 1 .. n
  BY <1>1 DEF Valid
<1>5. s \in [1 .. Len(s) -> 1 .. n]
  BY <1>1, <1>3, <1>4
<1> QED
  BY <1>1, <1>5 DEF s

\* The view changes only when an operation ends.
LEMMA ViewSame ==
  ASSUME Next, ~ProgramRecord, ~ErasePages, ~OpenArchive
  PROVE  /\ UNCHANGED <<view, added, cleared>>
         /\ sound' => sound
         /\ ~PowerCut => UNCHANGED <<sound, since>>
<1>1. CASE PowerCut
  BY <1>1, Zenon DEF PowerCut
<1>2. CASE ~PowerCut
  <2>1. /\ UNCHANGED <<view, added>>
        /\ UNCHANGED history \/ UNCHANGED <<cleared, sound, since>>
    BY <1>2, Zenon DEF Next, StartAdd, StartClear, ErasePtrs, ProgramPtr, FillBuffer, ErasePage,
                       OpenNoArchive, SetTime, ChipReady
  <2> QED
    BY <2>1 DEF history
<1> QED
  BY <1>1, <1>2

LEMMA ViewTypesKept ==
  ASSUME Types, Steps, ViewTypes, Next
  PROVE  ViewTypes'
<1>1. Types'
  BY TypesKept
<1>2. CASE ProgramRecord \/ OpenArchive
  <2>1. view' = Shown(arch_buf', last_rec_ptr') /\ (ProgramRecord \/ added' = added)
    BY <1>2, Zenon DEF ProgramRecord, OpenArchive
  <2>2. /\ last_rec_ptr' \in Cells \cup {Null} /\ added' \in Nat
        /\ arch_buf' \in [Cells -> Torn .. added' + 1]
    <3>1. /\ last_rec_ptr' \in Cells \cup {Null} /\ added' \in 0 .. MaxRecords
          /\ arch_buf' \in [Cells -> Torn .. added' + 1]
      BY <1>1, Zenon DEF Types
    <3> QED
      BY <3>1, Limits
  <2>3. \A i \in Cells : arch_buf'[i] \in Int /\ arch_buf'[i] <= added'
    <3>1. CASE ProgramRecord
      <4>1. arch_buf' = arch_buf /\ added' = added + 1 /\ arch_buf \in [Cells -> Torn .. added + 1]
        BY <3>1, Zenon DEF ProgramRecord, Types
      <4>2. added \in Nat
        BY Limits DEF Types
      <4> QED
        BY <4>1, <4>2, Limits
    <3>2. CASE OpenArchive
      <4>1. /\ arch_buf' = Loaded(archive_page_num') /\ added' = added
            /\ Loaded(archive_page_num') \in [Cells -> Torn .. added]
        BY <3>2, Opened, LoadedTypes
      <4> QED
        BY <2>2, <4>1, Limits
    <3> QED
      BY <1>2, <3>1, <3>2
  <2>4. PICK n \in Nat, last \in Cells \cup {Null} : n = added' /\ last = last_rec_ptr'
    BY <2>2
  <2> PICK buf : buf = arch_buf'
    OBVIOUS
  <2>5. \A i \in Cells : buf[i] \in Int /\ buf[i] <= n
    BY <2>3, <2>4
  <2>6. view' = Shown(buf, last)
    BY <2>1, <2>4
  <2>7. view' \in [1 .. Len(view') -> 1 .. n] /\ Len(view') \in 0 .. PageRecords
    BY <2>5, <2>6, ShownTypes
  <2> QED
    BY <2>4, <2>7 DEF ViewTypes
<1>3. CASE ErasePages
  <2>1. view' = <<>> /\ added' = added
    BY <1>3, Zenon DEF ErasePages
  <2>2. Len(<<>>) = 0 /\ <<>> \in [1 .. 0 -> 1 .. added] /\ 0 \in 0 .. PageRecords
    BY Limits
  <2> QED
    BY <2>1, <2>2 DEF ViewTypes
<1>4. CASE ~ProgramRecord /\ ~ErasePages /\ ~OpenArchive
  BY <1>4, ViewSame DEF ViewTypes
<1> QED
  BY <1>2, <1>3, <1>4

LEMMA ViewReadyKept ==
  ASSUME Steps, ViewReady, Next
  PROVE  ViewReady'
<1>1. CASE ProgramRecord \/ OpenArchive
  <2>1. view' = Shown(arch_buf', last_rec_ptr')
    BY <1>1, Zenon DEF ProgramRecord, OpenArchive
  <2> QED
    BY <2>1 DEF ViewReady
<1>2. CASE ErasePages
  <2>1. view' = <<>> /\ UNCHANGED ram /\ pc = "erasePages"
    BY <1>2, Zenon DEF ErasePages
  <2>2. last_rec_ptr' = Null
    BY <2>1 DEF Steps, ram
  <2> QED
    BY <2>1, <2>2, NothingShown DEF ViewReady
<1>3. CASE SetTime \/ ChipReady
  <2>1. UNCHANGED <<view, arch_buf, last_rec_ptr, pc>>
    BY <1>3, Zenon DEF SetTime, ChipReady, ram
  <2> QED
    BY <2>1 DEF ViewReady
<1>4. CASE ~ProgramRecord /\ ~ErasePages /\ ~OpenArchive /\ ~SetTime /\ ~ChipReady
  <2>1. pc' # "ready"
    <3>1. /\ ~PowerCut => pc' \in {"fill", "erasePtrs", "programPtr", "erasePages", "erase", "program"}
          /\ PowerCut => pc' = "off"
      BY <1>4, Zenon DEF Next, StartAdd, StartClear, ErasePtrs, ProgramPtr, FillBuffer, ErasePage,
                         OpenNoArchive, ClearRam, WritePtrAt, PowerCut
    <3> QED
      BY <3>1
  <2> QED
    BY <2>1 DEF ViewReady
<1> QED
  BY <1>1, <1>2, <1>3, <1>4

\* A sound archive at rest shows the last records.
LEMMA ReadyShows ==
  ASSUME Types', Memory', sound', pc' = "ready", op' = "none"
  PROVE  Shown(arch_buf', last_rec_ptr') =
           [k \in 1 .. (IF added' - cleared' < PageRecords THEN added' - cleared' ELSE PageRecords)
              |-> added' - k + 1]
<1>1. /\ last_rec_ptr' \in Cells \cup {Null} /\ added' \in Nat /\ cleared' \in 0 .. added'
  BY Limits DEF Types
<1>2. Top' = last_rec_ptr' /\ Open' /\ ~Filled' /\ Base' = cleared'
  BY DEF Top, Open, Filled, Base
<1>3. PICK last \in Cells \cup {Null}, n \in Nat : last = last_rec_ptr' /\ n = added'
  BY <1>1
<1> PICK buf : buf = arch_buf'
  OBVIOUS
<1>4. PICK c \in 0 .. n : c = cleared'
  BY <1>1, <1>3
<1>5. /\ last = Null => n = c
      /\ \A i \in Cells : /\ Number(n, last, i) > c => buf[i] = Number(n, last, i)
                          /\ Number(n, last, i) <= c => ~Valid(buf[i])
  BY <1>2, <1>3, <1>4, Zenon DEF Memory
<1>6. Shown(buf, last) = [k \in 1 .. (IF n - c < PageRecords THEN n - c ELSE PageRecords) |-> n - k + 1]
  BY <1>5, ShownNewest
<1> QED
  BY <1>3, <1>4, <1>6

LEMMA ViewSoundKept ==
  ASSUME Types, Steps, Memory, Bootable, Damaged, ViewSound, Next
  PROVE  ViewSound'
<1> SUFFICES ASSUME sound'
             PROVE  view' = [k \in 1 .. (IF added' - cleared' < PageRecords THEN added' - cleared'
                                         ELSE PageRecords) |-> added' - k + 1]
  BY Zenon DEF ViewSound
<1>1. CASE ProgramRecord \/ OpenArchive
  <2>1. view' = Shown(arch_buf', last_rec_ptr') /\ pc' = "ready"
    BY <1>1, Zenon DEF ProgramRecord, OpenArchive
  <2>2. Types' /\ Memory' /\ Steps'
    BY TypesKept, MemoryKept, StepsKept
  <2>3. op' = "none"
    BY <2>1, <2>2 DEF Steps
  <2> QED
    BY <2>1, <2>2, <2>3, ReadyShows
<1>2. CASE ErasePages
  <2>1. view' = <<>> /\ added' = added /\ cleared' = added /\ added \in Nat
    BY <1>2, Limits DEF ErasePages, Types
  <2>2. added' - cleared' = 0
    BY <2>1
  <2>3. [k \in 1 .. 0 |-> added' - k + 1] = <<>>
    OBVIOUS
  <2> QED
    BY <2>1, <2>2, <2>3, Limits
<1>3. CASE ~ProgramRecord /\ ~ErasePages /\ ~OpenArchive
  <2>1. sound /\ UNCHANGED <<view, added, cleared>>
    BY <1>3, ViewSame
  <2> QED
    BY <2>1 DEF ViewSound
<1> QED
  BY <1>1, <1>2, <1>3

LEMMA ViewTurnKept ==
  ASSUME Types, Steps, Busy, InMemory, Gone, ViewTypes, ViewReady, ViewTurn, Next
  PROVE  ViewTurn'
<1> SUFFICES ASSUME op' = "turn", ~scarred', NEW k \in 1 .. Len(view')
             PROVE  \E i \in Cells : OnlyAt(view[k], Page, i)'
  BY Zenon DEF ViewTurn
<1>1. ~scarred
  BY Scars
<1>2. CASE StartAdd
  <2>1. /\ pc = "ready" /\ last_rec_ptr + 1 = PageRecords /\ view' = view
        /\ pc' \in {"erasePtrs", "programPtr"}
    BY <1>2, Zenon DEF StartAdd, WritePtrAt
  <2>2. op = "none" /\ Open'
    BY <2>1 DEF Steps, Open
  <2>3. Open /\ Page' = Page /\ pages' = pages /\ ~Filled
    BY <1>2, <2>2, OpenMoves
  <2>4. /\ view = Shown(arch_buf, last_rec_ptr) /\ last_rec_ptr \in Cells \cup {Null}
    BY <2>1 DEF ViewReady, Types
  <2>5. PICK i \in Cells : view[k] = arch_buf[i]
    BY <2>1, <2>4, ShownFrom
  <2>6. view[k] > 0
    BY <2>1 DEF ViewTypes
  <2>7. i <= Top /\ Top >= 0 /\ Top # Null
    BY <2>1, <2>2, <2>4, Limits DEF Top
  <2>8. erasing # Page
    <3>1. erasing = Null
      BY <2>3, <2>7, BusyPage
    <3> QED
      BY <3>1, PageIs, Limits
  <2>9. First(Page) \in {0, 1} /\ (First(Page) = 1 => Page = 0)
    BY FirstIs
  <2>10. CASE First(Page) <= i
    <3>1. pages[Page][i] = arch_buf[i]
      BY <1>1, <2>3, <2>7, <2>8, <2>10, Zenon DEF InMemory
    <3>2. OnlyAt(view[k], Page, i)
      BY <2>5, <3>1 DEF OnlyAt
    <3> QED
      BY <2>1, <2>3, <3>2 DEF OnlyAt
  <2>11. CASE ~(First(Page) <= i)
    <3>1. i = 0 /\ First(Page) = 1 /\ Page = 0
      BY <2>9, <2>11, Limits
    <3>2. OnlyAt(view[k], Page, i)
      BY <1>1, <2>2, <2>3, <2>5, <2>6, <2>7, <3>1 DEF Gone
    <3> QED
      BY <2>1, <2>3, <3>2 DEF OnlyAt
  <2> QED
    BY <2>10, <2>11
<1>3. CASE ~StartAdd
  <2>1. ErasePtrs \/ ProgramPtr \/ FillBuffer \/ ErasePage
    <3>1. op' = "none" \/ op' = "clear" \/ ErasePtrs \/ ProgramPtr \/ FillBuffer \/ ErasePage \/ ChipReady
      <4>1. ASSUME SetTime \/ OpenArchive PROVE op' = "none"
        <5>1. pc \in {"ready", "off"} /\ op' = op
          BY <4>1, Zenon DEF SetTime, OpenArchive
        <5> QED
          BY <5>1 DEF Steps
      <4> QED
        BY <1>3, <4>1, Zenon DEF Next, StartClear, ProgramRecord, ErasePages, OpenNoArchive, ClearRam, PowerCut
    <3>2. ~ChipReady
      <4> SUFFICES ASSUME ChipReady PROVE FALSE
        OBVIOUS
      <4>1. op = "turn" /\ erasing # Null
        BY Zenon DEF ChipReady, Finish
      <4> QED
        BY <4>1 DEF Busy
    <3> QED
      BY <3>1, <3>2
  <2>2. op = "turn" /\ UNCHANGED <<view, archive_page_num>>
    BY <2>1 DEF ErasePtrs, ProgramPtr, FillBuffer, ErasePage, ram
  <2>3. PICK i \in Cells : OnlyAt(view[k], Page, i)
    BY <1>1, <2>2 DEF ViewTurn
  <2>4. Page' = Page /\ erasing = Null
    BY <2>2 DEF Page, Busy
  <2>5. \A q \in Pages, j \in Cells : pages'[q][j] = pages[q][j] \/ (pages'[q][j] = Blank /\ q # Page)
    <3>1. CASE ErasePage
      BY <2>2, <2>4, <3>1, PageErased, PageIs
    <3>2. CASE ~ErasePage
      <4>1. pages' = pages
        BY <2>1, <2>4, <3>2, Zenon DEF ErasePtrs, ProgramPtr, FillBuffer, Ignored, Finish, chip, flash
      <4> QED
        BY <4>1
    <3> QED
      BY <3>1, <3>2
  <2>6. view'[k] = view[k] /\ view[k] # Blank /\ Page \in Pages
    <3>1. view[k] \in 1 .. added
      BY <2>2 DEF ViewTypes
    <3> QED
      BY <2>2, <3>1, PageIs, Limits
  <2>7. OnlyAt(view[k], Page, i)'
    <3>1. CASE pages[Page][i] = view[k]
      BY <2>4, <2>5, <2>6, <3>1 DEF OnlyAt
    <3>2. CASE \A q \in Pages, j \in Cells : pages[q][j] # view[k]
      <4>1. \A q \in Pages, j \in Cells : pages'[q][j] # view'[k]
        BY <2>5, <2>6, <3>2
      <4> QED
        BY <4>1 DEF OnlyAt
    <3> QED
      BY <2>3, <3>1, <3>2 DEF OnlyAt
  <2> QED
    BY <2>7
<1> QED
  BY <1>2, <1>3

-----------------------------------------------------------------------------
(* The page pointers. *)

LEMMA PointedStart ==
  ASSUME Types, Steps, Busy, Pointed, StartAdd
  PROVE  Pointed'
<1>1. /\ pc = "ready" /\ UNCHANGED <<ptrs, sound, since, stampedInOrder>>
      /\ pc' \in {"fill", "erasePtrs", "programPtr"} /\ op = "none"
  <2>1. pc = "ready" /\ UNCHANGED <<chip, history>> /\ pc' \in {"fill", "erasePtrs", "programPtr"}
    BY Zenon DEF StartAdd, WritePtrAt
  <2> QED
    BY <2>1 DEF chip, flash, history, Steps
<1>2. Open' => Top' = Top /\ Page' = Page
  BY OpenMoves
<1>3. op' \in {"add", "turn"} /\ (op' = "add" => pc' = "fill") /\ (op' = "turn" => pc' # "fill")
  BY Zenon DEF StartAdd, WritePtrAt
<1>4. Top' = Top /\ Page' = Page /\ (TurnedSince' => TurnedSince) /\ Page = archive_page_num
  <2>1. Open'
    BY <1>1, <1>3 DEF Open
  <2> QED
    BY <1>1, <1>2, <2>1 DEF TurnedSince, Page
<1>5. SUFFICES ASSUME stampedInOrder', TurnedSince'
               PROVE  /\ op' = "add" => PtrAt(offset_in_page_ptr_page - 1, archive_page_num)'
                      /\ op' = "turn" => \E c \in PtrCells : PtrAt(c, Page)'
  BY <1>1, <1>3, Zenon DEF Pointed
<1>6. PtrAt(offset_in_page_ptr_page - 1, archive_page_num)
  BY <1>1, <1>4, <1>5, Zenon DEF Pointed
<1>7. CASE op' = "add"
  <2>1. UNCHANGED <<archive_page_num, offset_in_page_ptr_page>>
    BY <1>7, Zenon DEF StartAdd
  <2> QED
    BY <1>1, <1>6, <1>7, <2>1 DEF PtrAt
<1>8. CASE op' = "turn"
  <2>1. offset_in_page_ptr_page - 1 \in PtrCells
    BY <1>6 DEF PtrAt
  <2> QED
    BY <1>1, <1>4, <1>6, <1>8, <2>1 DEF PtrAt
<1> QED
  BY <1>3, <1>7, <1>8

LEMMA PointedProgrammed ==
  ASSUME Types, Steps, ProgramPtr
  PROVE  Pointed'
<1> SUFFICES ASSUME stampedInOrder' PROVE PtrAt(offset_in_page_ptr_page - 1, archive_page_num)'
  <2>1. op \in {"turn", "clear"} /\ op' = op /\ pc' = (IF op = "clear" THEN "erasePages" ELSE "fill")
    BY DEF ProgramPtr, Steps
  <2> QED
    BY <2>1, Zenon DEF Pointed
<1>1. /\ offset_in_page_ptr_page \in PtrCells /\ now \in Nat /\ now > 0 /\ archive_page_num \in Pages
  BY Limits DEF Types, Steps, ProgramPtr
<1>2. PICK c \in PtrCells : c = offset_in_page_ptr_page
  BY <1>1
<1>8. /\ erasing = Null /\ ptrs[c] = BlankPtr
      /\ offset_in_page_ptr_page' = c + 1 /\ archive_page_num' = archive_page_num
      /\ \A i \in PtrCells : ptrs[i].stamp < now
      /\ \A i \in 0 .. c - 1 : ValidPtr(ptrs[i])
  BY <1>2, Zenon DEF ProgramPtr
<1>9. ptrs' = [ptrs EXCEPT ![c] = [stamp |-> now, page |-> archive_page_num]]
  <2>1. ~Ignored
    BY <1>8 DEF Ignored, Finish
  <2>2. PICK new : new = [stamp |-> now, page |-> archive_page_num]
    OBVIOUS
  <2>3. ptrs' = [ptrs EXCEPT ![c] = IF ptrs[c] \in {BlankPtr, new} THEN new ELSE TornPtr]
    BY <1>2, <2>1, <2>2, Zenon DEF ProgramPtr
  <2> QED
    BY <1>8, <2>2, <2>3
<1>3. /\ ptrs' = [ptrs EXCEPT ![c] = [stamp |-> now, page |-> archive_page_num]]
      /\ offset_in_page_ptr_page' = c + 1 /\ archive_page_num' = archive_page_num
      /\ \A i \in PtrCells : ptrs[i].stamp < now
      /\ \A i \in 0 .. c - 1 : ValidPtr(ptrs[i])
  BY <1>8, <1>9
<1>4. /\ ptrs'[c].stamp = now /\ ptrs'[c].page = archive_page_num
      /\ \A i \in PtrCells \ {c} : ptrs'[i] = ptrs[i]
  BY <1>3 DEF Types
<1>5. \A i \in 0 .. c : ValidPtr(ptrs'[i])
  <2> SUFFICES ASSUME NEW i \in 0 .. c PROVE ValidPtr(ptrs'[i])
    OBVIOUS
  <2>1. CASE i = c
    BY <1>1, <1>4, <2>1 DEF ValidPtr
  <2>2. CASE i # c
    <3>1. i \in 0 .. c - 1 /\ i \in PtrCells \ {c}
      BY <2>2, Limits
    <3> QED
      BY <1>3, <1>4, <3>1
  <2> QED
    BY <2>1, <2>2
<1>6. \A i \in PtrCells \ {c} : ptrs'[i].stamp < ptrs'[c].stamp
  BY <1>3, <1>4
<1>7. offset_in_page_ptr_page' - 1 = c
  BY <1>3, Limits
<1> QED
  BY <1>3, <1>4, <1>5, <1>6, <1>7 DEF PtrAt

LEMMA PointedAdded ==
  ASSUME Types, Steps, Memory, Pointed, ProgramRecord
  PROVE  Pointed'
<1>1. /\ pc = "program" /\ pc' = "ready" /\ op' = "none" /\ last_rec_ptr' = slot
      /\ UNCHANGED <<ptrs, archive_page_num, offset_in_page_ptr_page, stampedInOrder>>
      /\ since' = IF sound THEN 0 ELSE since + 1
      /\ sound' = (sound \/ since' >= Healing)
  BY Zenon DEF ProgramRecord
<1>2. Top' = slot
  BY <1>1 DEF Top
<1>3. SUFFICES ASSUME stampedInOrder, TurnedSince'
               PROVE  PtrAt(offset_in_page_ptr_page - 1, archive_page_num)
  <2>1. stampedInOrder /\ TurnedSince' => PtrAt(offset_in_page_ptr_page - 1, archive_page_num)'
    BY <1>1, <1>3 DEF PtrAt
  <2> QED
    BY <1>1, <2>1, Zenon DEF Pointed
<1>4. op \in {"add", "turn"} /\ Top = (IF op = "add" THEN slot - 1 ELSE PageRecords - 1) /\ slot \in Cells
  BY Added
<1>5. CASE op = "turn"
  BY <1>1, <1>3, <1>5, Zenon DEF Pointed
<1>6. CASE op = "add"
  <2>1. TurnedSince
    <3>1. CASE sound
      BY <3>1 DEF TurnedSince
    <3>2. CASE ~sound
      <4>1. since' = since + 1 /\ since \in Nat
        BY <1>1, <3>2, Limits DEF Types
      <4>2. since' > slot + 1
        <5>1. CASE sound'
          <6>1. since' >= Healing
            BY <1>1, <3>2, <5>1, Zenon
          <6> QED
            BY <1>4, <4>1, <6>1, Limits
        <5>2. CASE ~sound'
          BY <1>2, <1>3, <5>2 DEF TurnedSince
        <5> QED
          BY <5>1, <5>2
      <4>3. since > Top + 1
        BY <1>4, <1>6, <4>1, <4>2, Limits
      <4> QED
        BY <4>3 DEF TurnedSince
    <3> QED
      BY <3>1, <3>2
  <2> QED
    BY <1>3, <1>6, <2>1, Zenon DEF Pointed
<1> QED
  BY <1>4, <1>5, <1>6

LEMMA PointedOpened ==
  ASSUME Types, Steps, Bootable, Damaged, OpenArchive
  PROVE  Pointed'
<1>1. /\ pc = "off" /\ pc' = "ready" /\ UNCHANGED <<chip, op, history>>
      /\ offset_in_page_ptr_page' = LatestPtr + 1 /\ LatestPtr \in PtrCells
      /\ last_rec_ptr' = PageRun(archive_page_num') - 1 /\ archive_page_num' \in Pages
  BY Opened
<1>2. op = "none" /\ op' = "none"
  BY <1>1 DEF Steps
<1>3. SUFFICES ASSUME TurnedSince' PROVE PtrAt(offset_in_page_ptr_page - 1, archive_page_num)'
  BY <1>1, <1>2, Zenon DEF Pointed
<1>4. sound
  <2> SUFFICES ASSUME ~sound PROVE FALSE
    BY DEF Types
  <2>1. since' = 0 /\ ~sound' /\ Top' = last_rec_ptr'
    BY <1>1, <1>2 DEF Damaged, history, Top
  <2>2. last_rec_ptr' >= -1 /\ last_rec_ptr' \in Int
    BY <1>1, PageRunIs, Limits
  <2> QED
    <3>1. \A t \in Int : t >= -1 => ~(0 > t + 1)
      OBVIOUS
    <3>2. ~(since' > Top' + 1)
      BY <2>1, <2>2, <3>1
    <3> QED
      BY <1>3, <2>1, <3>2, Zenon DEF TurnedSince
<1>5. PtrAt(LatestPtr, archive_page_num')
  BY <1>4, BootFinds, Zenon DEF Kept
<1>6. offset_in_page_ptr_page' - 1 = LatestPtr /\ ptrs' = ptrs
  BY <1>1, Limits DEF chip, flash
<1> QED
  BY <1>5, <1>6 DEF PtrAt

LEMMA PointedKept ==
  ASSUME Types, Steps, Busy, Memory, Pointed, Bootable, Damaged, Next
  PROVE  Pointed'
<1>1. CASE StartClear \/ OpenNoArchive
  <2>1. op' = "clear" /\ pc' \in {"erasePtrs", "programPtr"}
    BY <1>1, Zenon DEF StartClear, OpenNoArchive, ClearRam, WritePtrAt
  <2> QED
    BY <2>1 DEF Pointed
<1>2. CASE ErasePtrs
  <2>1. /\ pc' = "programPtr" /\ op' = op /\ pc = "erasePtrs"
    BY <1>2, Zenon DEF ErasePtrs
  <2>2. op \in {"turn", "clear"}
    BY <2>1 DEF Steps
  <2>3. ASSUME op = "turn" PROVE \A i \in PtrCells : ptrs'[i] = BlankPtr
    <3>1. erasing = Null
      BY <2>3 DEF Busy
    <3>2. ptrs' = [i \in PtrCells |-> BlankPtr]
      BY <1>2, <3>1, Zenon DEF ErasePtrs, Ignored, Finish
    <3> QED
      BY <3>2
  <2> QED
    BY <2>1, <2>2, <2>3, Zenon DEF Pointed
<1>3. CASE FillBuffer \/ ErasePage
  <2>1. /\ UNCHANGED <<ptrs, archive_page_num, offset_in_page_ptr_page, op, slot, last_rec_ptr,
                       sound, since, stampedInOrder>>
        /\ pc \in {"fill", "erase"} /\ pc' \in {"program", "erase"}
    <3>1. CASE FillBuffer
      BY <3>1 DEF FillBuffer, chip, flash, ram, history
    <3>2. CASE ErasePage
      BY <3>2 DEF ErasePage, Ignored, ram
    <3> QED
      BY <1>3, <3>1, <3>2
  <2>2. Top' = Top /\ TurnedSince' = TurnedSince
    BY <2>1 DEF Top, TurnedSince
  <2>3. PtrAt(offset_in_page_ptr_page - 1, archive_page_num)' = PtrAt(offset_in_page_ptr_page - 1, archive_page_num)
    BY <2>1 DEF PtrAt
  <2>4. pc' # "ready" /\ pc' # "erasePages" /\ pc' # "erasePtrs" /\ pc' # "programPtr"
    BY <2>1
  <2>5. op \in {"add", "turn"}
    BY <2>1 DEF Steps
  <2>6. stampedInOrder' => /\ op = "add" /\ TurnedSince => PtrAt(offset_in_page_ptr_page - 1, archive_page_num)
                           /\ op = "turn" => PtrAt(offset_in_page_ptr_page - 1, archive_page_num)
    BY <2>1 DEF Pointed
  <2>7. op' = op
    BY <2>1
  <2> QED
    BY <2>2, <2>3, <2>4, <2>5, <2>6, <2>7, Zenon DEF Pointed
<1>4. CASE ErasePages
  <2>1. /\ pc = "erasePages" /\ pc' = "ready" /\ op' = "none"
        /\ UNCHANGED <<ptrs, ram, stampedInOrder>>
    BY <1>4, Zenon DEF ErasePages
  <2>2. stampedInOrder' => PtrAt(offset_in_page_ptr_page - 1, archive_page_num)
    BY <2>1 DEF Pointed
  <2>3. stampedInOrder' => PtrAt(offset_in_page_ptr_page - 1, archive_page_num)'
    BY <2>1, <2>2 DEF PtrAt, ram
  <2> QED
    BY <2>1, <2>3 DEF Pointed
<1>5. CASE SetTime \/ ChipReady
  <2>1. UNCHANGED <<ptrs, archive_page_num, offset_in_page_ptr_page, pc, op, slot, last_rec_ptr,
                    sound, since, stampedInOrder>>
    BY <1>5, Zenon DEF SetTime, ChipReady, chip, flash, ram, history
  <2>2. /\ Top' = Top /\ Page' = Page /\ TurnedSince' = TurnedSince
    BY <2>1 DEF Top, Page, TurnedSince
  <2>3. PtrAt(offset_in_page_ptr_page - 1, archive_page_num)' = PtrAt(offset_in_page_ptr_page - 1, archive_page_num)
    BY <2>1 DEF PtrAt
  <2>4. \A c \in PtrCells : PtrAt(c, Page) => PtrAt(c, Page)'
    BY <2>1, <2>2 DEF PtrAt
  <2> QED
    BY <2>1, <2>2, <2>3, <2>4, Zenon DEF Pointed
<1>6. CASE PowerCut
  <2>1. pc' = "off" /\ op' = "none"
    BY <1>6, Zenon DEF PowerCut
  <2> QED
    BY <2>1 DEF Pointed
<1> QED
  BY <1>1, <1>2, <1>3, <1>4, <1>5, <1>6, PointedStart, PointedProgrammed, PointedAdded,
     PointedOpened, Zenon DEF Next

-----------------------------------------------------------------------------
(* Power cuts. *)

\* What is in the flash when the power is cut is there to be found, all that is on show.
LEMMA Keeps ==
  ASSUME Types, Memory, Form, InMemory, InFlash, Open, ~scarred, sound,
         NEW c \in PtrCells, PtrAt(c, Page), Filled => op = "add",
         op = "turn" \/ NoGhosts, erasing # Page, First(Page) = 0
  PROVE  Top \in Cells \cup {Null} => Kept(c, Page, Top)
<1> SUFFICES ASSUME Top \in Cells \cup {Null} PROVE Kept(c, Page, Top)
  OBVIOUS
<1>1. /\ PageHolds(Page, Top) /\ Rest(Page, Top)
      /\ \A i \in Cells : First(Page) <= i /\ i <= Top /\ ~(Filled /\ i = slot) => pages[Page][i] = arch_buf[i]
      /\ op = "turn" => added - cleared >= PageRecords
  BY Zenon DEF InMemory, InFlash
<1>2. Base = cleared /\ added \in Nat /\ cleared \in Nat /\ cleared <= added
  BY Limits DEF Base, Types
<1>3. Top = Null => added = cleared
  BY Zenon DEF Memory
<1>4. ASSUME NEW i \in Cells, i <= Top
      PROVE  pages[Page][i] = Number(added, Top, i) /\ Number(added, Top, i) > cleared
  <2>1. ~(Filled /\ i = slot)
    <3> SUFFICES ASSUME Filled, i = slot PROVE FALSE
      OBVIOUS
    <3>1. Top = slot - 1
      BY DEF Top
    <3> QED
      BY <1>4, <3>1, Limits
  <2>2. pages[Page][i] = arch_buf[i] /\ pages[Page][i] > 0
    <3>1. First(Page) <= i
      BY Limits
    <3> QED
      BY <1>1, <1>4, <2>1, <3>1 DEF PageHolds
  <2>3. ~(Number(added, Top, i) <= Base)
    BY <2>1, <2>2, Zenon DEF Memory, Valid
  <2>4. Number(added, Top, i) \in Int
    <3>1. PICK t \in Cells \cup {Null} : t = Top
      OBVIOUS
    <3>2. Number(added, t, i) \in Int
      BY <1>2, NumberIs
    <3> QED
      BY <3>1, <3>2
  <2>5. Number(added, Top, i) > Base
    BY <1>2, <2>3, <2>4
  <2>6. arch_buf[i] = Number(added, Top, i)
    BY <2>1, <2>5, Zenon DEF Memory
  <2> QED
    BY <1>2, <2>2, <2>5, <2>6
<1>5. ASSUME NEW i \in Cells, i > Top, Number(added, Top, i) <= cleared
      PROVE  pages[PrevPage(Page)][i] = Blank
  <2>1. PICK t \in Cells \cup {Null} : t = Top
    OBVIOUS
  <2>2. Number(added, t, i) > added - PageRecords /\ Number(added, t, i) \in Int
    BY <1>2, NumberIs
  <2>3. added - cleared < PageRecords
    <3> HIDE DEF Number
    <3> QED
      BY <1>2, <1>5, <2>1, <2>2, Limits
  <2>4. op # "turn" /\ NoGhosts /\ Page = archive_page_num
    BY <1>1, <1>2, <2>3, Limits DEF Page
  <2>5. PageRun(Page) = t + 1
    BY <1>1, <2>1, PageRunOf
  <2>6. i \in PageRun(archive_page_num) .. PageRecords - 1
    BY <1>5, <2>1, <2>4, <2>5, Limits
  <2>7. ~(pages[PrevPage(Page)][i] \in 1 .. cleared)
    BY <2>4, <2>6, Zenon DEF NoGhosts
  <2>8. PrevPage(Page) \in Pages /\ PrevPage(Page) # Page
    BY PageIs
  <2>9. pages[PrevPage(Page)][i] <= cleared
    BY <1>1, <2>3, <2>8 DEF Rest
  <2>10. pages[PrevPage(Page)][i] \in -1 .. added /\ pages[PrevPage(Page)][i] # Torn
    BY <2>8, CellTypes DEF Form
  <2> QED
    BY <1>2, <2>7, <2>9, <2>10, Limits
<1> QED
  BY <1>1, <1>3, <1>4, <1>5, Zenon DEF Kept

LEMMA BootableKept ==
  ASSUME Types, Steps, Busy, Memory, Form, InMemory, InFlash, Pointed, Next
  PROVE  Bootable' /\ Damaged'
<1>1. CASE ~PowerCut
  <2>1. pc' # "off"
    <3>1. \/ pc' \in {"ready", "fill", "erase", "program", "erasePtrs", "programPtr", "erasePages"}
          \/ pc' = pc /\ (pc = "ready" \/ erasing # Null)
      BY <1>1, Zenon DEF Next, StartAdd, StartClear, ErasePtrs, ProgramPtr, FillBuffer, ErasePage,
         ProgramRecord, ErasePages, OpenArchive, OpenNoArchive, SetTime, ChipReady, Finish, ClearRam, WritePtrAt
    <3> QED
      BY <3>1 DEF Busy
  <2> QED
    BY <2>1 DEF Bootable, Damaged
<1>2. CASE PowerCut /\ ~(sound /\ Survivable /\ ~scarred')
  <2>1. sound' = FALSE /\ since' = 0
    BY <1>2, Zenon DEF PowerCut
  <2> QED
    BY <2>1 DEF Bootable, Damaged
<1>3. CASE PowerCut /\ sound /\ Survivable /\ ~scarred'
  <2>1. /\ UNCHANGED <<sound, since, ptrs, pages, added, cleared, stampedInOrder, missed>>
        /\ ~scarred /\ pc # "off"
    <3>1. UNCHANGED <<sound, since, added, cleared, stampedInOrder, missed>> /\ pc # "off"
      BY <1>3, Zenon DEF PowerCut
    <3> QED
      BY <1>3, <3>1, Scars
  <2>2. stampedInOrder /\ TurnedSince
    BY <1>3, Zenon DEF Survivable, TurnedSince
  <2>8. erasing # Page /\ First(Page) = 0
    BY <1>3, Zenon DEF Survivable, First
  <2>3. archive_page_num \in Pages /\ slot \in Cells /\ last_rec_ptr \in Cells \cup {Null} /\ Page \in Pages
    BY PageIs DEF Types
  <2>4. \E c \in PtrCells : PtrAt(c, Page) /\ Top \in Cells \cup {Null} /\ Kept(c, Page, Top)
    <3>1. CASE (pc = "ready" \/ op = "add") /\ NoGhosts
      <4>1. PtrAt(offset_in_page_ptr_page - 1, archive_page_num)
        BY <2>2, <3>1, Zenon DEF Pointed
      <4>2. op # "turn" /\ op # "clear" /\ (Filled => op = "add") /\ Open
        BY <2>1, <3>1 DEF Steps, Filled, Open
      <4>3. Page = archive_page_num
        BY <4>2 DEF Page
      <4>4. Top \in Cells \cup {Null}
        BY <2>3, Limits DEF Top
      <4>5. offset_in_page_ptr_page - 1 \in PtrCells
        BY <4>1, Zenon DEF PtrAt
      <4> QED
        BY <1>3, <2>1, <2>8, <3>1, <4>1, <4>2, <4>3, <4>4, <4>5, Keeps
    <3>2. CASE /\ op = "turn"
               /\ pc = "erasePtrs" \/ (pc = "programPtr" /\ \E i \in PtrCells : ptrs[i] # BlankPtr)
      <4>1. PICK c \in PtrCells : PtrAt(c, Page)
        BY <2>2, <3>2, Zenon DEF Pointed
      <4>2. Open /\ ~Filled
        BY <3>2 DEF Open, Filled
      <4>3. Top \in Cells \cup {Null}
        BY <2>3, <3>2 DEF Top
      <4> QED
        BY <1>3, <2>1, <2>8, <3>2, <4>1, <4>2, <4>3, Keeps
    <3> QED
      BY <1>3, <3>1, <3>2, Zenon DEF Survivable
  <2>5. PICK c \in PtrCells, p \in Pages, last \in Cells \cup {Null} : Kept(c, p, last)
    BY <2>3, <2>4
  <2>6. Kept(c, p, last)'
    <3>1. Base' = Base
      BY <2>1 DEF Base
    <3> QED
      BY <2>1, <2>5, <3>1 DEF Kept, PtrAt, PageHolds, Rest, First
  <2>7. ~scarred' /\ stampedInOrder' /\ sound'
    BY <1>3, <2>1, <2>2
  <2> QED
    BY <2>6, <2>7, Zenon DEF Bootable, Damaged
<1> QED
  BY <1>1, <1>2, <1>3

-----------------------------------------------------------------------------
(* The invariant. *)

LEMMA IInvInit == Init => IInv
<1> SUFFICES ASSUME Init PROVE IInv
  OBVIOUS
<1>1. /\ 0 \in Cells /\ 0 \in Pages /\ 0 \in 0 .. PtrSlots /\ 0 \in 0 .. MaxRecords
      /\ BlankPtr \in [stamp : {Torn, Blank} \cup Times, page : Pages]
      /\ BlankPage \in [Cells -> Torn .. 0] /\ BlankPage \in [Cells -> Torn .. 0 + 1]
  BY Limits DEF BlankPtr, BlankPage
<1>2. Types
  <2>1. erasing = Null /\ missed = FALSE /\ last_rec_ptr = Null
    BY DEF Init
  <2>2. erasing \in Pages \cup {Null} /\ missed \in BOOLEAN /\ last_rec_ptr \in Cells \cup {Null}
    BY <2>1
  <2> QED
    BY <1>1, <2>2 DEF Init, Types
<1>3. Steps /\ Busy /\ Memory /\ ViewReady /\ ViewTurn /\ InMemory /\ Gone /\ InFlash /\ Damaged
  BY DEF Init, Steps, Busy, Memory, Open, ViewReady, ViewTurn, InMemory, Gone, InFlash, Damaged
<1>4. \A p \in Pages, i \in Cells : pages[p][i] = Blank
  BY DEF Init, BlankPage
<1>5. Unique /\ Form
  BY <1>4, Limits DEF Unique, Form
<1>6. ViewTypes
  <2>1. view = <<>> /\ added = 0
    BY DEF Init
  <2>2. Len(<<>>) = 0 /\ <<>> \in [1 .. 0 -> 1 .. 0] /\ 0 \in 0 .. PageRecords
    BY Limits
  <2> QED
    BY <2>1, <2>2 DEF ViewTypes
<1>7. ViewSound
  <2>1. view = <<>> /\ added = 0 /\ cleared = 0
    BY DEF Init
  <2>2. (IF added - cleared < PageRecords THEN added - cleared ELSE PageRecords) = 0
    BY <2>1, Limits
  <2>3. [k \in 1 .. 0 |-> added - k + 1] = <<>>
    OBVIOUS
  <2> QED
    BY <2>1, <2>2, <2>3 DEF ViewSound
<1>8. Pointed
  BY DEF Init, Pointed
<1>9. Bootable
  BY DEF Init, Bootable
<1> QED
  BY <1>2, <1>3, <1>5, <1>6, <1>7, <1>8, <1>9 DEF IInv

LEMMA IInvStep == IInv /\ [Next]_vars => IInv'
<1> SUFFICES ASSUME IInv, [Next]_vars PROVE IInv'
  OBVIOUS
<1>1. /\ Types /\ Steps /\ Busy /\ Unique /\ Form /\ Memory
      /\ ViewTypes /\ ViewReady /\ ViewSound /\ ViewTurn
      /\ InMemory /\ Gone /\ InFlash /\ Pointed /\ Bootable /\ Damaged
  BY Zenon DEF IInv
<1>2. CASE Next
  <2>1. Types' /\ Steps' /\ Busy' /\ Unique' /\ Form' /\ Memory'
    BY <1>1, <1>2, TypesKept, StepsKept, BusyKept, UniqueKept, FormKept, MemoryKept
  <2>2. ViewTypes' /\ ViewReady' /\ ViewSound' /\ ViewTurn'
    BY <1>1, <1>2, ViewTypesKept, ViewReadyKept, ViewSoundKept, ViewTurnKept
  <2>3. InMemory' /\ Gone' /\ InFlash' /\ Pointed' /\ Bootable' /\ Damaged'
    BY <1>1, <1>2, InMemoryKept, GoneKept, InFlashKept, PointedKept, BootableKept
  <2> QED
    BY <2>1, <2>2, <2>3, Zenon DEF IInv
<1>3. CASE UNCHANGED vars
  <2>1. UNCHANGED <<ptrs, pages, erasing, missed, arch_buf, last_rec_ptr, archive_page_num, offset_in_page_ptr_page,
                    pc, op, slot, now, added, cleared, view, stampedInOrder, sound, since, scarred, cuts>>
    BY <1>3 DEF vars, chip, flash, ram, history
  <2>2. Top' = Top /\ Page' = Page /\ Base' = Base /\ Open' = Open /\ Filled' = Filled
    BY <2>1 DEF Top, Page, Base, Open, Filled
  <2>3. Types' /\ Steps' /\ Busy' /\ Unique' /\ Form' /\ Memory'
    BY <1>1, <2>1, <2>2 DEF Types, Steps, Busy, Unique, Form, First, Memory
  <2>4. ViewTypes' /\ ViewReady' /\ ViewSound' /\ ViewTurn'
    BY <1>1, <2>1, <2>2 DEF ViewTypes, ViewReady, ViewSound, ViewTurn, OnlyAt
  <2>5. InMemory' /\ Gone' /\ InFlash'
    BY <1>1, <2>1, <2>2 DEF InMemory, Gone, InFlash, PageHolds, Rest, First, OnlyAt
  <2>6. Pointed' /\ Damaged'
    BY <1>1, <2>1, <2>2 DEF Pointed, PtrAt, TurnedSince, Damaged
  <2>7. Bootable'
    BY <1>1, <2>1, <2>2 DEF Bootable, Kept, PtrAt, PageHolds, Rest, First
  <2> QED
    BY <2>3, <2>4, <2>5, <2>6, <2>7, Zenon DEF IInv
<1> QED
  BY <1>2, <1>3

\* What holds of every state of the archive: the records are where a look at the display,
\* the next operation and the next boot expect them.
THEOREM Inv == Spec => []IInv
BY IInvInit, IInvStep, PTL DEF Spec

\* The sector that is erased to take a record holds none on show: search_last_record and
\* open_archive find every one of them if the power is cut before the record is whole.
\* Page 0 is excepted while it lacks a record that the busy chip ignored after a clear.
THEOREM ErasureSparesShown == Spec => []EraseSparesShown
<1>1. IInv => EraseSparesShown
  <2> SUFFICES ASSUME IInv, pc = "erase", ~scarred, ~(missed /\ archive_page_num = 0),
                      NEW i \in Cells, NEW k \in 1 .. Len(view)
               PROVE  pages[archive_page_num][i] # view[k]
    BY Zenon DEF EraseSparesShown
  <2>1. Types /\ Steps /\ Busy /\ Unique /\ ViewTypes /\ ViewSound /\ ViewTurn /\ InMemory
    BY Zenon DEF IInv
  <2>2. op \in {"add", "turn"} /\ Open
    BY <2>1 DEF Steps, Open
  <2>3. view[k] > 0
    BY <2>1 DEF ViewTypes
  <2>4. Page \in Pages /\ archive_page_num \in Pages
    BY <2>1, PageIs DEF Types
  <2>5. CASE op = "turn"
    <3>1. Page # archive_page_num
      BY <2>1, <2>5, PageIs
    <3>2. PICK j \in Cells : OnlyAt(view[k], Page, j)
      BY <2>1, <2>5 DEF ViewTurn
    <3>3. CASE pages[Page][j] = view[k]
      BY <2>1, <2>3, <2>4, <3>1, <3>3 DEF Unique
    <3>4. CASE \A q \in Pages, n \in Cells : pages[q][n] # view[k]
      BY <2>4, <3>4
    <3> QED
      BY <3>2, <3>3, <3>4 DEF OnlyAt
  <2>6. CASE op = "add" /\ erasing = Null
    <3>1. Page = archive_page_num /\ First(Page) = 0 /\ erasing # Page
      BY <2>1, <2>4, <2>6, PageIs, Limits DEF First
    <3>2. PageHolds(Page, Top) /\ slot <= 0
      BY <2>1, <2>2, <2>6, <3>1 DEF InMemory
    <3>3. i > Top
      BY <2>1, <2>6, <3>2, Limits DEF Top, Types
    <3>4. pages[Page][i] = Blank
      BY <3>1, <3>2, <3>3 DEF PageHolds
    <3> QED
      BY <2>3, <3>1, <3>4, Limits
  <2>7. CASE erasing # Null
    <3>1. sound /\ added = cleared /\ added \in Nat
      <4>1. sound /\ added = cleared
        BY <2>1, <2>2, <2>7, BusyPage
      <4>2. added \in Nat
        BY <2>1, Limits DEF Types
      <4> QED
        BY <4>1, <4>2
    <3>2. added - cleared < PageRecords /\ added - cleared = 0
      BY <3>1, Limits
    <3>3. view = [n \in 1 .. 0 |-> added - n + 1]
      BY <2>1, <3>1, <3>2 DEF ViewSound
    <3>4. Len(view) = 0
      BY <3>3
    <3> QED
      BY <3>4
  <2> QED
    BY <2>2, <2>5, <2>6, <2>7
<1> QED
  BY <1>1, Inv, PTL

-----------------------------------------------------------------------------
(* The archive implements the log. *)

LEMMA StartsAsLog == Init => Log!Init
<1> SUFFICES ASSUME Init PROVE Log!Init
  OBVIOUS
<1>1. added = 0 /\ view = <<>> /\ sound = TRUE /\ since = 0
  BY DEF Init
<1>2. 0 < PageRecords /\ 0 \in 0 .. MaxRecords
  BY Limits
<1>3. [k \in 1 .. 0 |-> added - k + 1] = <<>>
  OBVIOUS
<1> QED
  BY <1>1, <1>2, <1>3 DEF Log!Init

\* A record goes to the front of the records on show, and at most one falls off behind.
LEMMA AddsToWhole ==
  ASSUME IInv, ProgramRecord, sound
  PROVE  Log!Add
<1>1. Types /\ Steps /\ Memory /\ Bootable /\ Damaged /\ ViewSound
  BY Zenon DEF IInv
<1>2. /\ added' = added + 1 /\ cleared' = cleared /\ since' = 0 /\ sound' = TRUE
      /\ pc = "program"
  BY Zenon DEF ProgramRecord
<1>3. /\ added \in Nat /\ cleared \in Nat /\ cleared <= added /\ since \in Nat
      /\ PageRecords \in Nat /\ PageRecords >= 1
  BY <1>1, Limits DEF Types
<1>4. added < MaxRecords
  BY <1>1, <1>2 DEF Steps
<1>5. ViewSound'
  <2>1. Next
    BY Zenon DEF Next
  <2> QED
    BY <1>1, <2>1, ViewSoundKept
<1> DEFINE n == IF added - cleared < PageRecords THEN added - cleared ELSE PageRecords
           m == IF n + 1 < PageRecords THEN n + 1 ELSE PageRecords
<1>6. n \in 0 .. PageRecords /\ m \in 1 .. PageRecords
  BY <1>3
<1>7. (IF added' - cleared' < PageRecords THEN added' - cleared' ELSE PageRecords) = m
  BY <1>2, <1>3
<1>8. view = [k \in 1 .. n |-> added - k + 1]
  BY <1>1, Zenon DEF ViewSound
<1>9. view' = [k \in 1 .. m |-> added' - k + 1]
  <2>1. view' = [k \in 1 .. (IF added' - cleared' < PageRecords THEN added' - cleared' ELSE PageRecords)
                   |-> added' - k + 1]
    BY <1>2, <1>5, Zenon DEF ViewSound
  <2> HIDE DEF m
  <2>2. view' = [k \in 1 .. m |-> added' - k + 1]
    BY <1>7, <2>1
  <2> QED
    BY <2>2, Zenon
<1> HIDE DEF n
<1>10. PICK whole : whole = <<added + 1>> \o view
  OBVIOUS
<1>11. whole \in Seq(Int) /\ Len(whole) = n + 1 /\ \A k \in 1 .. n + 1 : whole[k] = added + 1 - k + 1
  <2>1. view \in Seq(Int) /\ Len(view) = n /\ \A k \in 1 .. n : view[k] = added - k + 1
    BY <1>3, <1>6, <1>8
  <2>2. <<added + 1>> \in Seq(Int) /\ Len(<<added + 1>>) = 1 /\ <<added + 1>>[1] = added + 1
    BY <1>3
  <2>3. whole \in Seq(Int) /\ Len(whole) = n + 1
    BY <1>10, <2>1, <2>2
  <2>4. whole[1] = added + 1 /\ \A k \in 2 .. n + 1 : whole[k] = view[k - 1]
    BY <1>10, <2>1, <2>2
  <2>5. ASSUME NEW k \in 1 .. n + 1 PROVE whole[k] = added + 1 - k + 1
    <3>1. CASE k = 1
      BY <1>3, <2>4, <3>1
    <3>2. CASE k # 1
      <4>1. k \in 2 .. n + 1 /\ k - 1 \in 1 .. n
        BY <1>6, <3>2
      <4>2. view[k - 1] = added - (k - 1) + 1
        BY <2>1, <4>1
      <4> QED
        BY <1>3, <2>4, <4>1, <4>2
    <3> QED
      BY <3>1, <3>2
  <2> QED
    BY <2>3, <2>5
<1>m. m \in 1 .. PageRecords /\ m <= n + 1 /\ m = IF n + 1 < PageRecords THEN n + 1 ELSE PageRecords
  BY <1>3, <1>6
<1> HIDE DEF m
<1>12. SubSeq(whole, 1, m) = [k \in 1 .. m |-> whole[k]]
  BY <1>6, <1>m, <1>11
<1>13. \A k \in 1 .. m : whole[k] = added' - k + 1
  <2>1. \A k \in 1 .. m : whole[k] = added + 1 - k + 1
    BY <1>6, <1>m, <1>11
  <2> QED
    BY <1>2, <1>3, <1>m, <2>1
<1>14. view' = SubSeq(whole, 1, m)
  BY <1>9, <1>12, <1>13
<1>15. m = IF Len(whole) < PageRecords THEN Len(whole) ELSE PageRecords
  BY <1>m, <1>11
<1>16. view' = Log!Newest(<<added + 1>> \o view, PageRecords)
  BY <1>10, <1>14, <1>15, Zenon DEF Log!Newest
<1>17. sound' = (sound \/ since + 1 >= Healing) /\ since' = (IF sound THEN 0 ELSE since + 1)
  BY <1>2, Zenon
<1> QED
  BY <1>2, <1>4, <1>16, <1>17, Zenon DEF Log!Add

LEMMA ViewIsSeq ==
  ASSUME Types', ViewTypes'
  PROVE  view' \in Seq(1 .. added' \cup {}) /\ Len(view') <= PageRecords
<1>1. view' \in [1 .. Len(view') -> 1 .. added'] /\ Len(view') \in 0 .. PageRecords
  BY DEF ViewTypes
<1>2. \A n \in 0 .. PageRecords : n \in Nat /\ n <= PageRecords
  BY Limits
<1>3. \A S : \A n \in Nat : \A f \in [1 .. n -> S] : f \in Seq(S)
  OBVIOUS
<1>4. view' \in Seq(1 .. added') /\ Len(view') <= PageRecords
  BY <1>1, <1>2, <1>3, Zenon
<1>5. \A S : S \cup {} = S
  OBVIOUS
<1> QED
  BY <1>4, <1>5, Zenon

\* The records added since the damage are on show, before whatever comes behind them.
LEMMA AddsToDamaged ==
  ASSUME IInv, ProgramRecord, ~sound
  PROVE  Log!AddToDamaged
<1>1. Types /\ Steps /\ Memory /\ ViewTypes
  BY Zenon DEF IInv
<1>2. /\ added' = added + 1 /\ since' = since + 1 /\ sound' = (since' >= Healing)
      /\ view' = Shown(arch_buf, slot) /\ pc = "program"
  <2>1. /\ added' = added + 1 /\ since' = (IF sound THEN 0 ELSE since + 1)
        /\ sound' = (sound \/ since' >= Healing) /\ last_rec_ptr' = slot
        /\ view' = Shown(arch_buf, last_rec_ptr') /\ pc = "program"
    BY Zenon DEF ProgramRecord
  <2>2. sound' = (since' >= Healing)
    <3>1. sound = FALSE
      BY <1>1 DEF Types
    <3>2. sound' = (FALSE \/ since' >= Healing)
      BY <2>1, <3>1, Zenon
    <3> QED
      BY <3>2
  <2> QED
    BY <2>1, <2>2
<1>3. /\ added \in Nat /\ since \in Nat /\ since <= added /\ slot \in Cells
      /\ PageRecords \in Nat /\ PageRecords >= 1 /\ Base = added - since
  BY <1>1, Limits DEF Types, Base
<1>4. added < MaxRecords
  BY <1>1, <1>2 DEF Steps
<1>5. Types' /\ ViewTypes'
  <2>1. Next
    BY Zenon DEF Next
  <2> QED
    BY <1>1, <2>1, TypesKept, ViewTypesKept
<1>6. view' \in Seq(1 .. added' \cup {}) /\ Len(view') <= PageRecords
  BY <1>5, ViewIsSeq
<1> DEFINE n == IF since' < PageRecords THEN since' ELSE PageRecords
<1>7. n \in 1 .. PageRecords /\ n <= since + 1 /\ PageRecords \in Nat
  BY <1>2, <1>3
<1> HIDE DEF n
<1>8. PICK m \in 0 .. PageRecords :
        /\ view' = [k \in 1 .. m |-> arch_buf[Place(slot, k - 1)]] /\ Len(view') = m
        /\ m < PageRecords => ~Valid(arch_buf[Place(slot, m)])
  BY <1>2, <1>3, ShownIs
<1>9. ASSUME NEW k \in 0 .. n - 1
      PROVE  arch_buf[Place(slot, k)] = added + 1 - k /\ Valid(arch_buf[Place(slot, k)])
  <2>1. k \in Cells
    BY <1>7, Limits
  <2>2. PICK i \in Cells : i = Place(slot, k)
    BY <1>3, <2>1, PlaceIsCell
  <2>3. Number(added + 1, slot, i) = added + 1 - k
    <3>1. \A a \in Nat : Number(a, slot, i) = a - k
      BY <1>3, <2>1, <2>2, NumberAtPlace
    <3> QED
      BY <1>3, <3>1
  <2>4. added + 1 - k > added - since
    BY <1>2, <1>3, <1>7
  <2>5. arch_buf[i] = added + 1 - k
    BY <1>1, <1>3, <2>3, <2>4, Added
  <2> QED
    BY <1>3, <2>2, <2>4, <2>5 DEF Valid
<1>10. m >= n
  <2> SUFFICES ASSUME ~ m >= n PROVE FALSE
    OBVIOUS
  <2>1. m < PageRecords /\ m \in 0 .. n - 1
    BY <1>7
  <2> QED
    BY <1>8, <1>9, <2>1
<1>11. ASSUME NEW k \in 1 .. n PROVE view'[k] = added' - k + 1
  <2>1. k \in 1 .. m /\ k - 1 \in 0 .. n - 1
    BY <1>7, <1>10
  <2>2. view'[k] = arch_buf[Place(slot, k - 1)]
    BY <1>8, <2>1
  <2>3. arch_buf[Place(slot, k - 1)] = added + 1 - (k - 1)
    BY <1>9, <2>1
  <2> QED
    BY <1>2, <1>3, <2>2, <2>3
<1>12. Len(view') >= n
  BY <1>8, <1>10
<1> QED
  BY <1>2, <1>4, <1>6, <1>11, <1>12, Zenon DEF Log!AddToDamaged, n

LEMMA StepsOfLog ==
  ASSUME IInv, Next
  PROVE  Log!Next \/ UNCHANGED <<view, added, sound, since>>
<1>1. /\ Types /\ Steps /\ Memory /\ Bootable /\ Damaged /\ ViewSound /\ ViewTypes
  BY Zenon DEF IInv
<1>2. CASE ProgramRecord
  BY <1>1, <1>2, AddsToWhole, AddsToDamaged, Zenon DEF Log!Next, Types
<1>3. CASE ErasePages
  BY <1>3, Zenon DEF ErasePages, Log!Clear, Log!Next
<1>4. CASE OpenArchive
  <2>1. pc = "off" /\ added' = added /\ cleared' = cleared /\ sound' = sound /\ since' = since
    BY <1>4, Opened, <1>1 DEF history
  <2>2. CASE sound
    <3>1. ViewSound'
      BY <1>1, ViewSoundKept
    <3>2. view' = view
      BY <1>1, <2>1, <2>2, <3>1 DEF ViewSound
    <3> QED
      BY <2>1, <3>2
  <2>3. CASE ~sound
    <3>1. since = 0
      BY <1>1, <2>1, <2>3 DEF Damaged
    <3>2. Types' /\ ViewTypes'
      BY <1>1, TypesKept, ViewTypesKept
    <3>3. view' \in Seq(1 .. added' \cup {}) /\ Len(view') <= PageRecords
      BY <3>2, ViewIsSeq
    <3>4. added' \in added .. MaxRecords
      BY <1>1, <2>1, Limits DEF Types
    <3> QED
      BY <2>1, <2>3, <3>1, <3>3, <3>4, Zenon DEF Log!Surface, Log!Next
  <2> QED
    BY <2>2, <2>3
<1>5. CASE PowerCut
  <2>1. UNCHANGED <<view, added>> /\ (UNCHANGED <<sound, since>> \/ (sound' = FALSE /\ since' = 0))
    BY <1>5, Zenon DEF PowerCut
  <2> QED
    BY <2>1, Zenon DEF Log!Damage, Log!Next
<1>6. CASE ~ProgramRecord /\ ~ErasePages /\ ~OpenArchive /\ ~PowerCut
  BY <1>6, ViewSame
<1> QED
  BY <1>2, <1>3, <1>4, <1>5, <1>6

\* The archive is a RecordLog, cuts and boots included: while it is sound it shows the
\* last records, a cut that it survives changes nothing of that, and any other leaves a
\* damaged log that clear_archive or Healing records make whole.
THEOREM ArchiveImplementsLog == Spec => ImplementsLog
<1>1. IInv /\ [Next]_vars => [Log!Next]_<<view, added, sound, since>>
  <2> SUFFICES ASSUME IInv, [Next]_vars
               PROVE  Log!Next \/ UNCHANGED <<view, added, sound, since>>
    OBVIOUS
  <2>1. CASE Next
    BY <2>1, StepsOfLog
  <2>2. CASE UNCHANGED vars
    BY <2>2 DEF vars, history
  <2> QED
    BY <2>1, <2>2
<1> QED
  BY <1>1, StartsAsLog, Inv, PTL DEF Spec, ImplementsLog, Log!Spec, Log!logVars
=============================================================================
