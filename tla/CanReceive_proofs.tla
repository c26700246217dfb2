------------------------- MODULE CanReceive_proofs -------------------------
(***************************************************************************)
(* What the receive interrupt writes, for arrays of every length and every *)
(* width of a frame, and for trends of every size: the two copies of the   *)
(* PLC's variables, and the trends, into which it puts each point while    *)
(* the LCD task may be copying them word by word.                          *)
(*                                                                         *)
(* The copies first.  When they agree and what a lost link leaves follows  *)
(* from one invariant, and that from the places two parties are at: which  *)
(* variables a frame is about, and what it carries, stay undefined.        *)
(***************************************************************************)
EXTENDS PlcData, Trends, SequenceTheorems, TLAPS

\* The copies are arrays over the variables, and who is between its two
\* assignments is so at a variable.
Places ==
  /\ cl = [x \in Vars |-> cl[x]] /\ plc = [x \in Vars |-> plc[x]]
  /\ at \in 0 .. VarCnt /\ half \in BOOLEAN
  /\ half => at \in Vars
  /\ wpc # "idle" => wx \in Vars

\* A party between its two assignments finds its first one undisturbed, or the
\* variable is crossed; two parties at one variable have crossed it.
MidWay ==
  /\ wpc = "second" => wx \in crossed \/ cl[wx] = wv
  /\ half => at \in crossed \/ cl[at] = Zero
  /\ wpc = "second" /\ half /\ wx = at => at \in crossed

\* A first copy that is cleared stays zero until the second one is.
HalfCleared == half => at \in touched \/ cl[at] = Zero

DataInv == Places /\ MidWay /\ CopiesAgree /\ HalfCleared /\ LostIsCleared

LEMMA LengthIsNat == VarCnt \in Nat
  BY DataAssumption DEF DataAssumption, VarCnt

LEMMA InitInv == Init => DataInv
<1> SUFFICES ASSUME Init PROVE DataInv
  OBVIOUS
<1>1. Places
  <2>1. cl = [x \in Vars |-> cl[x]]
    BY DEF Init
  <2>2. plc = [x \in Vars |-> plc[x]]
    BY DEF Init
  <2>3. at = VarCnt /\ wpc = "idle"
    BY DEF Init
  <2>4. half = FALSE
    BY DEF Init
  <2>5. half \in BOOLEAN /\ ~half
    BY <2>4, Zenon
  <2>6. at \in 0 .. VarCnt
    BY <2>3, LengthIsNat
  <2> QED
    BY <2>1, <2>2, <2>3, <2>5, <2>6, Zenon DEF Places
<1>2. CopiesAgree
  BY DEF Init, CopiesAgree
<1>3. HalfCleared
  BY DEF Init, HalfCleared
<1>4. LostIsCleared
  BY DEF Init, LostIsCleared
<1>5. MidWay
  BY DEF Init, MidWay
<1> QED
  BY <1>1, <1>2, <1>3, <1>4, <1>5 DEF DataInv

LEMMA EventInv == DataInv /\ Event => DataInv'
<1> SUFFICES ASSUME DataInv, Event PROVE DataInv'
  OBVIOUS
<1>1. PICK d \in Assignments :
        /\ cl' = [x \in Vars |-> IF x \in DOMAIN d THEN d[x] ELSE cl[x]]
        /\ plc' = [x \in Vars |-> IF x \in DOMAIN d THEN d[x] ELSE plc[x]]
        /\ crossed' = {x \in crossed : x \notin DOMAIN d} \cup {x \in DOMAIN d : Writing(x) \/ Clearing(x)}
        /\ touched' = touched \cup DOMAIN d
  BY Zenon DEF Event
<1>2. UNCHANGED <<wpc, wx, wv, at, half>>
  BY DEF Event, write, reset
<1>3. Places'
  BY <1>1, <1>2 DEF DataInv, Places
<1>4. CopiesAgree'
  BY <1>1, <1>2 DEF DataInv, CopiesAgree, Writing, Clearing
<1>5. HalfCleared'
  BY <1>1, <1>2 DEF DataInv, HalfCleared, Places
<1>6. LostIsCleared'
  BY <1>1, <1>2 DEF DataInv, LostIsCleared
<1>7. MidWay'
  BY <1>1, <1>2 DEF DataInv, Places, MidWay, Writing, Clearing
<1> QED
  BY <1>3, <1>4, <1>5, <1>6, <1>7 DEF DataInv

\* Steps that assign neither copy: at most they start a write or a reset.
LEMMA QuietInv ==
  ASSUME DataInv, UNCHANGED copies, UNCHANGED crossed, UNCHANGED half, UNCHANGED wv \/ wpc = "idle",
         Places', wx' # wx => wpc = "idle",
         wpc' = "second" <=> wpc = "second",
         \/ at' = at /\ touched' = touched
         \/ at = VarCnt /\ at' = 0
  PROVE  DataInv'
<1>1. half => at' = at /\ touched' = touched
  BY LengthIsNat DEF DataInv, Places, Vars
<1>2. CopiesAgree'
  BY <1>1 DEF DataInv, CopiesAgree, Writing, Clearing, copies
<1>3. HalfCleared'
  BY <1>1 DEF DataInv, HalfCleared, copies
<1>4. LostIsCleared'
  BY DEF DataInv, LostIsCleared, copies, Vars
<1>5. MidWay'
  BY <1>1 DEF DataInv, MidWay, copies
<1> QED
  BY <1>2, <1>3, <1>4, <1>5 DEF DataInv

LEMMA WriteInv == DataInv /\ LcdTask => DataInv'
<1> SUFFICES ASSUME DataInv, LcdTask PROVE DataInv'
  OBVIOUS
<1>1. CASE StartWrite
  <2>1. Places'
    BY <1>1 DEF StartWrite, DataInv, Places, copies, reset
  <2> QED
    BY <1>1, <2>1, QuietInv DEF StartWrite, copies, reset
<1>2. CASE WriteCl
  <2>1. wx \in Vars
    BY <1>2 DEF WriteCl, DataInv, Places
  <2>2. Places'
    BY <1>2 DEF WriteCl, DataInv, Places, reset
  <2>3. CopiesAgree'
    BY <1>2, <2>1 DEF WriteCl, DataInv, Places, CopiesAgree, Writing, Clearing, reset
  <2>4. HalfCleared'
    BY <1>2, <2>1 DEF WriteCl, DataInv, Places, HalfCleared, reset
  <2>5. LostIsCleared'
    BY <1>2, <2>1 DEF WriteCl, DataInv, Places, LostIsCleared, reset
  <2>6. MidWay'
    BY <1>2, <2>1 DEF WriteCl, DataInv, Places, MidWay, Writing, Clearing, reset
  <2> QED
    BY <2>2, <2>3, <2>4, <2>5, <2>6 DEF DataInv
<1>3. CASE WriteArray
  <2>1. wx \in Vars
    BY <1>3 DEF WriteArray, DataInv, Places
  <2>2. Places'
    BY <1>3 DEF WriteArray, DataInv, Places, reset
  <2>3. CopiesAgree'
    BY <1>3, <2>1 DEF WriteArray, DataInv, Places, MidWay, CopiesAgree, Writing, Clearing, reset
  <2>4. HalfCleared'
    BY <1>3, <2>1 DEF WriteArray, DataInv, Places, HalfCleared, reset
  <2>5. LostIsCleared'
    BY <1>3, <2>1 DEF WriteArray, DataInv, Places, LostIsCleared, reset
  <2>6. MidWay'
    BY <1>3, <2>1 DEF WriteArray, DataInv, Places, MidWay, Writing, Clearing, reset
  <2> QED
    BY <2>2, <2>3, <2>4, <2>5, <2>6 DEF DataInv
<1>4. CASE PackId \/ PackAddr \/ PackLow \/ PackHigh
  <2>1. Places'
    BY <1>4 DEF PackId, PackAddr, PackLow, PackHigh, DataInv, Places, copies, reset
  <2>2. /\ UNCHANGED copies /\ UNCHANGED crossed /\ UNCHANGED half /\ UNCHANGED wv
        /\ wx' = wx /\ at' = at /\ touched' = touched
        /\ wpc' = "second" <=> wpc = "second"
    BY <1>4 DEF PackId, PackAddr, PackLow, PackHigh, reset
  <2> QED
    BY <2>1, <2>2, QuietInv
<1> QED
  BY <1>1, <1>2, <1>3, <1>4 DEF LcdTask

LEMMA ResetInv == DataInv /\ NetworkTask => DataInv'
<1> SUFFICES ASSUME DataInv, NetworkTask PROVE DataInv'
  OBVIOUS
<1>1. CASE LoseLink
  <2>1. Places'
    BY <1>1, LengthIsNat DEF LoseLink, DataInv, Places, Vars, copies, write
  <2> QED
    BY <1>1, <2>1, QuietInv DEF LoseLink, write
<1>2. CASE ResetCl
  <2>1. at \in Vars
    BY <1>2, LengthIsNat DEF ResetCl, DataInv, Places, Vars
  <2>2. Places'
    BY <1>2, <2>1 DEF ResetCl, DataInv, Places, write
  <2>3. CopiesAgree'
    BY <1>2, <2>1 DEF ResetCl, DataInv, Places, CopiesAgree, Writing, Clearing, write
  <2>4. HalfCleared'
    BY <1>2, <2>1 DEF ResetCl, DataInv, Places, HalfCleared
  <2>5. LostIsCleared'
    BY <1>2, <2>1 DEF ResetCl, DataInv, Places, LostIsCleared, Vars
  <2>6. MidWay'
    BY <1>2, <2>1 DEF ResetCl, DataInv, Places, MidWay, Writing, Clearing, write
  <2> QED
    BY <2>2, <2>3, <2>4, <2>5, <2>6 DEF DataInv
<1>3. CASE ResetArray
  <2>1. at \in Vars
    BY <1>3 DEF ResetArray, DataInv, Places
  <2>2. Places'
    <3>1. cl' = [x \in Vars |-> cl'[x]]
      BY <1>3 DEF ResetArray, DataInv, Places
    <3>2. plc' = [x \in Vars |-> plc'[x]]
      BY <1>3, <2>1 DEF ResetArray, DataInv, Places
    <3>3. at' \in 0 .. VarCnt /\ half' = FALSE
      BY <1>3, <2>1, LengthIsNat DEF ResetArray, Vars
    <3>4. wpc' # "idle" => wx' \in Vars
      BY <1>3 DEF ResetArray, write, DataInv, Places
    <3> QED
      BY <3>1, <3>2, <3>3, <3>4 DEF Places
  <2>3. CopiesAgree'
    BY <1>3, <2>1 DEF ResetArray, DataInv, Places, MidWay, CopiesAgree, Writing, Clearing, write
  <2>4. HalfCleared'
    BY <1>3 DEF ResetArray, HalfCleared
  <2>5. LostIsCleared'
    BY <1>3, <2>1 DEF ResetArray, DataInv, Places, HalfCleared, LostIsCleared, Vars
  <2>6. MidWay'
    BY <1>3, <2>1 DEF ResetArray, DataInv, Places, MidWay, Writing, Clearing, write
  <2> QED
    BY <2>2, <2>3, <2>4, <2>5, <2>6 DEF DataInv
<1> QED
  BY <1>1, <1>2, <1>3 DEF NetworkTask

LEMMA StepInv == DataInv /\ [Next]_vars => DataInv'
<1> SUFFICES ASSUME DataInv, [Next]_vars PROVE DataInv'
  OBVIOUS
<1>1. CASE Event
  BY <1>1, EventInv
<1>2. CASE Heartbeat
  <2>1. Places'
    BY <1>2 DEF Heartbeat, DataInv, Places, copies, write, reset
  <2> QED
    BY <1>2, <2>1, QuietInv DEF Heartbeat, write, reset
<1>3. CASE LcdTask
  BY <1>3, WriteInv
<1>4. CASE NetworkTask
  BY <1>4, ResetInv
<1>5. CASE UNCHANGED vars
  <2>1. Places'
    BY <1>5 DEF vars, DataInv, Places, copies, write, reset
  <2> QED
    BY <1>5, <2>1, QuietInv DEF vars, write, reset
<1> QED
  BY <1>1, <1>2, <1>3, <1>4, <1>5 DEF Next

LEMMA AlwaysInv == Spec => []DataInv
  BY InitInv, StepInv, PTL DEF Spec

\* Outside the variables two parties were assigning at once, the two copies of
\* every variable agree, for arrays of any length and any frame
\* (check_can_rx_data, write_var_to_plc, reset_plc_data).
THEOREM CopiesAlwaysAgree == Spec => []CopiesAgree
<1>1. DataInv => CopiesAgree
  BY DEF DataInv
<1> QED
  BY <1>1, AlwaysInv, PTL

\* What the reset has passed stays zero until it is assigned: no value of a lost
\* PLC outlives the reset (main.c, reset_plc_data).
THEOREM LostAlwaysCleared == Spec => []LostIsCleared
<1>1. DataInv => LostIsCleared
  BY DEF DataInv
<1> QED
  BY <1>1, AlwaysInv, PTL

-----------------------------------------------------------------------------
(* Frames: where the address byte leads, and what a frame may assign. *)

LEMMA CountsAreNat ==
  \A q \in Kinds : /\ Count(q) \in Nat /\ Start(q) \in Nat
                   /\ Start(q) + Count(q) <= VarCnt
                   /\ Count(q) <= 256
                   /\ q = "clust_bit" => Count(q) <= 240
                   /\ q = "clust_reg" => Count(q) <= 239
  BY DataAssumption, AddressAssumption DEF Kinds, Count, Start, VarCnt

\* Every variable is of the kind whose stretch of the arrays it lies in.
LEMMA KindFound ==
  ASSUME NEW x \in Vars
  PROVE  /\ KindOf(x) \in Kinds
         /\ x - Start(KindOf(x)) \in 0 .. Count(KindOf(x)) - 1
<1>1. \E q \in Kinds : Start(q) <= x /\ x < Start(q) + Count(q)
  BY DataAssumption DEF Vars, VarCnt, Kinds, Count, Start
<1>2. KindOf(x) \in Kinds /\ Start(KindOf(x)) <= x /\ x < Start(KindOf(x)) + Count(KindOf(x))
  BY <1>1, Zenon DEF KindOf
<1>3. x \in Int /\ Count(KindOf(x)) \in Nat /\ Start(KindOf(x)) \in Nat
  BY <1>2, CountsAreNat DEF Vars
<1> QED
  BY <1>2, <1>3

\* A receiver takes a frame to be about the variable its address was made from.
LEMMA AddressLeadsBack ==
  ASSUME NEW q \in Kinds, NEW c \in 0 .. 7, NEW n \in 0 .. Count(q) - 1, NEW f,
         f.kind = q, f.clust = c, f.addr = Addr(q, n, c)
  PROVE  Addr(q, n, c) \in 0 .. 255 /\ Index(f) = n
<1>1. Count(q) \in Nat /\ Count(q) <= 256 /\ n \in Nat
  BY CountsAreNat
<1>2. CASE q = "clust_bit"
  <2>1. n <= 239
    BY <1>1, <1>2, CountsAreNat
  <2> QED
    BY <1>1, <1>2, <2>1 DEF Addr, Index, IsNet
<1>3. CASE q = "clust_reg"
  <2>1. n <= 238
    BY <1>1, <1>3, CountsAreNat
  <2> QED
    BY <1>1, <1>3, <2>1 DEF Addr, Index, IsNet
<1>4. CASE IsNet(q)
  <2>1. n <= 255
    BY <1>1
  <2>2. Addr(q, n, c) = (c * 16 + n + 1) % 256 /\ Index(f) = (f.addr - f.clust * 16 - 1) % 256
    BY <1>4 DEF Addr, Index, IsNet
  <2> QED
    BY <1>1, <2>1, <2>2
<1> QED
  BY <1>2, <1>3, <1>4 DEF Kinds, IsNet

\* A receiver takes no address from the first of its kind on for a number below 0.
LEMMA IndexIsNat ==
  ASSUME NEW f, f.kind \in Kinds, f.clust \in 0 .. 7, f.addr \in FirstAddr(f.kind) .. 255
  PROVE  Index(f) \in Nat
<1>1. CASE f.kind = "clust_bit"
  BY <1>1 DEF Index, FirstAddr
<1>2. CASE f.kind = "clust_reg"
  BY <1>2 DEF Index, FirstAddr
<1>3. CASE IsNet(f.kind)
  <2>1. Index(f) = (f.addr - f.clust * 16 - 1) % 256 /\ f.addr \in 0 .. 255
    BY <1>3 DEF Index, FirstAddr, IsNet
  <2>2. \A m \in Int : m % 256 \in Nat
    OBVIOUS
  <2> QED
    BY <2>1, <2>2
<1> QED
  BY <1>1, <1>2, <1>3 DEF Kinds, IsNet

\* An event assigns values to variables, and to no place beside the arrays: the
\* check of the upper end sees to that for every address up to 255.
LEMMA AssignmentsTyped ==
  ASSUME NEW d \in Assignments
  PROVE  DOMAIN d \subseteq Vars /\ \A x \in DOMAIN d : d[x] \in Value
<1>1. PICK f \in PlcFrames : d = [x \in Heard(f) |-> HeardValue(f, x)]
  BY DEF Assignments
<1> DEFINE Masks(s) == IF IsBit(s) THEN SUBSET (0 .. Width - 1) ELSE {{0}}
           Of(s, m) == [kind : {s}, clust : Clusters, addr : FirstAddr(s) .. 255, data : [m -> ValueOf(s)]]
           OfKind(s) == UNION {Of(s, m) : m \in Masks(s)}
<1>2. PICK q \in Kinds : \E mask \in Masks(q) : f \in Of(q, mask)
  <2>1. PlcFrames = UNION {OfKind(s) : s \in Kinds}
    BY DEF PlcFrames
  <2> HIDE DEF OfKind
  <2>2. PICK q \in Kinds : f \in OfKind(q)
    BY <1>1, <2>1
  <2> USE DEF OfKind
  <2> HIDE DEF Of, Masks
  <2>3. PICK mask \in Masks(q) : f \in Of(q, mask)
    BY <2>2
  <2> QED
    BY <2>3
<1>2a. PICK mask \in Masks(q) : f \in Of(q, mask)
  BY <1>2
<1>3. mask \subseteq 0 .. 7
  BY DataAssumption
<1>4. /\ f.kind = q /\ f.clust \in 0 .. 7 /\ f.addr \in FirstAddr(q) .. 255
      /\ f.data \in [mask -> ValueOf(q)]
  BY <1>2a, DataAssumption
<1> HIDE DEF Masks, Of, OfKind
<1> DEFINE n == Index(f)
<1>4a. n \in Nat
  BY <1>4, IndexIsNat
<1> HIDE DEF n
<1>5. Heard(f) = {Start(q) + n + i : i \in {j \in mask : n + j < Count(q)}}
  BY <1>4 DEF Heard, n
<1>6. ASSUME NEW x \in Heard(f) PROVE x \in Vars /\ HeardValue(f, x) \in Value
  <2>1. PICK j \in mask : n + j < Count(q) /\ x = Start(q) + n + j
    BY <1>5, <1>6
  <2>2. x \in Vars /\ x - Start(q) - n = j
    BY <1>3, <1>4a, <2>1, CountsAreNat, LengthIsNat DEF Vars
  <2>3. HeardValue(f, x) = f.data[j]
    BY <1>4, <2>2 DEF HeardValue, n
  <2>4. f.data[j] \in ValueOf(q)
    BY <1>4
  <2>5. ValueOf(q) \subseteq Value
    BY DataAssumption DEF ValueOf, Value, BitValue, Zero
  <2> QED
    BY <2>2, <2>3, <2>4, <2>5
<1> QED
  BY <1>1, <1>6

-----------------------------------------------------------------------------
(* What the operator's write sends. *)

Packing == {"id", "addr", "low", "high"}

\* While a frame is put together, it is about wx and carries what is in the
\* array, which is the operator's value unless the write was overrun.
SendInv ==
  /\ wpc # "idle" => wx \in Vars /\ wv \in ValueOf(KindOf(wx)) /\ sent = NoFrame
  /\ wpc \in Packing => plc[wx] = wv \/ overrun
  /\ wpc \in {"addr", "low", "high"} => id_clust \in Clusters
  /\ wpc = "addr" => id_clust = cluster_addr \/ moved
  /\ wpc \in {"low", "high"} =>
       \/ addr = Addr(KindOf(wx), wx - Start(KindOf(wx)), id_clust)
       \/ moved /\ IsNet(KindOf(wx))
  /\ wpc = "high" => low = wv.lo \/ (overrun /\ ~IsBit(KindOf(wx)))

LEMMA TypesInit == Init => TypeOK /\ SendInv /\ WriteIsHeard
<1> SUFFICES ASSUME Init PROVE TypeOK /\ SendInv /\ WriteIsHeard
  OBVIOUS
<1>1. Zero \in Value /\ 0 \in Bytes
  BY DataAssumption DEF Zero, Value
<1>2. TypeOK
  <2>1. sent \in Frames
    BY DEF Init, Frames
  <2>2. half \in BOOLEAN /\ overrun \in BOOLEAN /\ moved \in BOOLEAN
    BY Zenon DEF Init
  <2>3. cl \in [Vars -> Value] /\ plc \in [Vars -> Value]
    BY <1>1 DEF Init
  <2>4. at \in 0 .. VarCnt /\ wx \in Vars \cup {0} /\ wv \in Value
    BY <1>1, LengthIsNat DEF Init
  <2> QED
    BY <1>1, <2>1, <2>2, <2>3, <2>4 DEF Init, TypeOK
<1>3. SendInv /\ WriteIsHeard
  BY DEF Init, SendInv, WriteIsHeard, Packing
<1> QED
  BY <1>2, <1>3

LEMMA TypesEvent == ASSUME TypeOK, SendInv, WriteIsHeard, Event PROVE TypeOK' /\ SendInv' /\ WriteIsHeard'
<1>1. PICK d \in Assignments :
        /\ cl' = [x \in Vars |-> IF x \in DOMAIN d THEN d[x] ELSE cl[x]]
        /\ plc' = [x \in Vars |-> IF x \in DOMAIN d THEN d[x] ELSE plc[x]]
        /\ crossed' = {x \in crossed : x \notin DOMAIN d} \cup {x \in DOMAIN d : Writing(x) \/ Clearing(x)}
        /\ overrun' = (overrun \/ (Sending /\ wx \in DOMAIN d))
        /\ touched' = touched \cup DOMAIN d
  BY Zenon DEF Event
<1>2. DOMAIN d \subseteq Vars /\ \A x \in DOMAIN d : d[x] \in Value
  BY AssignmentsTyped
<1>3. UNCHANGED <<link, write, reset, moved>>
  BY DEF Event
<1>4. cl' \in [Vars -> Value] /\ plc' \in [Vars -> Value]
  BY <1>1, <1>2 DEF TypeOK
<1>5. crossed' \subseteq Vars /\ touched' \subseteq Vars /\ overrun' \in BOOLEAN
  <2>1. crossed' \subseteq Vars /\ touched' \subseteq Vars
    BY <1>1, <1>2 DEF TypeOK
  <2>2. overrun' \in BOOLEAN
    BY <1>1, Zenon DEF TypeOK
  <2> QED
    BY <2>1, <2>2
<1>6. TypeOK'
  BY <1>3, <1>4, <1>5 DEF TypeOK, link, write, reset
<1>7. wpc \in Packing => plc'[wx] = wv \/ overrun'
  BY <1>1 DEF SendInv, Packing, Sending
<1>8. overrun => overrun'
  BY <1>1
<1>9. SendInv'
  BY <1>3, <1>7, <1>8 DEF SendInv, link, write, Packing
<1>10. WriteIsHeard'
  BY <1>3, <1>8 DEF WriteIsHeard, write
<1> QED
  BY <1>6, <1>9, <1>10

LEMMA TypesHeartbeat ==
  ASSUME TypeOK, SendInv, WriteIsHeard, Heartbeat PROVE TypeOK' /\ SendInv' /\ WriteIsHeard'
<1> USE DEF Heartbeat, copies, write, reset
<1>1. moved' \in BOOLEAN
  BY Zenon DEF TypeOK
<1>2. TypeOK'
  BY <1>1 DEF TypeOK
<1>3. SendInv' /\ WriteIsHeard'
  BY DEF SendInv, WriteIsHeard, Packing
<1> QED
  BY <1>2, <1>3

LEMMA TypesWrite ==
  ASSUME TypeOK, SendInv, WriteIsHeard, LcdTask PROVE TypeOK' /\ SendInv' /\ WriteIsHeard'
<1> USE DEF copies, link, reset, Packing
<1>1. CASE StartWrite
  <2> USE <1>1 DEF StartWrite
  <2>1. ValueOf(KindOf(wx')) \subseteq Value
    BY DataAssumption DEF ValueOf, BitValue, Value, Zero
  <2> QED
    BY <2>1 DEF TypeOK, SendInv, WriteIsHeard, Frames
<1>2. CASE WriteCl
  <2> USE <1>2 DEF WriteCl
  <2>1. wx \in Vars
    BY DEF SendInv
  <2> QED
    BY <2>1 DEF TypeOK, SendInv, WriteIsHeard
<1>3. CASE WriteArray
  <2> USE <1>3 DEF WriteArray
  <2>1. wx \in Vars
    BY DEF SendInv
  <2> QED
    BY <2>1 DEF TypeOK, SendInv, WriteIsHeard
<1>4. CASE PackId
  BY <1>4 DEF PackId, TypeOK, SendInv, WriteIsHeard
<1>5. CASE PackAddr
  <2> USE <1>5 DEF PackAddr
  <2>1. wx \in Vars /\ cluster_addr \in 0 .. 7
    BY DataAssumption DEF SendInv, TypeOK
  <2>2. \A c \in 0 .. 7 : Addr(KindOf(wx), wx - Start(KindOf(wx)), c) \in 0 .. 255
    <3> SUFFICES ASSUME NEW c \in 0 .. 7
                 PROVE  Addr(KindOf(wx), wx - Start(KindOf(wx)), c) \in 0 .. 255
      OBVIOUS
    <3> DEFINE n == wx - Start(KindOf(wx))
               f == [kind |-> KindOf(wx), clust |-> c, addr |-> Addr(KindOf(wx), n, c)]
    <3>1. f.kind = KindOf(wx) /\ f.clust = c /\ f.addr = Addr(KindOf(wx), n, c)
      OBVIOUS
    <3>2. KindOf(wx) \in Kinds /\ n \in 0 .. Count(KindOf(wx)) - 1
      BY <2>1, KindFound
    <3> HIDE DEF f, n
    <3>3. Addr(KindOf(wx), n, c) \in 0 .. 255
      BY ONLY <3>1, <3>2, c \in 0 .. 7, AddressLeadsBack
    <3> QED
      BY <3>3 DEF n
  <2>3. ~IsNet(KindOf(wx)) =>
          \A n, c, e : Addr(KindOf(wx), n, c) = Addr(KindOf(wx), n, e)
    BY <2>1, KindFound DEF Addr, IsNet, Kinds
  <2>4. TypeOK'
    BY <2>1, <2>2 DEF TypeOK
  <2>5. SendInv' /\ WriteIsHeard'
    BY <2>3 DEF SendInv, WriteIsHeard
  <2> QED
    BY <2>4, <2>5
<1>6. CASE PackLow
  <2> USE <1>6 DEF PackLow
  <2>1. wx \in Vars /\ plc[wx] \in Value /\ wv \in Value
    BY DEF SendInv, TypeOK
  <2> QED
    BY <2>1 DEF TypeOK, SendInv, WriteIsHeard, Value
<1>7. CASE PackHigh
  <2> USE <1>7 DEF PackHigh
  <2> DEFINE q == KindOf(wx)
             n == wx - Start(q)
             hi == IF IsBit(q) THEN 0 ELSE plc[wx].hi
             value == [lo |-> low, hi |-> hi]
  <2>1. wx \in Vars /\ wv \in ValueOf(q) /\ id_clust \in Clusters /\ id_clust \in 0 .. 7
    BY DataAssumption DEF SendInv
  <2>2. q \in Kinds /\ n \in 0 .. Count(q) - 1 /\ Start(q) \in Nat /\ Count(q) \in Nat
    BY <2>1, KindFound, CountsAreNat
  <2>3. /\ sent' = [kind |-> q, clust |-> id_clust, addr |-> addr, data |-> [i \in {0} |-> value]]
        /\ sent'.kind = q /\ sent'.clust = id_clust /\ sent'.addr = addr
        /\ sent'.data = [i \in {0} |-> value]
    OBVIOUS
  <2>4. value \in Value
    BY <2>1, DataAssumption DEF TypeOK, Value
  <2>5. TypeOK'
    <3>1. sent' \in Frames
      BY <2>1, <2>2, <2>3, <2>4 DEF Frames, TypeOK, Value
    <3>2. wpc' = "idle" /\ id_clust' = 0 /\ addr' = 0 /\ low' = 0 /\ 0 \in Bytes
      BY DataAssumption
    <3>3. UNCHANGED <<cl, plc, plc_can_link, cluster_addr, wx, wv, at, half, crossed, overrun,
                      moved, touched>>
      OBVIOUS
    <3> QED
      BY ONLY <3>1, <3>2, <3>3, TypeOK DEF TypeOK, Vars, Value
  <2>6. SendInv'
    BY DEF SendInv
  <2>7. ASSUME ~(moved' /\ IsNet(q)) PROVE Heard(sent') = {wx} /\ Index(sent') = n
    <3>1. addr = Addr(q, n, id_clust)
      BY <2>7 DEF SendInv
    <3>2. Index(sent') = n
      BY <2>1, <2>2, <2>3, <3>1, AddressLeadsBack
    <3>3. Heard(sent') = {Start(q) + n + i : i \in {j \in {0} : n + j < Count(q)}}
      BY <2>3, <3>2 DEF Heard
    <3>4. wx = Start(q) + n + 0 /\ n + 0 < Count(q)
      BY <2>1, <2>2 DEF Vars
    <3> QED
      BY <3>2, <3>3, <3>4
  <2>8. value = wv \/ (overrun /\ ~IsBit(q))
    BY <2>1 DEF SendInv, ValueOf, BitValue, Zero, Value
  <2>9. ASSUME Index(sent') = n PROVE HeardValue(sent', wx) = value
    <3>1. wx - Start(q) - n = 0
      BY <2>1, <2>2 DEF Vars
    <3> QED
      BY <2>3, <2>9, <3>1 DEF HeardValue
  <2>10. WriteIsHeard'
    BY <2>3, <2>7, <2>8, <2>9 DEF WriteIsHeard
  <2> QED
    BY <2>5, <2>6, <2>10
<1> QED
  BY <1>1, <1>2, <1>3, <1>4, <1>5, <1>6, <1>7 DEF LcdTask

LEMMA TypesReset ==
  ASSUME TypeOK, SendInv, WriteIsHeard, Places, NetworkTask
  PROVE  TypeOK' /\ SendInv' /\ WriteIsHeard'
<1> USE DEF copies, link, write
<1>0. Zero \in Value
  BY DataAssumption DEF Zero, Value
<1>1. CASE LoseLink
  BY <1>1, LengthIsNat DEF LoseLink, TypeOK, SendInv, WriteIsHeard
<1>2. CASE ResetCl
  <2>1. at \in Vars
    BY <1>2, LengthIsNat DEF ResetCl, TypeOK, Vars
  <2> QED
    BY <1>0, <1>2, <2>1 DEF ResetCl, TypeOK, SendInv, WriteIsHeard
<1>3. CASE ResetArray
  <2> USE <1>3 DEF ResetArray
  <2>1. at \in Vars /\ at' \in 0 .. VarCnt
    BY LengthIsNat DEF Places, Vars
  <2>2. overrun' \in BOOLEAN
    BY Zenon DEF TypeOK
  <2>3. TypeOK'
    BY <1>0, <2>1, <2>2 DEF TypeOK
  <2>4. wpc \in Packing => plc'[wx] = wv \/ overrun'
    BY <2>1 DEF SendInv, Packing, Sending, TypeOK
  <2>5. SendInv'
    BY <2>4 DEF SendInv, Packing
  <2>6. WriteIsHeard'
    BY DEF WriteIsHeard
  <2> QED
    BY <2>3, <2>5, <2>6
<1> QED
  BY <1>1, <1>2, <1>3 DEF NetworkTask

LEMMA TypesAlways == Spec => [](TypeOK /\ SendInv /\ WriteIsHeard)
<1>1. TypeOK /\ SendInv /\ WriteIsHeard /\ DataInv /\ [Next]_vars => (TypeOK /\ SendInv /\ WriteIsHeard)'
  <2> SUFFICES ASSUME TypeOK, SendInv, WriteIsHeard, DataInv, [Next]_vars
               PROVE  (TypeOK /\ SendInv /\ WriteIsHeard)'
    OBVIOUS
  <2>1. CASE UNCHANGED vars
    BY <2>1 DEF vars, copies, link, write, reset, TypeOK, SendInv, WriteIsHeard
  <2> QED
    BY <2>1, TypesEvent, TypesHeartbeat, TypesWrite, TypesReset DEF Next, DataInv
<1> QED
  BY <1>1, TypesInit, AlwaysInv, PTL DEF Spec

\* Every value the mirror holds, and every byte of a frame it sends, is one the
\* wire can carry, and no write or reset leaves the arrays, nor does an event of
\* a PLC that numbers its cluster variables from 16 and 17 on, however far past
\* the end of an array it goes: for arrays of any length whose numbers fit the
\* address byte.  Below those numbers check_can_rx_data checks nothing, and
\* neither does this theorem.
THEOREM MirrorTypes == Spec => []TypeOK
  BY TypesAlways, PTL

\* Whoever hears the frame of a write assigns the operator's value to the
\* operator's variable and to nothing else, unless the cluster address changed
\* between its two uses or the register was assigned before it was packed
\* (write_var_to_plc of menu.c, the write_... functions of can_cmd.c,
\* check_can_rx_data of can.c).
THEOREM WritesAreHeard == Spec => []WriteIsHeard
  BY TypesAlways, PTL

-----------------------------------------------------------------------------
(***************************************************************************)
(* The trends.  A ring has its last points right before the write index,   *)
(* whatever its other places hold; how many of them are certain follows    *)
(* from the points still missing until it has been written round (Kept).   *)
(* A copy leaves the ring it writes so, because up to the word it is at it *)
(* agrees with the ring it reads unless the interrupt fell into it         *)
(* (Agreed).  The registers name the sources of the trends (Saved).        *)
(***************************************************************************)


LEMMA SlotFacts ==
  /\ 0 \in Slot
  /\ \A i \in Slot : i \in Nat /\ i < Size /\ Around(i + 1) \in Slot
  /\ \A i \in Nat : i \in Slot <=> i < Size
BY TrendAssumption DEF Slot, Around

LEMMA RingFields ==
  ASSUME NEW t \in Rings
  PROVE  /\ t.point \in [Slot -> 0 .. MaxPoints]
         /\ t.first \in Slot /\ t.cur \in Slot
         /\ t.full \in BOOLEAN /\ t.src \in Sources
BY DEF Rings

\* What add_data_to_trend does to each field.
LEMMA AddPointFields ==
  ASSUME NEW t \in Rings, NEW n \in 0 .. MaxPoints
  PROVE  /\ AddPoint(t, n) \in Rings
         /\ AddPoint(t, n).point = [t.point EXCEPT ![t.cur] = n]
         /\ AddPoint(t, n).cur = Around(t.cur + 1)
         /\ AddPoint(t, n).full <=> t.full \/ t.cur + 1 >= Size
         /\ AddPoint(t, n).first = IF t.full \/ t.cur + 1 >= Size THEN Around(t.first + 1) ELSE t.first
         /\ AddPoint(t, n).src = t.src
<1> DEFINE full == t.full \/ t.cur + 1 >= Size
           first == IF full THEN Around(t.first + 1) ELSE t.first
           cur == Around(t.cur + 1)
           point == [t.point EXCEPT ![t.cur] = n]
<1>1. AddPoint(t, n) =
        [t EXCEPT !.point = point, !.cur = cur, !.full = full, !.first = first]
  BY Zenon DEF AddPoint
<1>2. first \in Slot /\ cur \in Slot /\ point \in [Slot -> 0 .. MaxPoints]
  BY RingFields, SlotFacts
<1>3. full \in BOOLEAN
  OBVIOUS
<1> HIDE DEF full, first, cur, point
<1>4. /\ AddPoint(t, n).point = point
      /\ AddPoint(t, n).cur = cur /\ AddPoint(t, n).full = full
      /\ AddPoint(t, n).first = first /\ AddPoint(t, n).src = t.src
  BY ONLY <1>1, t \in Rings DEF Rings
<1>5. AddPoint(t, n) \in Rings
  BY ONLY <1>1, <1>2, <1>3, t \in Rings DEF Rings
<1>6. AddPoint(t, n).full <=> full
  BY ONLY <1>4, Zenon
<1>7. QED BY <1>4, <1>5, <1>6 DEF full, first, cur, point

LEMMA NewTrendFields ==
  ASSUME NEW s \in Sources
  PROVE  /\ NewTrend(s) \in Rings
         /\ NewTrend(s).point = [p \in Slot |-> Blank] /\ NewTrend(s).src = s
         /\ NewTrend(s).first = 0 /\ NewTrend(s).cur = 0 /\ NewTrend(s).full = FALSE
BY SlotFacts, TrendAssumption DEF NewTrend, Rings, Blank

\* What a word copied changes.
LEMMA PointCopied ==
  ASSUME NEW t \in Rings, NEW s \in Rings, NEW word \in Slot
  PROVE  /\ CopyWord(t, s, word) \in Rings
         /\ CopyWord(t, s, word).point = [t.point EXCEPT ![word] = s.point[word]]
         /\ CopyWord(t, s, word).src = t.src
<1>1. word # Indices /\ word # Tag
  BY TrendAssumption DEF Indices, Tag, Slot
<1>2. QED BY <1>1 DEF CopyWord, Rings

LEMMA IndicesCopied ==
  ASSUME NEW t \in Rings, NEW s \in Rings
  PROVE  /\ CopyWord(t, s, Indices) \in Rings
         /\ CopyWord(t, s, Indices).point = t.point /\ CopyWord(t, s, Indices).src = t.src
         /\ CopyWord(t, s, Indices).first = s.first /\ CopyWord(t, s, Indices).cur = s.cur
<1>1. Indices \notin Slot /\ Indices # Tag
  BY TrendAssumption DEF Indices, Tag, Slot
<1>2. QED BY <1>1 DEF CopyWord, Rings

LEMMA TagCopied ==
  ASSUME NEW t \in Rings, NEW s \in Rings
  PROVE  /\ CopyWord(t, s, Tag) \in Rings
         /\ CopyWord(t, s, Tag).point = t.point /\ CopyWord(t, s, Tag).src = s.src
         /\ CopyWord(t, s, Tag).first = t.first /\ CopyWord(t, s, Tag).cur = t.cur
         /\ CopyWord(t, s, Tag).full = s.full
<1>1. Tag \notin Slot /\ Tag # Indices
  BY TrendAssumption DEF Indices, Tag, Slot
<1>2. QED BY <1>1 DEF CopyWord, Rings

LEMMA WordCopied ==
  ASSUME NEW t \in Rings, NEW s \in Rings, w \in 0 .. Tag
  PROVE  CopyWord(t, s, w) \in Rings
<1>1. w \in Slot \/ w = Indices \/ w = Tag
  BY TrendAssumption DEF Slot, Indices, Tag
<1>2. QED BY <1>1, PointCopied, IndicesCopied, TagCopied, Zenon

-----------------------------------------------------------------------------
(* What should be on show. *)

LEMMA HistFields ==
  ASSUME NEW h \in Hist
  PROVE  /\ h.recent \in Seq(1 .. MaxPoints) /\ Len(h.recent) \in 0 .. Size - 1
         /\ h.heals \in 0 .. Size /\ h.slipped \in BOOLEAN
<1>1. /\ h.recent \in UNION {[1 .. n -> 1 .. MaxPoints] : n \in 0 .. Size - 1}
      /\ h.heals \in 0 .. Size /\ h.slipped \in BOOLEAN
  BY DEF Hist
<1>2. PICK n \in 0 .. Size - 1 : h.recent \in [1 .. n -> 1 .. MaxPoints]
  BY <1>1
<1>3. n \in Nat
  BY TrendAssumption
<1>4. h.recent \in Seq(1 .. MaxPoints) /\ Len(h.recent) = n
  <2> DEFINE e == h.recent
  <2>1. e \in [1 .. n -> 1 .. MaxPoints]
    BY <1>2
  <2> HIDE DEF e
  <2>2. e \in Seq(1 .. MaxPoints)
    BY <2>1, <1>3, SeqDef
  <2>3. Len(e) = n
    BY <2>1, <2>2, <1>3, LenProperties
  <2>4. QED BY <2>2, <2>3 DEF e
<1>5. QED BY <1>1, <1>4

LEMMA HistMade ==
  ASSUME NEW recent \in Seq(1 .. MaxPoints), Len(recent) <= Size - 1,
         NEW heals \in 0 .. Size, NEW slipped \in BOOLEAN
  PROVE  [recent |-> recent, heals |-> heals, slipped |-> slipped] \in Hist
<1>1. Len(recent) \in 0 .. Size - 1
  BY TrendAssumption
<1>2. recent \in [1 .. Len(recent) -> 1 .. MaxPoints]
  BY LenProperties
<1>3. recent \in UNION {[1 .. n -> 1 .. MaxPoints] : n \in 0 .. Size - 1}
  BY <1>1, <1>2
<1>4. QED BY <1>3 DEF Hist

LEMMA NewHistFields ==
  /\ NewHist \in Hist /\ NewHist.recent = <<>> /\ NewHist.heals = 0 /\ NewHist.slipped = FALSE
<1>1. <<>> \in Seq(1 .. MaxPoints) /\ Len(<<>>) <= Size - 1
  BY TrendAssumption
<1>2. NewHist \in Hist
  BY <1>1, HistMade, TrendAssumption, 0 \in 0 .. Size, FALSE \in BOOLEAN, Zenon DEF NewHist
<1>3. QED BY <1>2 DEF NewHist

LEMMA CopiedFields ==
  ASSUME NEW h \in Hist, hit \in BOOLEAN, late \in BOOLEAN
  PROVE  /\ Copied(h) \in Hist /\ Copied(h).recent = h.recent
         /\ Copied(h).heals = IF hit THEN Size ELSE h.heals
         /\ Copied(h).slipped <=> h.slipped \/ late
<1> DEFINE heals == IF hit THEN Size ELSE h.heals
           slipped == h.slipped \/ late
<1>1. Copied(h) = [h EXCEPT !.heals = heals, !.slipped = slipped]
  BY Zenon DEF Copied
<1>2. heals \in 0 .. Size
  BY HistFields, TrendAssumption
<1>3. slipped \in BOOLEAN
  OBVIOUS
<1> HIDE DEF heals, slipped
<1>4. Copied(h).recent = h.recent /\ Copied(h).heals = heals /\ Copied(h).slipped = slipped
  BY ONLY <1>1, h \in Hist DEF Hist
<1>5. Copied(h) \in Hist
  BY ONLY <1>1, <1>2, <1>3, h \in Hist DEF Hist
<1>6. Copied(h).slipped <=> slipped
  BY ONLY <1>4, Zenon
<1>7. QED BY <1>4, <1>5, <1>6 DEF heals, slipped

LEMMA WithPointFields ==
  ASSUME NEW h \in Hist, NEW n \in 1 .. MaxPoints
  PROVE  LET a == WithPoint(h, n)
         IN  /\ a \in Hist
             /\ a.slipped = h.slipped
             /\ a.heals = IF h.heals = 0 THEN 0 ELSE h.heals - 1
             /\ Len(a.recent) = IF Len(h.recent) < Size - 1 THEN Len(h.recent) + 1 ELSE Len(h.recent)
             /\ Len(a.recent) >= 1 => a.recent[Len(a.recent)] = n
             /\ \A j \in 2 .. Len(a.recent) :
                  a.recent[Len(a.recent) + 1 - j] = h.recent[Len(h.recent) + 2 - j]
<1> DEFINE recent == IF Len(h.recent) < Size - 1 THEN Append(h.recent, n)
                     ELSE Tail(Append(h.recent, n))
           heals == IF h.heals = 0 THEN 0 ELSE h.heals - 1
<1>1. WithPoint(h, n) = [h EXCEPT !.recent = recent, !.heals = heals]
  BY Zenon DEF WithPoint
<1>2. /\ h.recent \in Seq(1 .. MaxPoints) /\ Len(h.recent) \in 0 .. Size - 1
      /\ h.heals \in 0 .. Size /\ h.slipped \in BOOLEAN
  BY HistFields
<1>3. heals \in 0 .. Size
  BY <1>2, TrendAssumption
<1>4. /\ recent \in Seq(1 .. MaxPoints)
      /\ Len(recent) = IF Len(h.recent) < Size - 1 THEN Len(h.recent) + 1 ELSE Len(h.recent)
      /\ Len(recent) >= 1 => recent[Len(recent)] = n
      /\ \A j \in 2 .. Len(recent) : recent[Len(recent) + 1 - j] = h.recent[Len(h.recent) + 2 - j]
  <2>1. CASE Len(h.recent) < Size - 1
    BY <1>2, <2>1, TrendAssumption
  <2>2. CASE ~(Len(h.recent) < Size - 1)
    <3> DEFINE a == Append(h.recent, n)
               L == Len(h.recent)
    <3>1. a \in Seq(1 .. MaxPoints) /\ Len(a) = L + 1 /\ a[L + 1] = n /\ L \in Nat
          /\ \A i \in 1 .. L : a[i] = h.recent[i]
      BY <1>2, TrendAssumption
    <3>2. recent = Tail(a)
      BY <2>2
    <3> HIDE DEF a
    <3>3. a # <<>>
      BY <3>1
    <3>4. /\ Tail(a) \in Seq(1 .. MaxPoints) /\ Len(Tail(a)) = L
          /\ \A i \in 1 .. L : Tail(a)[i] = a[i + 1]
      BY <3>1, <3>3
    <3> HIDE DEF recent
    <3>5. recent \in Seq(1 .. MaxPoints) /\ Len(recent) = L
      BY <3>2, <3>4
    <3>6. L >= 1 => recent[L] = n
      BY <3>1, <3>2, <3>4
    <3>7. \A j \in 2 .. L : recent[L + 1 - j] = h.recent[L + 2 - j]
      <4> SUFFICES ASSUME NEW j \in 2 .. L PROVE recent[L + 1 - j] = h.recent[L + 2 - j]
        OBVIOUS
      <4>1. L + 1 - j \in 1 .. L /\ L + 2 - j \in 1 .. L /\ L + 1 - j + 1 = L + 2 - j
        BY <3>1
      <4>2. QED BY <3>1, <3>2, <3>4, <4>1
    <3>8. QED BY <3>5, <3>6, <3>7, <2>2
  <2>3. QED BY <2>1, <2>2
<1> HIDE DEF recent, heals
<1>5. Len(recent) <= Size - 1
  BY <1>2, <1>4, TrendAssumption
<1>6. recent \in UNION {[1 .. c -> 1 .. MaxPoints] : c \in 0 .. Size - 1}
  <2>1. [recent |-> recent, heals |-> heals, slipped |-> h.slipped] \in Hist
    BY <1>2, <1>3, <1>4, <1>5, HistMade, Zenon
  <2>2. QED BY <2>1 DEF Hist
<1>7. /\ WithPoint(h, n).recent = recent /\ WithPoint(h, n).heals = heals
      /\ WithPoint(h, n).slipped = h.slipped
      /\ WithPoint(h, n) \in Hist
  BY ONLY <1>1, <1>3, <1>6, h \in Hist DEF Hist
<1>8. QED BY <1>4, <1>7 DEF heals

-----------------------------------------------------------------------------
(* The ring and what should be on show. *)

\* The place j points before place i of the ring.
Before(i, j) == IF i >= j THEN i - j ELSE i - j + Size

\* How many of the last points stand in the ring, however the copy went.
Sure(h) == IF h.heals = 0 THEN Len(h.recent) ELSE Size - h.heals

InPhase(t) == t.first = IF t.full THEN Around(t.cur + 1) ELSE 0

\* The last points stand before the write index, the last one first.
Behind(t, h) ==
  /\ Sure(h) <= Len(h.recent)
  /\ \A j \in 1 .. Sure(h) : h.recent[Len(h.recent) + 1 - j] = t.point[Before(t.cur, j)]

\* A ring that is sound shows all of them, and blank places follow.
Whole(t, h) ==
  IF t.full THEN Len(h.recent) = Size - 1
  ELSE Len(h.recent) = t.cur /\ \A p \in Slot : p >= t.cur => t.point[p] = Blank

Kept(t, h) ==
  ~h.slipped => /\ InPhase(t) /\ Behind(t, h)
                /\ h.heals = 0 => Whole(t, h)
                /\ h.heals > 0 /\ ~t.full => Sure(h) <= t.cur

\* A point given to a trend keeps it so.
LEMMA KeptByPoint ==
  ASSUME NEW t \in Rings, NEW h \in Hist, NEW n \in 1 .. MaxPoints, Kept(t, h)
  PROVE  Kept(AddPoint(t, n), WithPoint(h, n))
<1> DEFINE u == AddPoint(t, n)
           g == WithPoint(h, n)
<1>1. /\ u.point = [t.point EXCEPT ![t.cur] = n] /\ u.cur = Around(t.cur + 1)
      /\ u.full <=> t.full \/ t.cur + 1 >= Size
      /\ u.first = IF t.full \/ t.cur + 1 >= Size THEN Around(t.first + 1) ELSE t.first
  BY AddPointFields, TrendAssumption
<1>2. /\ g.slipped = h.slipped /\ g.heals = IF h.heals = 0 THEN 0 ELSE h.heals - 1
      /\ Len(g.recent) = IF Len(h.recent) < Size - 1 THEN Len(h.recent) + 1 ELSE Len(h.recent)
      /\ Len(g.recent) >= 1 => g.recent[Len(g.recent)] = n
      /\ \A j \in 2 .. Len(g.recent) :
           g.recent[Len(g.recent) + 1 - j] = h.recent[Len(h.recent) + 2 - j]
  BY WithPointFields
<1>3. /\ t.point \in [Slot -> 0 .. MaxPoints] /\ t.first \in Slot /\ t.cur \in Slot
      /\ t.full \in BOOLEAN
  BY RingFields
<1>4. Len(h.recent) \in 0 .. Size - 1 /\ h.heals \in 0 .. Size /\ h.slipped \in BOOLEAN
  BY HistFields
<1> HIDE DEF u, g
<1> SUFFICES ASSUME ~h.slipped PROVE Kept(u, g)
  BY <1>2 DEF Kept, u, g
<1>5. InPhase(t) /\ Behind(t, h) /\ (h.heals = 0 => Whole(t, h))
      /\ (h.heals > 0 /\ ~t.full => Sure(h) <= t.cur)
  BY DEF Kept
<1> DEFINE L == Len(h.recent)
           M == Len(g.recent)
<1>6. /\ Size \in Nat \ {0} /\ L \in Nat /\ L <= Size - 1 /\ h.heals \in Nat /\ h.heals <= Size
      /\ t.cur \in Nat /\ t.cur < Size /\ M = IF L < Size - 1 THEN L + 1 ELSE L
  BY <1>2, <1>3, <1>4, TrendAssumption DEF Slot
<1>7. InPhase(u)
  BY <1>1, <1>3, <1>5, <1>6, TrendAssumption DEF InPhase, Around, Slot
<1>8. h.heals = 0 => (t.full => L = Size - 1) /\ (~t.full => L = t.cur)
  BY <1>5 DEF Whole
<1>9. h.heals > 0 => Size - h.heals <= L /\ (~t.full => Size - h.heals <= t.cur)
  BY <1>5 DEF Behind, Sure
<1>10. Sure(g) <= M /\ Sure(g) <= Sure(h) + 1 /\ Sure(g) \in Nat /\ Sure(h) \in Nat
  <2> DEFINE a == Sure(g)
             b == Sure(h)
             x == h.heals
  <2>1. /\ x = 0 => b = L /\ a = M
        /\ x = 1 => b = Size - 1 /\ a = M
        /\ x > 1 => b = Size - x /\ a = Size - (x - 1)
    BY <1>2, <1>6 DEF Sure
  <2>2. x \in Nat /\ x <= Size /\ L \in Nat /\ L <= Size - 1 /\ Size \in Nat \ {0}
        /\ (L < Size - 1 => M = L + 1) /\ (L >= Size - 1 => M = L) /\ (x > 0 => Size - x <= L)
    BY <1>6, <1>9
  <2> HIDE DEF a, b, x, L, M
  <2>3. a <= M /\ a <= b + 1 /\ a \in Nat /\ b \in Nat
    BY ONLY <2>1, <2>2, SMT
  <2>4. QED BY <2>3 DEF a, b, M
<1>11. \A j \in 1 .. Sure(g) : g.recent[M + 1 - j] = u.point[Before(u.cur, j)]
  <2> SUFFICES ASSUME NEW j \in 1 .. Sure(g) PROVE g.recent[M + 1 - j] = u.point[Before(u.cur, j)]
    OBVIOUS
  <2>1. j \in 1 .. M /\ M \in Nat /\ j <= Size - 1
    BY <1>6, <1>10
  <2>2. CASE j = 1
    <3>1. g.recent[M + 1 - j] = n
      BY <1>2, <2>1, <2>2
    <3>2. Before(u.cur, j) = t.cur
      BY <1>1, <1>6, <2>2 DEF Before, Around
    <3>3. u.point[t.cur] = n
      BY <1>1, <1>3
    <3>4. QED BY <3>1, <3>2, <3>3
  <2>3. CASE j >= 2
    <3> DEFINE i == j - 1
    <3>1. i \in 1 .. Sure(h) /\ L + 2 - j = L + 1 - i
      BY <1>10, <2>3
    <3>2. g.recent[M + 1 - j] = h.recent[L + 1 - i]
      BY <1>2, <2>1, <2>3, <3>1
    <3>3. h.recent[L + 1 - i] = t.point[Before(t.cur, i)]
      BY <1>5, <3>1 DEF Behind
    <3>4. /\ Before(u.cur, j) = Before(t.cur, i) /\ Before(t.cur, i) # t.cur
          /\ Before(t.cur, i) \in Slot
      <4> DEFINE c == t.cur
                 d == u.cur
      <4>1. c \in Nat /\ c < Size /\ Size \in Nat /\ j \in Nat /\ j >= 2 /\ j <= Size - 1
            /\ d = IF c + 1 >= Size THEN c + 1 - Size ELSE c + 1
        BY <1>1, <1>6, <2>1, <2>3 DEF Around
      <4> HIDE DEF c, d
      <4>2. /\ (IF d >= j THEN d - j ELSE d - j + Size) = (IF c >= j - 1 THEN c - (j - 1) ELSE c - (j - 1) + Size)
            /\ (IF c >= j - 1 THEN c - (j - 1) ELSE c - (j - 1) + Size) # c
            /\ (IF c >= j - 1 THEN c - (j - 1) ELSE c - (j - 1) + Size) \in 0 .. Size - 1
        BY ONLY <4>1, SMT
      <4>3. QED BY ONLY <4>2 DEF c, d, i, Before, Slot
    <3>5. u.point[Before(t.cur, i)] = t.point[Before(t.cur, i)]
      BY <1>1, <1>3, <3>4
    <3>6. QED BY <3>2, <3>3, <3>4, <3>5
  <2>4. QED BY <2>1, <2>2, <2>3
<1>12. Behind(u, g)
  BY <1>10, <1>11 DEF Behind
<1>13. g.heals = 0 => Whole(u, g)
  <2> SUFFICES ASSUME g.heals = 0 PROVE Whole(u, g)
    OBVIOUS
  <2>1. CASE u.full
    <3>1. M = Size - 1
      <4>1. /\ t.full \/ t.cur + 1 >= Size
            /\ h.heals = 0 \/ h.heals = 1
        BY <1>1, <1>2, <1>6, <2>1
      <4>2. L >= Size - 1
        BY <1>6, <1>8, <1>9, <4>1
      <4>3. QED BY <1>6, <4>2
    <3>2. QED BY <2>1, <3>1 DEF Whole
  <2>2. CASE ~u.full
    <3>1. ~t.full /\ t.cur + 1 < Size /\ u.cur = t.cur + 1
      BY <1>1, <1>6, <2>2 DEF Around
    <3>2. h.heals = 0
      BY <1>2, <1>6, <1>9, <3>1
    <3>3. M = u.cur
      BY <1>6, <1>8, <3>1, <3>2
    <3>4. \A p \in Slot : p >= u.cur => u.point[p] = Blank
      <4>1. \A p \in Slot : p >= t.cur => t.point[p] = Blank
        BY <1>5, <3>1, <3>2 DEF Whole
      <4>2. ASSUME NEW p \in Slot, p >= u.cur PROVE u.point[p] = Blank
        <5>1. p >= t.cur /\ p # t.cur
          BY <1>6, <3>1, <4>2 DEF Slot
        <5>2. u.point[p] = t.point[p]
          BY <1>1, <1>3, <5>1
        <5>3. QED BY <4>1, <5>1, <5>2
      <4>3. QED BY <4>2
    <3>5. QED BY <2>2, <3>3, <3>4 DEF Whole
  <2>3. QED BY <2>1, <2>2
<1>14. g.heals > 0 /\ ~u.full => Sure(g) <= u.cur
  BY <1>1, <1>2, <1>6, <1>9 DEF Sure, Around
<1>15. QED BY <1>7, <1>12, <1>13, <1>14 DEF Kept

\* A sound ring shows what it should.
LEMMA ShownIsRecent ==
  ASSUME NEW t \in Rings, NEW h \in Hist, Kept(t, h), h.heals = 0, ~h.slipped
  PROVE  Shown(t) = h.recent
<1> DEFINE L == Len(h.recent)
           At(i) == t.point[Around(t.first + i - 1)]
           Ends(c) == /\ \A i \in 1 .. c : At(i) # Blank
                      /\ c < Size - 1 => At(c + 1) = Blank
<1>1. /\ t.point \in [Slot -> 0 .. MaxPoints] /\ t.first \in Slot /\ t.cur \in Slot
      /\ t.full \in BOOLEAN
  BY RingFields
<1>2. h.recent \in Seq(1 .. MaxPoints) /\ L \in 0 .. Size - 1
  BY HistFields
<1>3. InPhase(t) /\ Behind(t, h) /\ Whole(t, h)
  BY DEF Kept
<1>4. Size \in Nat \ {0} /\ L \in Nat /\ t.cur \in Nat /\ t.cur < Size
  BY <1>1, <1>2, TrendAssumption DEF Slot
<1>5. \A i \in 1 .. L : At(i) = h.recent[i]
  <2> SUFFICES ASSUME NEW i \in 1 .. L PROVE At(i) = h.recent[i]
    OBVIOUS
  <2> DEFINE j == L + 1 - i
  <2>1. j \in 1 .. Sure(h) /\ L + 1 - j = i
    BY <1>4 DEF Sure
  <2>2. h.recent[i] = t.point[Before(t.cur, j)]
    BY <1>3, <2>1 DEF Behind
  <2>3. (t.full => L = Size - 1) /\ (~t.full => L = t.cur)
    BY <1>3 DEF Whole
  <2>4. Around(t.first + i - 1) = Before(t.cur, j)
    <3> DEFINE c == t.cur
               f == t.first
    <3>1. /\ c \in Nat /\ c < Size /\ Size \in Nat /\ i \in Nat /\ i >= 1 /\ i <= L /\ L \in Nat
          /\ j \in Nat /\ i + j = L + 1
          /\ \/ L = Size - 1 /\ f = IF c + 1 >= Size THEN c + 1 - Size ELSE c + 1
             \/ L = c /\ f = 0
      BY <1>1, <1>3, <1>4, <2>1, <2>3 DEF InPhase, Around
    <3>2. Around(t.first + i - 1) =
            IF f + (i - 1) >= Size THEN (f + (i - 1)) - Size ELSE f + (i - 1)
      BY Zenon DEF Around
    <3>3. Before(t.cur, j) = IF c >= j THEN c - j ELSE c - j + Size
      BY DEF Before
    <3> HIDE DEF c, f, L, j
    <3>4. (IF f + (i - 1) >= Size THEN (f + (i - 1)) - Size ELSE f + (i - 1))
            = (IF c >= j THEN c - j ELSE c - j + Size)
      BY ONLY <3>1, SMT
    <3>5. QED BY <3>2, <3>3, <3>4
  <2>5. QED BY <2>2, <2>4
<1>6. \A i \in 1 .. L : At(i) # Blank
  <2>1. \A i \in 1 .. L : h.recent[i] \in 1 .. MaxPoints
    <3> DEFINE r == h.recent
    <3>1. r \in Seq(1 .. MaxPoints)
      BY <1>2
    <3> HIDE DEF r
    <3>2. \A i \in 1 .. Len(r) : r[i] \in 1 .. MaxPoints
      BY <3>1, ElementOfSeq
    <3>3. QED BY <3>2 DEF r
  <2>2. QED BY <1>5, <2>1, TrendAssumption DEF Blank
<1>7. L < Size - 1 => At(L + 1) = Blank
  <2> SUFFICES ASSUME L < Size - 1 PROVE At(L + 1) = Blank
    OBVIOUS
  <2>1. ~t.full /\ L = t.cur /\ \A p \in Slot : p >= t.cur => t.point[p] = Blank
    BY <1>3, <1>4 DEF Whole
  <2>2. Around(t.first + (L + 1) - 1) = t.cur
    BY <1>3, <1>4, <2>1 DEF InPhase, Around
  <2>3. t.point[t.cur] = Blank
    BY <1>1, <1>4, <2>1
  <2>4. QED BY <2>2, <2>3
<1> HIDE DEF At
<1>8. Ends(L)
  BY <1>6, <1>7
<1>9. \A c \in 0 .. Size - 1 : Ends(c) => c = L
  BY <1>2, <1>4, <1>6, <1>7
<1>10. (CHOOSE c \in 0 .. Size - 1 : Ends(c)) = L
  <2> HIDE DEF Ends, L
  <2>1. QED BY <1>2, <1>8, <1>9, Zenon
<1>11. Shown(t) = [i \in 1 .. L |-> At(i)]
  BY <1>10, Zenon DEF Shown, At
<1>12. h.recent = [i \in 1 .. L |-> h.recent[i]]
  BY <1>2
<1>13. QED BY <1>5, <1>11, <1>12

-----------------------------------------------------------------------------
(* Where the LCD task is, and types. *)

CopyPc == {"copyin", "copyout", "add", "move"}

\* A copy is of a trend, and outside of one none has begun.
TrendPlaces ==
  /\ lpc \in CopyPc => k \in Trend
  /\ lpc \notin CopyPc => w = 0
  /\ lpc = "add" => k = tr_cnt + 1
  /\ lpc = "move" => tr_cnt >= 1
  /\ w = 0 => ~hit
  /\ late => hit

\* What a copy under way reads, and what it writes.
Source ==
  CASE lpc = "copyin"  -> trends[k]
    [] lpc = "copyout" -> tmp_trends[k]
    [] lpc = "add"     -> NewTrend(tr)
    [] lpc = "move"    -> IF k < MaxCnt THEN trends[k + 1] ELSE NewTrend(NewSource)

Target == IF lpc = "copyin" THEN tmp_trends[k] ELSE trends[k]

LEMMA TrendFacts ==
  /\ MaxCnt \in Nat \ {0} /\ Size \in Nat \ {0} /\ Tag \in Nat \ {0, 1} /\ Tag = Size + 1
  /\ \A i \in Trend : i \in Nat /\ i >= 1 /\ i <= MaxCnt
  /\ \A i \in Nat : i >= 1 /\ i <= MaxCnt => i \in Trend
BY TrendAssumption DEF Trend, Tag

LEMMA SourceTyped ==
  ASSUME TrendTypeOK, TrendPlaces, lpc \in CopyPc
  PROVE  Source \in Rings /\ Target \in Rings /\ k \in Trend
<1>1. k \in Trend
  BY DEF TrendPlaces
<1>2. /\ trends \in [Trend -> Rings] /\ tmp_trends \in [Trend -> Rings] /\ tr \in Sources
  BY DEF TrendTypeOK
<1>3. NewTrend(tr) \in Rings /\ NewTrend(NewSource) \in Rings
  BY <1>2, NewTrendFields, TrendAssumption
<1>4. k < MaxCnt => k + 1 \in Trend
  BY <1>1, TrendFacts
<1>5. Target \in Rings
  BY <1>1, <1>2 DEF Target
<1>6. CASE lpc = "copyin"
  BY <1>1, <1>2, <1>5, <1>6 DEF Source
<1>7. CASE lpc = "copyout"
  BY <1>1, <1>2, <1>5, <1>7 DEF Source
<1>8. CASE lpc = "add"
  <2>1. Source = NewTrend(tr)
    BY <1>8 DEF Source
  <2>2. QED BY <1>1, <1>3, <1>5, <2>1
<1>9. CASE lpc = "move"
  <2>1. Source = IF k < MaxCnt THEN trends[k + 1] ELSE NewTrend(NewSource)
    BY <1>9 DEF Source
  <2>2. QED BY <1>1, <1>2, <1>3, <1>4, <1>5, <2>1
<1>10. QED BY <1>6, <1>7, <1>8, <1>9 DEF CopyPc

\* The variables a copy moves on with, word by word and trend by trend.
CounterTypes ==
  /\ lpc \in {"conf", "copyin", "edit", "copyout", "add", "move", "save"}
  /\ k \in 0 .. MaxCnt /\ w \in 0 .. Tag /\ hit \in BOOLEAN /\ late \in BOOLEAN

LEMMA InitTyped == TrendInit => TrendTypeOK /\ TrendPlaces
<1> SUFFICES ASSUME TrendInit PROVE TrendTypeOK /\ TrendPlaces
  OBVIOUS
<1>1. bpr \in [cnt : 0 .. MaxCnt, src : [Trend -> Sources]]
  BY DEF TrendInit
<1>2. \A i \in Trend : NewTrend(bpr.src[i]) \in Rings
  BY <1>1, NewTrendFields
<1>3. NewTrend(NewSource) \in Rings /\ NewHist \in Hist
  BY NewTrendFields, NewHistFields, TrendAssumption
<1>4. trends \in [Trend -> Rings] /\ tmp_trends \in [Trend -> Rings]
  BY <1>2, <1>3 DEF TrendInit
<1>5. hist \in [Trend -> Hist] /\ tmpHist \in [Trend -> Hist]
  BY <1>3 DEF TrendInit
<1>6. /\ tr_cnt \in 0 .. MaxCnt /\ tr \in Sources /\ points \in 0 .. MaxPoints
      /\ visits \in 0 .. MaxVisits
  BY <1>1, TrendAssumption DEF TrendInit
<1>7. CounterTypes /\ TrendPlaces
  <2>1. lpc = "conf" /\ k = 1 /\ w = 0 /\ hit = FALSE /\ late = FALSE
    BY Zenon DEF TrendInit
  <2>2. 1 \in 0 .. MaxCnt /\ 0 \in 0 .. Tag
    BY TrendFacts
  <2>3. hit \in BOOLEAN /\ late \in BOOLEAN /\ ~hit /\ ~late
    BY <2>1, Zenon
  <2>4. CounterTypes
    BY <2>1, <2>2, <2>3 DEF CounterTypes
  <2>5. TrendPlaces
    BY <2>1, <2>3 DEF TrendPlaces, CopyPc
  <2>6. QED BY <2>4, <2>5
<1>8. QED BY <1>1, <1>4, <1>5, <1>6, <1>7, Zenon DEF TrendTypeOK, CounterTypes

LEMMA RestartTyped == TrendTypeOK /\ Restart => (TrendTypeOK /\ TrendPlaces)'
<1> SUFFICES ASSUME TrendTypeOK, Restart PROVE (TrendTypeOK /\ TrendPlaces)'
  OBVIOUS
<1>1. bpr \in [cnt : 0 .. MaxCnt, src : [Trend -> Sources]] /\ bpr' = bpr
  BY DEF TrendTypeOK, Restart
<1>2. \A i \in Trend : NewTrend(bpr.src[i]) \in Rings
  BY <1>1, NewTrendFields
<1>3. NewTrend(NewSource) \in Rings /\ NewHist \in Hist
  BY NewTrendFields, NewHistFields, TrendAssumption
<1>4. trends' \in [Trend -> Rings] /\ tmp_trends' \in [Trend -> Rings]
  BY <1>2, <1>3 DEF Restart
<1>5. hist' \in [Trend -> Hist] /\ tmpHist' \in [Trend -> Hist]
  BY <1>3 DEF Restart
<1>6. /\ tr_cnt' \in 0 .. MaxCnt /\ tr' \in Sources /\ points' \in 0 .. MaxPoints
      /\ visits' \in 0 .. MaxVisits
  BY <1>1, TrendAssumption DEF Restart
<1>7. CounterTypes' /\ TrendPlaces'
  <2>1. lpc' = "conf" /\ k' = 1 /\ w' = 0 /\ hit' = FALSE /\ late' = FALSE
    BY Zenon DEF Restart
  <2>2. 1 \in 0 .. MaxCnt /\ 0 \in 0 .. Tag
    BY TrendFacts
  <2>3. hit' \in BOOLEAN /\ late' \in BOOLEAN /\ ~hit' /\ ~late'
    BY <2>1, Zenon
  <2>4. CounterTypes'
    BY <2>1, <2>2, <2>3 DEF CounterTypes
  <2>5. TrendPlaces'
    BY <2>1, <2>3 DEF TrendPlaces, CopyPc
  <2>6. QED BY <2>4, <2>5
<1>8. QED BY <1>1, <1>4, <1>5, <1>6, <1>7, Zenon DEF TrendTypeOK, CounterTypes

LEMMA PointTyped ==
  ASSUME TrendTypeOK, TrendPlaces, NEW s \in Sources, NewPoint(s)
  PROVE  (TrendTypeOK /\ TrendPlaces)'
<1> DEFINE fed == {i \in Trend : trends[i].src = s}
<1>1. points' = points + 1 /\ points' \in 1 .. MaxPoints /\ points' \in 0 .. MaxPoints
  BY TrendAssumption DEF TrendTypeOK, NewPoint
<1>2. /\ trends \in [Trend -> Rings] /\ hist \in [Trend -> Hist]
  BY DEF TrendTypeOK
<1>3. trends' = [i \in Trend |-> IF i \in fed THEN AddPoint(trends[i], points') ELSE trends[i]]
      /\ hist' = [i \in Trend |-> IF i \in fed THEN WithPoint(hist[i], points') ELSE hist[i]]
  BY Zenon DEF NewPoint
<1>4. \A i \in Trend : AddPoint(trends[i], points') \in Rings
  BY <1>1, <1>2, AddPointFields
<1>5. \A i \in Trend : WithPoint(hist[i], points') \in Hist
  BY <1>1, <1>2, WithPointFields
<1>6. trends' \in [Trend -> Rings] /\ hist' \in [Trend -> Hist]
  BY <1>2, <1>3, <1>4, <1>5
<1>7. UNCHANGED <<tmp_trends, tmpHist, tr_cnt, bpr, tr, lpc, k, w, visits>>
  BY DEF NewPoint, settings
<1>8. hit' \in BOOLEAN /\ late' \in BOOLEAN /\ (w = 0 => hit' = hit) /\ (late' => hit')
  <2>1. hit \in BOOLEAN /\ late \in BOOLEAN /\ w \in 0 .. Tag /\ (late => hit)
    BY DEF TrendTypeOK, TrendPlaces
  <2>2. /\ hit' = (hit \/ (w > 0 /\ Copying \cap fed # {}))
        /\ late' = (late \/ (w = Tag /\ Copying \cap fed # {}))
    BY Zenon DEF NewPoint
  <2>3. w = Tag => w > 0
    BY TrendFacts
  <2>4. w = 0 => ~(w > 0)
    BY <2>1
  <2> HIDE DEF fed
  <2>5. QED BY <2>1, <2>2, <2>3, <2>4, Zenon
<1>9. QED BY <1>1, <1>6, <1>7, <1>8, Zenon DEF TrendTypeOK, TrendPlaces

LEMMA MenuTyped ==
  ASSUME TrendTypeOK, TrendPlaces,
         \/ OpenEditor \/ LeaveEditor \/ SaveEdit \/ (\E s \in Sources : Add(s))
         \/ (\E i \in Trend : Delete(i))
  PROVE  (TrendTypeOK /\ TrendPlaces)'
<1>1. UNCHANGED <<trends, tmp_trends, hist, tmpHist, tr_cnt, bpr, w, hit, late, points>>
  BY DEF OpenEditor, LeaveEditor, SaveEdit, Add, Delete, rings, settings
<1>2. visits' \in 0 .. MaxVisits
  BY TrendAssumption DEF TrendTypeOK, OpenEditor, LeaveEditor, SaveEdit, Add, Delete, Visit
<1>3. tr' \in Sources
  BY DEF TrendTypeOK, OpenEditor, LeaveEditor, SaveEdit, Add, Delete, settings
<1>4. /\ lpc' \in {"conf", "copyin", "edit", "copyout", "add", "move", "save"}
      /\ lpc \notin CopyPc /\ k' \in 0 .. MaxCnt
      /\ lpc' \in CopyPc => k' \in Trend
      /\ lpc' = "add" => k' = tr_cnt + 1
      /\ lpc' = "move" => tr_cnt >= 1
  BY TrendFacts DEF TrendTypeOK, OpenEditor, LeaveEditor, SaveEdit, Add, Delete, Visit, CopyPc
<1>5. QED BY <1>1, <1>2, <1>3, <1>4 DEF TrendTypeOK, TrendPlaces

LEMMA ChangeTyped ==
  ASSUME TrendTypeOK, TrendPlaces, NEW i \in Trend, NEW s \in Sources, ChangeSource(i, s)
  PROVE  (TrendTypeOK /\ TrendPlaces)'
<1>1. tmp_trends \in [Trend -> Rings]
  BY DEF TrendTypeOK
<1>2. [tmp_trends[i] EXCEPT !.src = s] \in Rings
  BY <1>1 DEF Rings
<1>3. tmp_trends' \in [Trend -> Rings]
  BY <1>1, <1>2 DEF ChangeSource
<1>4. UNCHANGED <<trends, hist, tmpHist, tr_cnt, bpr, tr, lpc, k, w, hit, late, points, visits>>
  BY DEF ChangeSource, settings, lcd
<1>5. QED BY <1>3, <1>4 DEF TrendTypeOK, TrendPlaces

LEMMA SaveTyped == TrendTypeOK /\ TrendPlaces /\ Save => (TrendTypeOK /\ TrendPlaces)'
<1> SUFFICES ASSUME TrendTypeOK, TrendPlaces, Save PROVE (TrendTypeOK /\ TrendPlaces)'
  OBVIOUS
<1>1. /\ trends \in [Trend -> Rings] /\ bpr \in [cnt : 0 .. MaxCnt, src : [Trend -> Sources]]
      /\ tr_cnt \in 0 .. MaxCnt /\ k \in 0 .. MaxCnt
  BY DEF TrendTypeOK
<1>2. bpr' \in [cnt : 0 .. MaxCnt, src : [Trend -> Sources]]
  <2>1. CASE k = 0
    <3>1. bpr' = [bpr EXCEPT !.cnt = tr_cnt]
      BY <2>1 DEF Save
    <3>2. QED BY <1>1, <3>1
  <2>2. CASE k # 0
    <3>1. bpr' = [bpr EXCEPT !.src[k] = trends[k].src] /\ k \in Trend
      BY <1>1, <2>2, TrendFacts DEF Save
    <3>2. trends[k].src \in Sources
      BY <1>1, <3>1, RingFields
    <3>3. QED BY <1>1, <3>1, <3>2
  <2>3. QED BY <2>1, <2>2
<1>3. /\ lpc' \in {"save", "conf"} /\ k' \in 0 .. MaxCnt
  BY <1>1, TrendFacts DEF Save
<1>4. UNCHANGED <<trends, tmp_trends, hist, tmpHist, tr_cnt, tr, w, hit, late, points, visits>>
  BY DEF Save, rings
<1>5. lpc \notin CopyPc /\ lpc' \notin CopyPc
  BY <1>3 DEF Save, CopyPc
<1>6. QED BY <1>2, <1>3, <1>4, <1>5 DEF TrendTypeOK, TrendPlaces, CopyPc

-----------------------------------------------------------------------------
(* Copies: a word that is not the last, and the last word of each. *)

CopyStep == CopyIn \/ CopyOut \/ CopyAdded \/ Move

\* A word that is not the last goes to one trend of one of the arrays.
WordStep ==
  /\ lpc \in CopyPc /\ w < Tag /\ w' = w + 1
  /\ IF lpc = "copyin"
     THEN tmp_trends' = [tmp_trends EXCEPT ![k] = CopyWord(Target, Source, w)] /\ trends' = trends
     ELSE trends' = [trends EXCEPT ![k] = CopyWord(Target, Source, w)] /\ tmp_trends' = tmp_trends
  /\ UNCHANGED <<lpc, k, hit, late, hist, tmpHist, tr_cnt, bpr, tr, points, visits>>

\* The last word of a trend ends its copy.
LastWord ==
  /\ w = Tag /\ w' = 0 /\ hit' = FALSE /\ late' = FALSE
  /\ bpr' = bpr /\ points' = points /\ visits' = visits

LastIn ==
  /\ lpc = "copyin"
  /\ tmp_trends' = [tmp_trends EXCEPT ![k] = CopyWord(Target, Source, Tag)]
  /\ tmpHist' = [tmpHist EXCEPT ![k] = Copied(hist[k])]
  /\ UNCHANGED <<trends, hist, tr_cnt, tr>>
  /\ \/ k < MaxCnt /\ lpc' = "copyin" /\ k' = k + 1
     \/ ~(k < MaxCnt) /\ lpc' = "edit" /\ k' = 1

LastOut ==
  /\ lpc = "copyout"
  /\ trends' = [trends EXCEPT ![k] = CopyWord(Target, Source, Tag)]
  /\ hist' = [hist EXCEPT ![k] = Copied(tmpHist[k])]
  /\ tmp_trends' = [tmp_trends EXCEPT ![k].point = [p \in Slot |-> Blank]]
  /\ UNCHANGED <<tmpHist, tr_cnt, tr>>
  /\ \/ k < MaxCnt /\ lpc' = "copyout" /\ k' = k + 1
     \/ ~(k < MaxCnt) /\ lpc' = "save" /\ k' = 0

LastAdded ==
  /\ lpc = "add"
  /\ trends' = [trends EXCEPT ![k] = CopyWord(Target, Source, Tag)]
  /\ hist' = [hist EXCEPT ![k] = Copied(NewHist)]
  /\ UNCHANGED <<tmp_trends, tmpHist>>
  /\ tr_cnt' = tr_cnt + 1 /\ tr' = NewSource
  /\ lpc' = "save" /\ k' = 0

LastMoved ==
  /\ lpc = "move"
  /\ trends' = [trends EXCEPT ![k] = CopyWord(Target, Source, Tag)]
  /\ hist' = [hist EXCEPT ![k] = Copied(IF k < MaxCnt THEN hist[k + 1] ELSE NewHist)]
  /\ UNCHANGED <<tmp_trends, tmpHist, tr>>
  /\ \/ k < MaxCnt /\ lpc' = "move" /\ k' = k + 1 /\ tr_cnt' = tr_cnt
     \/ ~(k < MaxCnt) /\ lpc' = "save" /\ k' = 0 /\ tr_cnt' = tr_cnt - 1

LEMMA CopyInCases ==
  CopyIn /\ w \in 0 .. Tag => WordStep \/ (LastWord /\ LastIn)
<1> SUFFICES ASSUME CopyIn, w \in 0 .. Tag PROVE WordStep \/ (LastWord /\ LastIn)
  OBVIOUS
<1>1. lpc = "copyin" /\ Target = tmp_trends[k] /\ Source = trends[k]
  BY Zenon DEF CopyIn, Target, Source
<1>2. /\ tmp_trends' = [tmp_trends EXCEPT ![k] = CopyWord(Target, Source, w)]
      /\ UNCHANGED <<trends, hist, tr_cnt, bpr, tr, points, visits>>
  BY <1>1, Zenon DEF CopyIn, settings
<1>3. CASE NextWord /\ UNCHANGED tmpHist
  BY <1>1, <1>2, <1>3, Zenon DEF NextWord, WordStep, CopyPc
<1>4. CASE /\ IF k < MaxCnt THEN NextTrend("copyin", k + 1) ELSE NextTrend("edit", 1)
           /\ tmpHist' = [tmpHist EXCEPT ![k] = Copied(hist[k])]
  <2>1. \/ k < MaxCnt /\ NextTrend("copyin", k + 1)
        \/ ~(k < MaxCnt) /\ NextTrend("edit", 1)
    BY <1>4, Zenon
  <2>2. w = Tag
    BY <2>1, Zenon DEF NextTrend
  <2>3. LastWord
    BY <2>1, <1>2, Zenon DEF NextTrend, LastWord
  <2>4. \/ k < MaxCnt /\ lpc' = "copyin" /\ k' = k + 1
        \/ ~(k < MaxCnt) /\ lpc' = "edit" /\ k' = 1
    BY <2>1, Zenon DEF NextTrend
  <2>5. QED BY <1>1, <1>2, <1>4, <2>2, <2>3, <2>4, Zenon DEF LastIn
<1>5. QED BY <1>3, <1>4, Zenon DEF CopyIn

LEMMA CopyOutCases ==
  CopyOut /\ w \in 0 .. Tag => WordStep \/ (LastWord /\ LastOut)
<1> SUFFICES ASSUME CopyOut, w \in 0 .. Tag PROVE WordStep \/ (LastWord /\ LastOut)
  OBVIOUS
<1>1. lpc = "copyout" /\ Target = trends[k] /\ Source = tmp_trends[k]
  BY DEF CopyOut, Target, Source
<1>2. /\ trends' = [trends EXCEPT ![k] = CopyWord(Target, Source, w)]
      /\ UNCHANGED <<tmpHist, tr_cnt, bpr, tr, points, visits>>
  BY <1>1, Zenon DEF CopyOut, settings
<1>3. CASE NextWord /\ UNCHANGED <<tmp_trends, hist>>
  BY <1>1, <1>2, <1>3, Zenon, "copyout" # "copyin" DEF NextWord, WordStep, CopyPc
<1>4. CASE /\ IF k < MaxCnt THEN NextTrend("copyout", k + 1) ELSE NextTrend("save", 0)
           /\ tmp_trends' = [tmp_trends EXCEPT ![k].point = [p \in Slot |-> Blank]]
           /\ hist' = [hist EXCEPT ![k] = Copied(tmpHist[k])]
  <2>1. \/ k < MaxCnt /\ NextTrend("copyout", k + 1)
        \/ ~(k < MaxCnt) /\ NextTrend("save", 0)
    BY <1>4, Zenon
  <2>2. w = Tag
    BY <2>1, Zenon DEF NextTrend
  <2>3. LastWord
    BY <2>1, <1>2, Zenon DEF NextTrend, LastWord
  <2>4. \/ k < MaxCnt /\ lpc' = "copyout" /\ k' = k + 1
        \/ ~(k < MaxCnt) /\ lpc' = "save" /\ k' = 0
    BY <2>1, Zenon DEF NextTrend
  <2>5. QED BY <1>1, <1>2, <1>4, <2>2, <2>3, <2>4, Zenon DEF LastOut
<1>5. QED BY <1>3, <1>4, Zenon DEF CopyOut

LEMMA CopyAddedCases ==
  CopyAdded /\ w \in 0 .. Tag => WordStep \/ (LastWord /\ LastAdded)
<1> SUFFICES ASSUME CopyAdded, w \in 0 .. Tag PROVE WordStep \/ (LastWord /\ LastAdded)
  OBVIOUS
<1>1. lpc = "add" /\ Target = trends[k] /\ Source = NewTrend(tr)
  BY DEF CopyAdded, Target, Source
<1>2. /\ trends' = [trends EXCEPT ![k] = CopyWord(Target, Source, w)]
      /\ UNCHANGED <<tmp_trends, tmpHist, bpr, points, visits>>
  BY <1>1, Zenon DEF CopyAdded
<1>3. CASE NextWord /\ UNCHANGED <<hist, tr_cnt, tr>>
  BY <1>1, <1>2, <1>3, Zenon, "add" # "copyin" DEF NextWord, WordStep, CopyPc
<1>4. CASE /\ NextTrend("save", 0)
           /\ hist' = [hist EXCEPT ![k] = Copied(NewHist)]
           /\ tr_cnt' = tr_cnt + 1
           /\ tr' = NewSource
  <2>1. w = Tag /\ LastWord /\ lpc' = "save" /\ k' = 0
    BY <1>2, <1>4, Zenon DEF NextTrend, LastWord
  <2>2. QED BY <1>1, <1>2, <1>4, <2>1, Zenon DEF LastAdded
<1>5. QED BY <1>3, <1>4, Zenon DEF CopyAdded

LEMMA MoveCases ==
  Move /\ w \in 0 .. Tag => WordStep \/ (LastWord /\ LastMoved)
<1> SUFFICES ASSUME Move, w \in 0 .. Tag PROVE WordStep \/ (LastWord /\ LastMoved)
  OBVIOUS
<1> DEFINE source  == IF k < MaxCnt THEN trends[k + 1] ELSE NewTrend(NewSource)
           becomes == IF k < MaxCnt THEN hist[k + 1] ELSE NewHist
<1>1. lpc = "move" /\ Target = trends[k] /\ Source = source
  BY DEF Move, Target, Source
<1>2. /\ trends' = [trends EXCEPT ![k] = CopyWord(Target, Source, w)]
      /\ UNCHANGED <<tmp_trends, tmpHist, bpr, tr, points, visits>>
  BY <1>1, Zenon DEF Move
<1>3. CASE NextWord /\ UNCHANGED <<hist, tr_cnt>>
  BY <1>1, <1>2, <1>3, Zenon, "move" # "copyin" DEF NextWord, WordStep, CopyPc
<1>4. CASE /\ hist' = [hist EXCEPT ![k] = Copied(becomes)]
           /\ IF k < MaxCnt THEN NextTrend("move", k + 1) /\ UNCHANGED tr_cnt
              ELSE NextTrend("save", 0) /\ tr_cnt' = tr_cnt - 1
  <2>1. \/ k < MaxCnt /\ NextTrend("move", k + 1) /\ tr_cnt' = tr_cnt
        \/ ~(k < MaxCnt) /\ NextTrend("save", 0) /\ tr_cnt' = tr_cnt - 1
    BY <1>4, Zenon
  <2>2. w = Tag
    BY <2>1, Zenon DEF NextTrend
  <2>3. LastWord
    BY <2>1, <1>2, Zenon DEF NextTrend, LastWord
  <2>4. \/ k < MaxCnt /\ lpc' = "move" /\ k' = k + 1 /\ tr_cnt' = tr_cnt
        \/ ~(k < MaxCnt) /\ lpc' = "save" /\ k' = 0 /\ tr_cnt' = tr_cnt - 1
    BY <2>1, Zenon DEF NextTrend
  <2>5. QED BY <1>1, <1>2, <1>4, <2>2, <2>3, <2>4, Zenon DEF LastMoved
<1>5. QED BY <1>3, <1>4, Zenon DEF Move

LEMMA CopyCases ==
  ASSUME w \in 0 .. Tag, CopyStep
  PROVE  WordStep \/ (LastWord /\ (LastIn \/ LastOut \/ LastAdded \/ LastMoved))
BY CopyInCases, CopyOutCases, CopyAddedCases, MoveCases, Zenon DEF CopyStep

LEMMA WordTyped == TrendTypeOK /\ TrendPlaces /\ WordStep => (TrendTypeOK /\ TrendPlaces)'
<1> SUFFICES ASSUME TrendTypeOK, TrendPlaces, WordStep PROVE (TrendTypeOK /\ TrendPlaces)'
  OBVIOUS
<1>1. w \in 0 .. Tag /\ w' \in 0 .. Tag /\ w' # 0 /\ lpc \in CopyPc
  BY TrendFacts DEF TrendTypeOK, WordStep
<1>2. Source \in Rings /\ Target \in Rings /\ k \in Trend
  BY <1>1, SourceTyped
<1>3. CopyWord(Target, Source, w) \in Rings
  BY <1>1, <1>2, WordCopied
<1>4. trends' \in [Trend -> Rings] /\ tmp_trends' \in [Trend -> Rings]
  BY <1>2, <1>3 DEF TrendTypeOK, WordStep
<1>5. UNCHANGED <<lpc, k, hit, late, hist, tmpHist, tr_cnt, bpr, tr, points, visits>>
  BY Zenon DEF WordStep
<1>6. QED BY <1>1, <1>4, <1>5 DEF TrendTypeOK, TrendPlaces

LEMMA LastTyped ==
  ASSUME TrendTypeOK, TrendPlaces, LastWord, LastIn \/ LastOut \/ LastAdded \/ LastMoved
  PROVE  (TrendTypeOK /\ TrendPlaces)'
<1>1. lpc \in CopyPc /\ hit \in BOOLEAN /\ late \in BOOLEAN
  <2>1. lpc \in CopyPc
    BY DEF LastIn, LastOut, LastAdded, LastMoved, CopyPc
  <2>2. QED BY <2>1 DEF TrendTypeOK
<1>2. Source \in Rings /\ Target \in Rings /\ k \in Trend
  BY <1>1, SourceTyped
<1>3. CopyWord(Target, Source, Tag) \in Rings
  BY <1>2, TagCopied
<1>4. /\ trends \in [Trend -> Rings] /\ tmp_trends \in [Trend -> Rings]
      /\ hist \in [Trend -> Hist] /\ tmpHist \in [Trend -> Hist]
      /\ tr_cnt \in 0 .. MaxCnt /\ tr \in Sources /\ NewSource \in Sources
  BY TrendAssumption DEF TrendTypeOK
<1>5. \A h \in Hist : Copied(h) \in Hist
  BY <1>1, CopiedFields
<1>6. \A t \in Rings : [t EXCEPT !.point = [p \in Slot |-> Blank]] \in Rings
  BY TrendAssumption DEF Rings, Blank
<1>7. k < MaxCnt => k + 1 \in Trend
  BY <1>2, TrendFacts
<1> DEFINE becomes == IF k < MaxCnt THEN hist[k + 1] ELSE NewHist
<1>8. becomes \in Hist /\ hist[k] \in Hist /\ tmpHist[k] \in Hist /\ NewHist \in Hist
  BY <1>2, <1>4, <1>7, NewHistFields
<1>9. /\ trends' \in [Trend -> Rings] /\ tmp_trends' \in [Trend -> Rings]
      /\ hist' \in [Trend -> Hist] /\ tmpHist' \in [Trend -> Hist]
  <2>1. CASE LastIn
    BY <1>2, <1>3, <1>4, <1>5, <1>8, <2>1 DEF LastIn
  <2>2. CASE LastOut
    BY <1>2, <1>3, <1>4, <1>5, <1>6, <1>8, <2>2 DEF LastOut
  <2>3. CASE LastAdded
    BY <1>2, <1>3, <1>4, <1>5, <1>8, <2>3 DEF LastAdded
  <2>4. CASE LastMoved
    <3>1. hist' = [hist EXCEPT ![k] = Copied(becomes)]
      BY <2>4, Zenon DEF LastMoved
    <3> HIDE DEF becomes
    <3>2. QED BY <1>2, <1>3, <1>4, <1>5, <1>8, <2>4, <3>1 DEF LastMoved
  <2>5. QED BY <2>1, <2>2, <2>3, <2>4
<1>10. /\ tr_cnt' \in 0 .. MaxCnt /\ tr' \in Sources
       /\ lpc' \in {"copyin", "edit", "copyout", "save", "move"} /\ k' \in 0 .. MaxCnt
       /\ lpc' \in CopyPc => k' \in Trend
       /\ lpc' = "move" => tr_cnt' >= 1
  <2>1. CASE LastIn
    BY <1>2, <1>4, <1>7, <2>1, TrendFacts DEF LastIn, CopyPc
  <2>2. CASE LastOut
    BY <1>2, <1>4, <1>7, <2>2, TrendFacts DEF LastOut, CopyPc
  <2>3. CASE LastAdded
    BY <1>2, <1>4, <2>3, TrendFacts DEF LastAdded, CopyPc, TrendPlaces
  <2>4. CASE LastMoved
    BY <1>2, <1>4, <1>7, <2>4, TrendFacts DEF LastMoved, CopyPc, TrendPlaces
  <2>5. QED BY <2>1, <2>2, <2>3, <2>4
<1>11. /\ w' = 0 /\ hit' = FALSE /\ late' = FALSE
       /\ bpr' = bpr /\ points' = points /\ visits' = visits
  BY Zenon DEF LastWord
<1>12. hit' \in BOOLEAN /\ late' \in BOOLEAN /\ ~hit' /\ ~late'
  BY <1>11, Zenon
<1>13. TrendTypeOK'
  <2>1. CounterTypes'
    BY <1>10, <1>11, <1>12, TrendFacts DEF CounterTypes
  <2>2. /\ bpr' \in [cnt : 0 .. MaxCnt, src : [Trend -> Sources]]
        /\ points' \in 0 .. MaxPoints /\ visits' \in 0 .. MaxVisits
    BY <1>11 DEF TrendTypeOK
  <2>3. QED BY <1>9, <1>10, <2>1, <2>2, Zenon DEF TrendTypeOK, CounterTypes
<1>14. TrendPlaces'
  BY <1>10, <1>11, <1>12 DEF TrendPlaces
<1>15. QED BY <1>13, <1>14

LEMMA Steps ==
  ASSUME [TrendNext]_trendVars
  PROVE  \/ Restart \/ (\E s \in Sources : NewPoint(s))
         \/ OpenEditor \/ LeaveEditor \/ SaveEdit
         \/ (\E s \in Sources : Add(s)) \/ (\E i \in Trend : Delete(i))
         \/ (\E i \in Trend, s \in Sources : ChangeSource(i, s))
         \/ CopyStep \/ Save \/ UNCHANGED trendVars
BY Zenon DEF TrendNext, LcdStep, CopyStep

LEMMA Typed == TrendTypeOK /\ TrendPlaces /\ [TrendNext]_trendVars => (TrendTypeOK /\ TrendPlaces)'
<1> SUFFICES ASSUME TrendTypeOK, TrendPlaces, [TrendNext]_trendVars
             PROVE  (TrendTypeOK /\ TrendPlaces)'
  OBVIOUS
<1>1. CASE CopyStep
  <2>1. w \in 0 .. Tag
    BY DEF TrendTypeOK
  <2>2. QED BY <1>1, <2>1, CopyCases, WordTyped, LastTyped, Zenon
<1>2. CASE UNCHANGED trendVars
  BY <1>2 DEF TrendTypeOK, TrendPlaces, trendVars, rings, settings, lcd
<1>3. QED BY <1>1, <1>2, Steps, RestartTyped, PointTyped, MenuTyped, ChangeTyped, SaveTyped, Zenon

-----------------------------------------------------------------------------
(* The settings in the registers. *)

\* The registers agree with the trends, but for what the editor has yet to save.
Saved ==
  /\ lpc \in {"conf", "copyin", "edit"} \/ (lpc = "save" /\ k > 0) => bpr.cnt = tr_cnt
  /\ \A i \in Trend :
       lpc \in {"conf", "copyin", "edit"} \/ (lpc = "save" /\ i < k) =>
         bpr.src[i] = trends[i].src

LEMMA InitSaved == TrendInit => Saved
<1> SUFFICES ASSUME TrendInit PROVE Saved
  OBVIOUS
<1>1. bpr \in [cnt : 0 .. MaxCnt, src : [Trend -> Sources]]
  BY DEF TrendInit
<1>2. lpc = "conf" /\ tr_cnt = bpr.cnt /\ trends = [i \in Trend |-> NewTrend(bpr.src[i])]
  BY Zenon DEF TrendInit
<1>3. \A i \in Trend : trends[i].src = bpr.src[i]
  BY <1>1, <1>2, NewTrendFields
<1>4. QED BY <1>2, <1>3 DEF Saved

LEMMA PointSources ==
  ASSUME TrendTypeOK, NEW s \in Sources, NewPoint(s), NEW i \in Trend
  PROVE  trends'[i].src = trends[i].src
<1> DEFINE fed == {j \in Trend : trends[j].src = s}
<1>1. points' = points + 1 /\ points' \in 0 .. MaxPoints
  BY TrendAssumption DEF TrendTypeOK, NewPoint
<1>2. trends' = [j \in Trend |-> IF j \in fed THEN AddPoint(trends[j], points') ELSE trends[j]]
  BY Zenon DEF NewPoint
<1>3. AddPoint(trends[i], points').src = trends[i].src
  BY <1>1, AddPointFields DEF TrendTypeOK
<1> HIDE DEF fed
<1>4. QED BY <1>2, <1>3

LEMMA SavedKept == TrendTypeOK /\ TrendPlaces /\ Saved /\ [TrendNext]_trendVars => Saved'
<1> SUFFICES ASSUME TrendTypeOK, TrendPlaces, Saved, [TrendNext]_trendVars PROVE Saved'
  OBVIOUS
<1>0. /\ trends \in [Trend -> Rings] /\ tr_cnt \in 0 .. MaxCnt /\ k \in 0 .. MaxCnt
      /\ bpr \in [cnt : 0 .. MaxCnt, src : [Trend -> Sources]] /\ w \in 0 .. Tag
  BY DEF TrendTypeOK
<1>1. CASE Restart
  <2>1. lpc' = "conf" /\ tr_cnt' = (IF bpr.cnt > MaxCnt THEN MaxCnt ELSE bpr.cnt) /\ bpr' = bpr
        /\ trends' = [i \in Trend |-> NewTrend(bpr.src[i])]
    BY <1>1, Zenon DEF Restart
  <2>2. \A i \in Trend : trends'[i].src = bpr.src[i]
    BY <1>0, <2>1, NewTrendFields
  <2>3. tr_cnt' = bpr.cnt
    BY <1>0, <2>1, TrendFacts
  <2>4. QED BY <2>1, <2>2, <2>3 DEF Saved
<1>2. ASSUME NEW s \in Sources, NewPoint(s) PROVE Saved'
  <2>1. UNCHANGED <<lpc, k, tr_cnt, bpr>>
    BY <1>2 DEF NewPoint, settings
  <2>2. \A i \in Trend : trends'[i].src = trends[i].src
    BY <1>2, PointSources
  <2>3. QED BY <2>1, <2>2 DEF Saved
<1>3. CASE \/ OpenEditor \/ LeaveEditor \/ SaveEdit
           \/ (\E s \in Sources : Add(s)) \/ (\E i \in Trend : Delete(i))
           \/ (\E i \in Trend, s \in Sources : ChangeSource(i, s))
  <2>1. UNCHANGED <<trends, tr_cnt, bpr>> /\ lpc \in {"conf", "edit"}
    BY <1>3 DEF OpenEditor, LeaveEditor, SaveEdit, Add, Delete, ChangeSource, Visit,
                rings, settings
  <2>2. lpc' # "save"
    BY <1>3 DEF OpenEditor, LeaveEditor, SaveEdit, Add, Delete, ChangeSource, lcd
  <2>3. QED BY <2>1, <2>2 DEF Saved
<1>4. CASE CopyStep
  <2>1. CASE WordStep
    <3>1. UNCHANGED <<lpc, k, tr_cnt, bpr>> /\ lpc \in CopyPc
      BY <2>1 DEF WordStep
    <3>2. lpc = "copyin" => trends' = trends
      BY <2>1 DEF WordStep
    <3>3. QED BY <3>1, <3>2 DEF Saved, CopyPc
  <2>2. CASE LastWord /\ LastIn
    <3>1. /\ lpc = "copyin" /\ lpc' \in {"copyin", "edit"}
          /\ trends' = trends /\ tr_cnt' = tr_cnt /\ bpr' = bpr
      BY <2>2 DEF LastIn, LastWord
    <3>2. QED BY <3>1 DEF Saved
  <2>3. CASE LastOut \/ LastAdded \/ LastMoved
    <3>1. lpc' \in {"copyout", "move"} \/ (lpc' = "save" /\ k' = 0)
      BY <2>3 DEF LastOut, LastAdded, LastMoved
    <3>2. QED BY <3>1, TrendFacts DEF Saved
  <2>4. QED BY <1>0, <1>4, <2>1, <2>2, <2>3, CopyCases
<1>5. CASE Save
  <2>1. /\ lpc = "save" /\ UNCHANGED <<trends, tr_cnt>>
        /\ bpr' = (IF k = 0 THEN [bpr EXCEPT !.cnt = tr_cnt] ELSE [bpr EXCEPT !.src[k] = trends[k].src])
        /\ \/ k < MaxCnt /\ k' = k + 1 /\ lpc' = "save"
           \/ k = MaxCnt /\ k' = 1 /\ lpc' = "conf"
    BY <1>0, <1>5, TrendFacts DEF Save, rings
  <2>2. CASE k = 0
    <3>1. bpr'.cnt = tr_cnt
      BY <1>0, <2>1, <2>2
    <3>2. k' = 1 /\ lpc' = "save"
      BY <2>1, <2>2, TrendFacts
    <3>3. QED BY <2>1, <3>1, <3>2, TrendFacts DEF Saved
  <2>3. CASE k # 0
    <3>1. bpr'.cnt = bpr.cnt /\ bpr'.src = [bpr.src EXCEPT ![k] = trends[k].src]
      BY <1>0, <2>1, <2>3
    <3>2. k \in Trend /\ k > 0
      BY <1>0, <2>3, TrendFacts
    <3>3. bpr.cnt = tr_cnt
      BY <2>1, <3>2 DEF Saved
    <3>4. \A i \in Trend : i <= k => bpr'.src[i] = trends[i].src
      <4> SUFFICES ASSUME NEW i \in Trend, i <= k PROVE bpr'.src[i] = trends[i].src
        OBVIOUS
      <4>1. i < k => bpr.src[i] = trends[i].src
        BY <2>1 DEF Saved
      <4>2. i = k \/ i < k
        BY <3>2, TrendFacts
      <4>3. QED BY <1>0, <3>1, <3>2, <4>1, <4>2
    <3>5. \A i \in Trend : i < k + 1 /\ k + 1 > 0 => i <= k
      BY <3>2, TrendFacts
    <3>6. \A i \in Trend : k = MaxCnt => i <= k
      BY TrendFacts
    <3>7. QED BY <2>1, <3>1, <3>3, <3>4, <3>5, <3>6, <1>0 DEF Saved
  <2>4. QED BY <2>2, <2>3
<1>6. CASE UNCHANGED trendVars
  BY <1>6 DEF Saved, trendVars, rings, settings, lcd
<1>7. QED BY <1>1, <1>2, <1>3, <1>4, <1>5, <1>6, Steps, Zenon

-----------------------------------------------------------------------------
(* What a copy under way has copied so far. *)

Agreed ==
  lpc \in CopyPc =>
    /\ ~hit => \A p \in Slot : p < w => Target.point[p] = Source.point[p]
    /\ w = Tag /\ ~late => Target.first = Source.first /\ Target.cur = Source.cur

LEMMA AgreedAtFirst ==
  ASSUME w = 0 PROVE Agreed
<1>1. w # Tag /\ \A p \in Slot : ~(p < w)
  BY TrendFacts, SlotFacts
<1>2. QED BY <1>1 DEF Agreed

LEMMA AgreedAtNext ==
  ASSUME w' = 0 PROVE Agreed'
<1>1. w' # Tag /\ \A p \in Slot : ~(p < w')
  BY TrendFacts, SlotFacts
<1>2. Tag' = Tag /\ Slot' = Slot
  BY DEF Tag, Slot
<1>3. QED BY <1>1, <1>2 DEF Agreed

LEMMA PointEffect ==
  ASSUME TrendTypeOK, TrendPlaces, NEW s \in Sources, NewPoint(s)
  PROVE  /\ \A i \in Trend : \/ trends'[i] = trends[i] /\ hist'[i] = hist[i]
                             \/ /\ trends[i].src = s
                                /\ trends'[i] = AddPoint(trends[i], points + 1)
                                /\ hist'[i] = WithPoint(hist[i], points + 1)
         /\ ~hit' => ~hit /\ (w > 0 => \A i \in Copying : trends'[i] = trends[i])
         /\ ~late' => ~late /\ (w = Tag => \A i \in Copying : trends'[i] = trends[i])
         /\ UNCHANGED <<tmp_trends, tmpHist, tr_cnt, bpr, tr, lpc, k, w, visits>>
         /\ points + 1 \in 1 .. MaxPoints
<1> DEFINE fed == {i \in Trend : trends[i].src = s}
<1>1. points' = points + 1 /\ points + 1 \in 1 .. MaxPoints
  BY TrendAssumption DEF TrendTypeOK, NewPoint
<1>2. /\ trends' = [i \in Trend |-> IF i \in fed THEN AddPoint(trends[i], points') ELSE trends[i]]
      /\ hist' = [i \in Trend |-> IF i \in fed THEN WithPoint(hist[i], points') ELSE hist[i]]
      /\ hit' = (hit \/ (w > 0 /\ Copying \cap fed # {}))
      /\ late' = (late \/ (w = Tag /\ Copying \cap fed # {}))
  BY Zenon DEF NewPoint
<1>3. UNCHANGED <<tmp_trends, tmpHist, tr_cnt, bpr, tr, lpc, k, w, visits>>
  BY DEF NewPoint, settings
<1>4. \A i \in fed : i \in Trend /\ trends[i].src = s
  OBVIOUS
<1>5. Copying \subseteq Trend
  <2>1. lpc \in CopyPc => k \in Trend
    BY DEF TrendPlaces
  <2>2. QED BY <2>1 DEF Copying, CopyPc
<1> HIDE DEF fed
<1>6. \A i \in Trend : i \notin fed => trends'[i] = trends[i] /\ hist'[i] = hist[i]
  BY <1>2
<1>7. \A i \in Trend : i \in fed => /\ trends'[i] = AddPoint(trends[i], points + 1)
                                    /\ hist'[i] = WithPoint(hist[i], points + 1)
  BY <1>1, <1>2
<1>8. Copying \cap fed = {} => \A i \in Copying : trends'[i] = trends[i]
  BY <1>5, <1>6
<1>9. ~hit' => ~hit /\ (w > 0 => \A i \in Copying : trends'[i] = trends[i])
  BY <1>2, <1>8, Zenon
<1>10. ~late' => ~late /\ (w = Tag => \A i \in Copying : trends'[i] = trends[i])
  BY <1>2, <1>8, Zenon
<1>11. QED BY <1>1, <1>3, <1>4, <1>6, <1>7, <1>9, <1>10, Zenon

\* What the copy reads and writes, when the trends it is about stay as they are.
LEMMA CopyUntouched ==
  ASSUME TrendTypeOK, TrendPlaces, lpc \in CopyPc, UNCHANGED <<tmp_trends, tr, lpc, k>>,
         \A i \in Copying : trends'[i] = trends[i]
  PROVE  Source' = Source /\ Target' = Target
<1>1. k \in Trend /\ (k < MaxCnt => k + 1 \in Trend)
  BY TrendFacts DEF TrendPlaces
<1>2. CASE lpc = "copyin"
  <2>1. trends'[k] = trends[k]
    BY <1>2 DEF Copying
  <2>2. QED BY <1>2, <2>1 DEF Source, Target
<1>3. CASE lpc = "copyout"
  <2>1. trends'[k] = trends[k]
    BY <1>3 DEF Copying
  <2>2. QED BY <1>3, <2>1 DEF Source, Target
<1>4. CASE lpc = "add"
  <2>1. trends'[k] = trends[k]
    BY <1>4 DEF Copying
  <2>2. Source = NewTrend(tr) /\ Source' = NewTrend(tr)
    BY <1>4 DEF Source, NewTrend
  <2>3. Target = trends[k] /\ Target' = trends'[k]
    BY <1>4 DEF Target
  <2>4. QED BY <2>1, <2>2, <2>3
<1>5. CASE lpc = "move"
  <2>1. trends'[k] = trends[k] /\ (k < MaxCnt => trends'[k + 1] = trends[k + 1])
    BY <1>1, <1>5 DEF Copying
  <2>2. /\ Source = IF k < MaxCnt THEN trends[k + 1] ELSE NewTrend(NewSource)
        /\ Source' = IF k < MaxCnt THEN trends'[k + 1] ELSE NewTrend(NewSource)
    BY <1>5 DEF Source, NewTrend
  <2>3. Target = trends[k] /\ Target' = trends'[k]
    BY <1>5 DEF Target
  <2>4. QED BY <2>1, <2>2, <2>3
<1>6. QED BY <1>2, <1>3, <1>4, <1>5 DEF CopyPc

LEMMA AgreedByPoint ==
  ASSUME TrendTypeOK, TrendPlaces, Agreed, NEW s \in Sources, NewPoint(s)
  PROVE  Agreed'
<1>1. /\ ~hit' => ~hit /\ (w > 0 => \A i \in Copying : trends'[i] = trends[i])
      /\ ~late' => ~late /\ (w = Tag => \A i \in Copying : trends'[i] = trends[i])
      /\ UNCHANGED <<tmp_trends, tr, lpc, k, w>>
  BY PointEffect
<1>2. SUFFICES ASSUME lpc \in CopyPc, w # 0
               PROVE  Agreed'
  <2>1. CASE w = 0
    <3>1. w' = 0 /\ \A p \in Slot : ~(p < 0)
      BY <1>1, <2>1, SlotFacts
    <3>2. w' # Tag'
      BY <3>1, TrendFacts DEF Tag
    <3>3. QED BY <3>1, <3>2 DEF Agreed
  <2>2. QED BY <1>1, <1>2, <2>1 DEF Agreed
<1>3. w > 0 /\ Tag' = Tag /\ Slot' = Slot
  BY <1>2 DEF TrendTypeOK, Tag, Slot
<1>4. (\A i \in Copying : trends'[i] = trends[i]) => Source' = Source /\ Target' = Target
  BY <1>1, <1>2, CopyUntouched
<1>5. ~hit' => \A p \in Slot : p < w => Target'.point[p] = Source'.point[p]
  BY <1>1, <1>2, <1>3, <1>4, Zenon DEF Agreed
<1>6. w = Tag /\ ~late' => Target'.first = Source'.first /\ Target'.cur = Source'.cur
  BY <1>1, <1>2, <1>4, Zenon DEF Agreed
<1>7. QED BY <1>1, <1>3, <1>5, <1>6, Zenon DEF Agreed

LEMMA AgreedByWord ==
  ASSUME TrendTypeOK, TrendPlaces, Agreed, WordStep
  PROVE  Agreed'
<1>1. /\ lpc \in CopyPc /\ w < Tag /\ w' = w + 1 /\ UNCHANGED <<lpc, k, hit, late, tr>>
      /\ w \in 0 .. Tag
  BY DEF WordStep, TrendTypeOK
<1>2. Source \in Rings /\ Target \in Rings /\ k \in Trend
  BY <1>1, SourceTyped
<1>3. Target' = CopyWord(Target, Source, w)
  <2>1. trends \in [Trend -> Rings] /\ tmp_trends \in [Trend -> Rings]
    BY DEF TrendTypeOK
  <2>2. Target' = IF lpc = "copyin" THEN tmp_trends'[k] ELSE trends'[k]
    BY <1>1 DEF Target
  <2>3. CASE lpc = "copyin"
    <3>1. tmp_trends' = [tmp_trends EXCEPT ![k] = CopyWord(Target, Source, w)]
      BY <2>3, Zenon DEF WordStep
    <3>2. QED BY <1>2, <2>1, <2>2, <2>3, <3>1
  <2>4. CASE lpc # "copyin"
    <3>1. trends' = [trends EXCEPT ![k] = CopyWord(Target, Source, w)]
      BY <2>4, Zenon DEF WordStep
    <3>2. QED BY <1>2, <2>1, <2>2, <2>4, <3>1
  <2>5. QED BY <2>3, <2>4
<1>4. Source' = Source
  <2>1. trends \in [Trend -> Rings] /\ tmp_trends \in [Trend -> Rings]
    BY DEF TrendTypeOK
  <2>2. CASE lpc = "copyin"
    BY <1>1, <2>2 DEF Source, WordStep
  <2>3. CASE lpc = "copyout"
    BY <1>1, <2>3 DEF Source, WordStep
  <2>4. CASE lpc = "add"
    BY <1>1, <2>4 DEF Source, NewTrend
  <2>5. CASE lpc = "move"
    <3>1. trends' = [trends EXCEPT ![k] = CopyWord(Target, Source, w)]
      BY <2>5, "move" # "copyin", Zenon DEF WordStep
    <3>2. k < MaxCnt => k + 1 \in Trend /\ k + 1 # k
      BY <1>2, TrendFacts
    <3>3. k < MaxCnt => trends'[k + 1] = trends[k + 1]
      BY <2>1, <3>1, <3>2
    <3>4. /\ Source = IF k < MaxCnt THEN trends[k + 1] ELSE NewTrend(NewSource)
          /\ Source' = IF k < MaxCnt THEN trends'[k + 1] ELSE NewTrend(NewSource)
      BY <1>1, <2>5 DEF Source, NewTrend
    <3>5. QED BY <3>3, <3>4
  <2>6. QED BY <1>1, <2>2, <2>3, <2>4, <2>5 DEF CopyPc
<1>5. ~hit => \A p \in Slot : p < w => Target.point[p] = Source.point[p]
  BY <1>1 DEF Agreed
<1>6. ~hit => \A p \in Slot : p < w + 1 => Target'.point[p] = Source.point[p]
  <2> SUFFICES ASSUME ~hit, NEW p \in Slot, p < w + 1
               PROVE  Target'.point[p] = Source.point[p]
    OBVIOUS
  <2>1. Target.point \in [Slot -> 0 .. MaxPoints] /\ Source.point \in [Slot -> 0 .. MaxPoints]
    BY <1>2, RingFields
  <2>2. CASE w \in Slot
    <3>1. Target'.point = [Target.point EXCEPT ![w] = Source.point[w]]
      BY <1>2, <1>3, <2>2, PointCopied
    <3>2. p = w \/ p < w
      BY <1>1, SlotFacts
    <3>3. QED BY <1>5, <2>1, <3>1, <3>2
  <2>3. CASE w \notin Slot
    <3>1. w = Indices
      BY <1>1, <2>3, TrendFacts DEF Indices, Slot
    <3>2. Target'.point = Target.point
      BY <1>2, <1>3, <3>1, IndicesCopied
    <3>3. p < w
      BY <3>1, SlotFacts DEF Indices
    <3>4. QED BY <1>5, <3>2, <3>3
  <2>4. QED BY <2>2, <2>3
<1>7. w + 1 = Tag => Target'.first = Source.first /\ Target'.cur = Source.cur
  <2>1. w + 1 = Tag => w = Indices
    BY <1>1, TrendFacts DEF Indices
  <2>2. QED BY <1>2, <1>3, <2>1, IndicesCopied
<1>8. Slot' = Slot /\ Tag' = Tag
  BY DEF Slot, Tag
<1>9. QED BY <1>1, <1>4, <1>6, <1>7, <1>8 DEF Agreed

-----------------------------------------------------------------------------
(* Every ring shows what it should, but the one that is being written. *)

\* A trend of the editor that counts: copied in, and not yet copied out.
Held(i) ==
  \/ lpc = "edit"
  \/ lpc = "copyin" /\ i < k
  \/ lpc = "copyout" /\ i >= k

AllKept ==
  \A i \in Trend : /\ ~BeingWritten(i) => Kept(trends[i], hist[i])
                   /\ Held(i) => Kept(tmp_trends[i], tmpHist[i])

LEMMA NewKept == ASSUME NEW s \in Sources PROVE Kept(NewTrend(s), NewHist)
<1>1. Sure(NewHist) = 0
  BY NewHistFields DEF Sure
<1>2. InPhase(NewTrend(s))
  BY NewTrendFields DEF InPhase
<1>3. Behind(NewTrend(s), NewHist)
  BY <1>1, NewHistFields DEF Behind
<1>4. Whole(NewTrend(s), NewHist)
  BY NewTrendFields, NewHistFields DEF Whole
<1>5. QED BY <1>2, <1>3, <1>4, NewHistFields DEF Kept

\* A trend that another is copied from word by word keeps what that one kept,
\* but for what the interrupt did to it meanwhile.
LEMMA CopyKeeps ==
  ASSUME NEW t \in Rings, NEW s \in Rings, NEW h \in Hist, Kept(s, h),
         hit \in BOOLEAN, late \in BOOLEAN, late => hit,
         ~hit => \A p \in Slot : t.point[p] = s.point[p],
         ~late => t.first = s.first /\ t.cur = s.cur
  PROVE  Kept(CopyWord(t, s, Tag), Copied(h))
<1> DEFINE u == CopyWord(t, s, Tag)
           g == Copied(h)
<1>1. u.point = t.point /\ u.first = t.first /\ u.cur = t.cur /\ u.full = s.full
  BY TagCopied
<1>2. /\ g.recent = h.recent /\ g.heals = IF hit THEN Size ELSE h.heals
      /\ g.slipped <=> h.slipped \/ late
  BY CopiedFields
<1>3. /\ t.point \in [Slot -> 0 .. MaxPoints] /\ s.point \in [Slot -> 0 .. MaxPoints]
      /\ s.cur \in Slot /\ h.heals \in 0 .. Size /\ Len(h.recent) \in 0 .. Size - 1
  BY RingFields, HistFields
<1> HIDE DEF u, g
<1> SUFFICES ASSUME ~h.slipped, ~late PROVE Kept(u, g)
  BY <1>2 DEF Kept, u, g
<1>4. /\ InPhase(s) /\ Behind(s, h) /\ (h.heals = 0 => Whole(s, h))
      /\ (h.heals > 0 /\ ~s.full => Sure(h) <= s.cur)
  BY DEF Kept
<1>5. InPhase(u)
  BY <1>1, <1>4 DEF InPhase
<1>6. CASE hit
  <2>1. g.heals = Size /\ Size > 0
    BY <1>2, <1>6, TrendFacts
  <2>2. Sure(g) = 0
    BY <2>1, TrendFacts DEF Sure
  <2>3. Behind(u, g)
    BY <1>2, <1>3, <2>2 DEF Behind
  <2>4. Sure(g) <= u.cur
    BY <1>1, <1>3, <2>2, SlotFacts
  <2>5. QED BY <1>5, <2>1, <2>3, <2>4 DEF Kept
<1>7. CASE ~hit
  <2>1. u.point = s.point
    BY <1>1, <1>3, <1>7
  <2>2. g.heals = h.heals /\ Sure(g) = Sure(h)
    BY <1>2, <1>7 DEF Sure
  <2>3. Behind(u, g)
    BY <1>1, <1>2, <1>4, <2>1, <2>2 DEF Behind
  <2>4. h.heals = 0 => Whole(u, g)
    BY <1>1, <1>2, <1>4, <2>1 DEF Whole
  <2>5. QED BY <1>1, <1>4, <1>5, <2>2, <2>3, <2>4 DEF Kept
<1>8. QED BY <1>6, <1>7

LEMMA InitKept == TrendInit => AllKept
<1> SUFFICES ASSUME TrendInit PROVE AllKept
  OBVIOUS
<1>1. \A i \in Trend : bpr.src[i] \in Sources
  BY DEF TrendInit
<1>2. \A i \in Trend : trends[i] = NewTrend(bpr.src[i]) /\ hist[i] = NewHist
  BY DEF TrendInit
<1>3. \A i \in Trend : Kept(trends[i], hist[i])
  BY <1>1, <1>2, NewKept
<1>4. \A i \in Trend : ~Held(i)
  BY DEF TrendInit, Held
<1>5. QED BY <1>3, <1>4 DEF AllKept

LEMMA KeptByRestart == ASSUME TrendTypeOK, Restart PROVE AllKept'
<1>1. \A i \in Trend : bpr.src[i] \in Sources
  BY DEF TrendTypeOK
<1>2. \A i \in Trend : trends'[i] = NewTrend(bpr.src[i]) /\ hist'[i] = NewHist
  BY DEF Restart
<1>3. \A i \in Trend : Kept(trends'[i], hist'[i])
  BY <1>1, <1>2, NewKept
<1>4. \A i \in Trend : ~Held(i)'
  BY DEF Restart, Held
<1>5. QED BY <1>3, <1>4 DEF AllKept

LEMMA KeptByNewPoint ==
  ASSUME TrendTypeOK, TrendPlaces, AllKept, NEW s \in Sources, NewPoint(s)
  PROVE  AllKept'
<1>1. /\ \A i \in Trend : \/ trends'[i] = trends[i] /\ hist'[i] = hist[i]
                          \/ /\ trends'[i] = AddPoint(trends[i], points + 1)
                             /\ hist'[i] = WithPoint(hist[i], points + 1)
      /\ UNCHANGED <<tmp_trends, tmpHist, lpc, k, w>>
      /\ points + 1 \in 1 .. MaxPoints
  BY PointEffect
<1>2. \A i \in Trend : trends[i] \in Rings /\ hist[i] \in Hist
  BY DEF TrendTypeOK
<1>3. \A i \in Trend : Kept(trends[i], hist[i]) => Kept(trends'[i], hist'[i])
  BY <1>1, <1>2, KeptByPoint
<1>4. \A i \in Trend : (BeingWritten(i)' <=> BeingWritten(i)) /\ (Held(i)' <=> Held(i))
  BY <1>1 DEF BeingWritten, Held
<1>5. QED BY <1>1, <1>3, <1>4 DEF AllKept

LEMMA KeptByMenu ==
  ASSUME TrendPlaces, AllKept,
         \/ OpenEditor \/ LeaveEditor \/ SaveEdit \/ (\E s \in Sources : Add(s))
         \/ (\E i \in Trend : Delete(i))
  PROVE  AllKept'
<1>1. UNCHANGED <<trends, tmp_trends, hist, tmpHist, w>> /\ lpc \in {"conf", "edit"}
  BY DEF OpenEditor, LeaveEditor, SaveEdit, Add, Delete, Visit, rings
<1>2. w = 0
  BY <1>1 DEF TrendPlaces, CopyPc
<1>3. lpc' # "edit" /\ (lpc' = "copyin" => k' = 1) /\ (lpc' = "copyout" => lpc = "edit")
  BY DEF OpenEditor, LeaveEditor, SaveEdit, Add, Delete, Visit
<1>4. \A i \in Trend : ~(i < 1)
  BY TrendFacts
<1>5. \A i \in Trend : Held(i)' => Held(i)
  BY <1>3, <1>4 DEF Held
<1>6. \A i \in Trend : ~BeingWritten(i)
  BY <1>2 DEF BeingWritten
<1>7. QED BY <1>1, <1>5, <1>6 DEF AllKept

LEMMA KeptByChange ==
  ASSUME TrendTypeOK, AllKept, NEW n \in Trend, NEW s \in Sources, ChangeSource(n, s)
  PROVE  AllKept'
<1>1. UNCHANGED <<trends, hist, tmpHist, lpc, k, w>>
  BY DEF ChangeSource, lcd
<1>2. tmp_trends' = [tmp_trends EXCEPT ![n].src = s] /\ tmp_trends \in [Trend -> Rings]
  BY DEF ChangeSource, TrendTypeOK
<1>3. \A i \in Trend : /\ tmp_trends'[i].point = tmp_trends[i].point
                       /\ tmp_trends'[i].first = tmp_trends[i].first
                       /\ tmp_trends'[i].cur = tmp_trends[i].cur
                       /\ tmp_trends'[i].full = tmp_trends[i].full
  <2> SUFFICES ASSUME NEW i \in Trend
               PROVE  /\ tmp_trends'[i].point = tmp_trends[i].point
                      /\ tmp_trends'[i].first = tmp_trends[i].first
                      /\ tmp_trends'[i].cur = tmp_trends[i].cur
                      /\ tmp_trends'[i].full = tmp_trends[i].full
    OBVIOUS
  <2>1. tmp_trends'[i] = IF i = n THEN [tmp_trends[n] EXCEPT !.src = s] ELSE tmp_trends[i]
    BY <1>2
  <2>2. tmp_trends[n] \in Rings
    BY <1>2
  <2>3. QED BY <2>1, <2>2 DEF Rings
<1>4. \A i \in Trend : Kept(tmp_trends[i], tmpHist[i]) => Kept(tmp_trends'[i], tmpHist[i])
  BY <1>3 DEF Kept, InPhase, Behind, Whole
<1>5. \A i \in Trend : (BeingWritten(i)' <=> BeingWritten(i)) /\ (Held(i)' <=> Held(i))
  BY <1>1 DEF BeingWritten, Held
<1>6. QED BY <1>1, <1>4, <1>5 DEF AllKept

LEMMA KeptByWord ==
  ASSUME TrendTypeOK, TrendPlaces, AllKept, WordStep
  PROVE  AllKept'
<1>1. /\ lpc \in CopyPc /\ w' = w + 1 /\ w \in 0 .. Tag /\ k \in Trend
      /\ UNCHANGED <<lpc, k, hist, tmpHist>>
  BY DEF WordStep, TrendTypeOK, TrendPlaces
<1>2. trends \in [Trend -> Rings] /\ tmp_trends \in [Trend -> Rings]
  BY DEF TrendTypeOK
<1>3. w' > 0 /\ \A i \in Trend : ~(k < k) /\ i \in Nat
  BY <1>1, TrendFacts
<1>4. CASE lpc = "copyin"
  <2>1. tmp_trends' = [tmp_trends EXCEPT ![k] = CopyWord(Target, Source, w)] /\ trends' = trends
    BY <1>4, Zenon DEF WordStep
  <2>2. \A i \in Trend : Held(i)' => i # k /\ Held(i)
    BY <1>1, <1>3, <1>4 DEF Held
  <2>3. \A i \in Trend : i # k => tmp_trends'[i] = tmp_trends[i]
    BY <1>2, <2>1
  <2>4. \A i \in Trend : ~BeingWritten(i)
    BY <1>4 DEF BeingWritten
  <2>5. QED BY <1>1, <2>1, <2>2, <2>3, <2>4 DEF AllKept
<1>5. CASE lpc # "copyin"
  <2>1. trends' = [trends EXCEPT ![k] = CopyWord(Target, Source, w)] /\ tmp_trends' = tmp_trends
    BY <1>5, Zenon DEF WordStep
  <2>2. \A i \in Trend : ~BeingWritten(i)' => i # k /\ ~BeingWritten(i)
    BY <1>1, <1>3, <1>5 DEF BeingWritten, CopyPc
  <2>3. \A i \in Trend : i # k => trends'[i] = trends[i]
    BY <1>2, <2>1
  <2>4. \A i \in Trend : Held(i)' <=> Held(i)
    BY <1>1 DEF Held
  <2>5. QED BY <1>1, <2>1, <2>2, <2>3, <2>4 DEF AllKept
<1>6. QED BY <1>4, <1>5

LEMMA KeptByLast ==
  ASSUME TrendTypeOK, TrendPlaces, Agreed, AllKept, LastWord,
         LastIn \/ LastOut \/ LastAdded \/ LastMoved
  PROVE  AllKept'
<1>1. lpc \in CopyPc /\ w = Tag /\ w' = 0
  BY DEF LastWord, LastIn, LastOut, LastAdded, LastMoved, CopyPc
<1>2. Source \in Rings /\ Target \in Rings /\ k \in Trend
  BY <1>1, SourceTyped
<1>3. hit \in BOOLEAN /\ late \in BOOLEAN /\ (late => hit)
  BY DEF TrendTypeOK, TrendPlaces
<1>4. ~hit => \A p \in Slot : Target.point[p] = Source.point[p]
  <2>1. \A p \in Slot : p < w
    BY <1>1, SlotFacts, TrendFacts
  <2>2. QED BY <1>1, <2>1 DEF Agreed
<1>5. ~late => Target.first = Source.first /\ Target.cur = Source.cur
  BY <1>1 DEF Agreed
<1> DEFINE new == CopyWord(Target, Source, Tag)
<1>6. \A h \in Hist : Kept(Source, h) => Kept(new, Copied(h))
  BY <1>2, <1>3, <1>4, <1>5, CopyKeeps
<1>7. /\ trends \in [Trend -> Rings] /\ tmp_trends \in [Trend -> Rings]
      /\ hist \in [Trend -> Hist] /\ tmpHist \in [Trend -> Hist]
      /\ tr \in Sources /\ NewSource \in Sources
  BY TrendAssumption DEF TrendTypeOK
<1>8. \A i \in Trend : ~BeingWritten(i)'
  BY <1>1 DEF BeingWritten
<1>9. k < MaxCnt => k + 1 \in Trend /\ k + 1 # k
  BY <1>2, TrendFacts
<1> HIDE DEF new
<1>10. CASE LastIn
  <2>1. /\ lpc = "copyin" /\ tmp_trends' = [tmp_trends EXCEPT ![k] = new]
        /\ tmpHist' = [tmpHist EXCEPT ![k] = Copied(hist[k])]
        /\ UNCHANGED <<trends, hist>>
    BY <1>10, Zenon DEF LastIn, new
  <2>2. \A i \in Trend : Kept(trends[i], hist[i])
    BY <2>1 DEF AllKept, BeingWritten
  <2>3. Source = trends[k]
    BY <2>1 DEF Source
  <2>4. Kept(new, Copied(hist[k]))
    BY <1>2, <1>6, <1>7, <2>2, <2>3
  <2>5. \A i \in Trend : Held(i)' => i = k \/ Held(i)
    <3>1. (lpc' = "copyin" /\ k' = k + 1) \/ (lpc' = "edit" /\ ~(k < MaxCnt))
      BY <1>10, Zenon DEF LastIn
    <3>2. \A i \in Trend : (i < k + 1 => i = k \/ i < k) /\ (~(k < MaxCnt) => i = k \/ i < k)
      BY <1>2, TrendFacts
    <3>3. QED BY <2>1, <3>1, <3>2 DEF Held
  <2>6. \A i \in Trend : Held(i)' => Kept(tmp_trends'[i], tmpHist'[i])
    <3> SUFFICES ASSUME NEW i \in Trend, Held(i)' PROVE Kept(tmp_trends'[i], tmpHist'[i])
      OBVIOUS
    <3>1. CASE i = k
      <4>1. tmp_trends'[i] = new /\ tmpHist'[i] = Copied(hist[k])
        BY <1>7, <2>1, <3>1
      <4>2. QED BY <2>4, <4>1
    <3>2. CASE i # k
      <4>1. tmp_trends'[i] = tmp_trends[i] /\ tmpHist'[i] = tmpHist[i]
        BY <1>7, <2>1, <3>2
      <4>2. QED BY <2>5, <3>2, <4>1 DEF AllKept
    <3>3. QED BY <3>1, <3>2
  <2>7. QED BY <2>1, <2>2, <2>6 DEF AllKept
<1>11. ASSUME NEW h \in Hist, Kept(Source, h),
              trends' = [trends EXCEPT ![k] = new], hist' = [hist EXCEPT ![k] = Copied(h)],
              lpc \in {"copyout", "add", "move"}
       PROVE  \A i \in Trend : Kept(trends'[i], hist'[i])
  <2> SUFFICES ASSUME NEW i \in Trend PROVE Kept(trends'[i], hist'[i])
    OBVIOUS
  <2>1. CASE i = k
    <3>1. trends'[i] = new /\ hist'[i] = Copied(h)
      BY <1>7, <1>11, <2>1
    <3>2. QED BY <1>6, <1>11, <3>1
  <2>2. CASE i # k
    <3>1. trends'[i] = trends[i] /\ hist'[i] = hist[i]
      BY <1>7, <1>11, <2>2
    <3>2. ~BeingWritten(i)
      BY <2>2 DEF BeingWritten
    <3>3. QED BY <3>1, <3>2 DEF AllKept
  <2>3. QED BY <2>1, <2>2
<1>12. CASE LastOut
  <2>1. /\ lpc = "copyout" /\ trends' = [trends EXCEPT ![k] = new]
        /\ hist' = [hist EXCEPT ![k] = Copied(tmpHist[k])]
        /\ tmp_trends' = [tmp_trends EXCEPT ![k].point = [p \in Slot |-> Blank]]
        /\ tmpHist' = tmpHist
        /\ (k < MaxCnt /\ lpc' = "copyout" /\ k' = k + 1) \/ lpc' = "save"
    BY <1>12, Zenon DEF LastOut, new
  <2>2. Source = tmp_trends[k]
    BY <2>1 DEF Source
  <2>3. Held(k)
    BY <1>2, <2>1, TrendFacts DEF Held
  <2>4. Kept(Source, tmpHist[k]) /\ tmpHist[k] \in Hist
    BY <1>2, <1>7, <2>2, <2>3 DEF AllKept
  <2>5. \A i \in Trend : Kept(trends'[i], hist'[i])
    BY <1>11, <2>1, <2>4
  <2>6. \A i \in Trend : Held(i)' => i # k /\ Held(i)
    <3>1. \A i \in Trend : i >= k + 1 => i # k /\ i >= k
      BY <1>2, TrendFacts
    <3>2. QED BY <2>1, <3>1 DEF Held
  <2>7. \A i \in Trend : i # k => tmp_trends'[i] = tmp_trends[i]
    BY <1>7, <2>1
  <2>8. QED BY <2>1, <2>5, <2>6, <2>7 DEF AllKept
<1>13. CASE LastAdded
  <2>1. /\ lpc = "add" /\ trends' = [trends EXCEPT ![k] = new]
        /\ hist' = [hist EXCEPT ![k] = Copied(NewHist)] /\ lpc' = "save"
    BY <1>13, Zenon DEF LastAdded, new
  <2>2. Source = NewTrend(tr)
    BY <2>1 DEF Source
  <2>3. Kept(Source, NewHist) /\ NewHist \in Hist
    BY <1>7, <2>2, NewKept, NewHistFields
  <2>4. \A i \in Trend : Kept(trends'[i], hist'[i])
    BY <1>11, <2>1, <2>3
  <2>5. \A i \in Trend : ~Held(i)'
    BY <2>1 DEF Held
  <2>6. QED BY <2>4, <2>5 DEF AllKept
<1>14. CASE LastMoved
  <2> DEFINE becomes == IF k < MaxCnt THEN hist[k + 1] ELSE NewHist
  <2>1. /\ lpc = "move" /\ trends' = [trends EXCEPT ![k] = new]
        /\ hist' = [hist EXCEPT ![k] = Copied(becomes)] /\ lpc' \in {"move", "save"}
    BY <1>14, Zenon DEF LastMoved, new
  <2>2. Source = IF k < MaxCnt THEN trends[k + 1] ELSE NewTrend(NewSource)
    BY <2>1 DEF Source
  <2>3. Kept(Source, becomes) /\ becomes \in Hist
    <3>1. CASE k < MaxCnt
      <4>1. ~BeingWritten(k + 1)
        BY <1>9, <3>1 DEF BeingWritten
      <4>2. QED BY <1>7, <1>9, <2>2, <3>1, <4>1 DEF AllKept
    <3>2. CASE ~(k < MaxCnt)
      BY <1>7, <2>2, <3>2, NewKept, NewHistFields
    <3>3. QED BY <3>1, <3>2
  <2> HIDE DEF becomes
  <2>4. \A i \in Trend : Kept(trends'[i], hist'[i])
    BY <1>11, <2>1, <2>3
  <2>5. \A i \in Trend : ~Held(i)'
    BY <2>1 DEF Held
  <2>6. QED BY <2>4, <2>5 DEF AllKept
<1>15. QED BY <1>10, <1>12, <1>13, <1>14

-----------------------------------------------------------------------------

TrendInv == TrendTypeOK /\ TrendPlaces /\ Saved /\ Agreed /\ AllKept

LEMMA TrendInductive == TrendSpec => []TrendInv
<1>1. TrendInit => TrendInv
  <2>1. TrendInit => Agreed
    BY AgreedAtFirst DEF TrendInit
  <2>2. QED BY <2>1, InitTyped, InitSaved, InitKept DEF TrendInv
<1>2. TrendInv /\ [TrendNext]_trendVars => TrendInv'
  <2> SUFFICES ASSUME TrendInv, [TrendNext]_trendVars PROVE TrendInv'
    OBVIOUS
  <2> USE DEF TrendInv
  <2>1. (TrendTypeOK /\ TrendPlaces)' /\ Saved'
    BY Typed, SavedKept
  <2>2. Agreed' /\ AllKept'
    <3>1. CASE Restart
      <4>1. w' = 0
        BY <3>1 DEF Restart
      <4>2. Agreed'
        BY <4>1, AgreedAtNext
      <4>3. QED BY <3>1, <4>2, KeptByRestart
    <3>2. ASSUME NEW s \in Sources, NewPoint(s) PROVE Agreed' /\ AllKept'
      BY <3>2, AgreedByPoint, KeptByNewPoint
    <3>3. CASE \/ OpenEditor \/ LeaveEditor \/ SaveEdit
               \/ (\E s \in Sources : Add(s)) \/ (\E i \in Trend : Delete(i))
      <4>1. w' = w /\ lpc \notin CopyPc
        BY <3>3 DEF OpenEditor, LeaveEditor, SaveEdit, Add, Delete, Visit, CopyPc
      <4>2. w' = 0
        BY <4>1 DEF TrendPlaces
      <4>3. Agreed'
        BY <4>2, AgreedAtNext
      <4>4. QED BY <3>3, <4>3, KeptByMenu
    <3>4. ASSUME NEW i \in Trend, NEW s \in Sources, ChangeSource(i, s)
          PROVE  Agreed' /\ AllKept'
      <4>1. lpc' \notin CopyPc
        BY <3>4 DEF ChangeSource, lcd, CopyPc
      <4>2. QED BY <3>4, <4>1, KeptByChange DEF Agreed, CopyPc
    <3>5. CASE CopyStep
      <4>1. CASE WordStep
        BY <4>1, AgreedByWord, KeptByWord
      <4>2. CASE LastWord /\ (LastIn \/ LastOut \/ LastAdded \/ LastMoved)
        <5>1. w' = 0
          BY <4>2 DEF LastWord
        <5>2. Agreed'
          BY <5>1, AgreedAtNext
        <5>3. QED BY <4>2, <5>2, KeptByLast
      <4>3. w \in 0 .. Tag
        BY DEF TrendTypeOK
      <4>4. QED BY <3>5, <4>1, <4>2, <4>3, CopyCases
    <3>6. CASE Save
      <4>1. /\ lpc \notin CopyPc /\ lpc' \notin CopyPc
            /\ lpc' \in {"save", "conf"} /\ UNCHANGED <<rings, w>>
        BY <3>6 DEF Save, CopyPc
      <4>2. w = 0 /\ w' = 0
        BY <4>1 DEF TrendPlaces
      <4>3. \A i \in Trend : ~BeingWritten(i) /\ ~Held(i)'
        BY <4>1, <4>2 DEF BeingWritten, Held
      <4>4. AllKept'
        BY <4>1, <4>3 DEF AllKept, rings
      <4>5. QED BY <4>1, <4>4 DEF Agreed, CopyPc
    <3>7. CASE UNCHANGED trendVars
      <4>1. Agreed'
        BY <3>7 DEF Agreed, Source, Target, NewTrend, CopyPc, trendVars, rings, settings, lcd
      <4>2. AllKept'
        BY <3>7 DEF AllKept, BeingWritten, Held, trendVars, rings, settings, lcd
      <4>3. QED BY <4>1, <4>2
    <3>8. QED BY <3>1, <3>2, <3>3, <3>4, <3>5, <3>6, <3>7, Steps, Zenon
  <2>3. QED BY <2>1, <2>2
<1>3. QED BY <1>1, <1>2, PTL DEF TrendSpec

\* No index ever leaves its ring, whatever a torn copy put together, and the list
\* and the words of a copy stay within the trends.
THEOREM TrendTypes == TrendSpec => []TrendTypeOK
<1>1. TrendInv => TrendTypeOK
  BY DEF TrendInv
<1>2. QED BY <1>1, TrendInductive, PTL

\* The indices of a ring keep their distance, but for an interrupt between the
\* last two words of a copy.
THEOREM RingsKeepPhase == TrendSpec => []PhaseIsKept
<1>1. TrendInv => PhaseIsKept
  BY DEF TrendInv, AllKept, Kept, InPhase, PhaseIsKept
<1>2. QED BY <1>1, TrendInductive, PTL

\* Every trend shows its last points in their order, whatever the menus copied
\* and the interrupt fell into, once the ring has been written round.
THEOREM TrendsShowTheirPoints == TrendSpec => []PointsAreKept
<1>1. TrendInv => PointsAreKept
  <2> SUFFICES ASSUME TrendInv, NEW i \in Trend,
                      hist[i].heals = 0, ~hist[i].slipped, ~BeingWritten(i)
               PROVE  Shown(trends[i]) = hist[i].recent
    BY DEF PointsAreKept
  <2>1. trends[i] \in Rings /\ hist[i] \in Hist
    BY DEF TrendInv, TrendTypeOK
  <2>2. Kept(trends[i], hist[i])
    BY DEF TrendInv, AllKept
  <2>3. QED BY <2>1, <2>2, ShownIsRecent
<1>2. QED BY <1>1, TrendInductive, PTL

\* The registers hold the list of trends whenever no menu is writing it, and as
\* much of it as has been saved when one is: a restart finds that.
THEOREM TrendsSurviveRestart == TrendSpec => BootKeepsTrends
<1> DEFINE Found == /\ Settled \/ (lpc = "save" /\ k > 0) => tr_cnt' = tr_cnt
                    /\ \A i \in Trend : Settled \/ (lpc = "save" /\ i < k)
                                          => trends'[i].src = trends[i].src
<1>1. TrendInv /\ [TrendNext]_trendVars => [Restart => Found]_trendVars
  <2> SUFFICES ASSUME TrendInv, Restart PROVE Found
    OBVIOUS
  <2>1. /\ Settled \/ (lpc = "save" /\ k > 0) => bpr.cnt = tr_cnt
        /\ \A i \in Trend : Settled \/ (lpc = "save" /\ i < k) => bpr.src[i] = trends[i].src
    BY DEF TrendInv, Saved, Settled
  <2>2. bpr \in [cnt : 0 .. MaxCnt, src : [Trend -> Sources]]
    BY DEF TrendInv, TrendTypeOK
  <2>3. /\ tr_cnt' = IF bpr.cnt > MaxCnt THEN MaxCnt ELSE bpr.cnt
        /\ trends' = [i \in Trend |-> NewTrend(bpr.src[i])]
    BY Zenon DEF Restart
  <2>4. tr_cnt' = bpr.cnt
    BY <2>2, <2>3, TrendFacts
  <2>5. \A i \in Trend : trends'[i].src = bpr.src[i]
    BY <2>2, <2>3, NewTrendFields
  <2>6. QED BY <2>1, <2>4, <2>5
<1>2. QED BY <1>1, TrendInductive, PTL DEF TrendSpec, BootKeepsTrends
=============================================================================
