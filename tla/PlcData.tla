------------------------------ MODULE PlcData ------------------------------
(***************************************************************************)
(* The display's mirror of the PLC's cluster and network bits and          *)
(* registers (plc_data.c, can.c, can_cmd.c, menu.c).  Each variable is     *)
(* kept twice, in the structure cl and in an array of its own (plc_...),   *)
(* and three parties assign the two copies one after the other:            *)
(*   - the receive interrupt, from an event frame, never interrupted;      *)
(*   - the LCD task, from the operator's value, which it then sends;       *)
(*   - the network task, which clears everything when the link is lost.    *)
(*                                                                         *)
(* The four arrays stand one behind the other: cluster bits, cluster       *)
(* registers, network bits, network registers, in the order in which       *)
(* reset_plc_data clears them.  A value is a low and a high byte; a frame  *)
(* carries some values from one address on.  Frames go to other displays   *)
(* on the bus as well as to the PLC.  The PLC numbers its variables as     *)
(* can_cmd.c does; when the link is lost is CanLink's matter.              *)
(***************************************************************************)
EXTENDS Integers

CONSTANTS
  ClustBits, ClustRegs, NetBits, NetRegs,  \* lengths of the arrays
  Clusters,   \* cluster addresses on the bus
  Bytes,      \* values of a byte
  Width       \* bits in a bit frame (8)

ASSUME DataAssumption ==
  /\ ClustBits \in Nat /\ ClustRegs \in Nat /\ NetBits \in Nat /\ NetRegs \in Nat
  /\ Clusters \subseteq 0 .. 7 /\ Clusters # {}
  /\ {0, 1} \subseteq Bytes /\ Bytes \subseteq 0 .. 255
  /\ Width \in 1 .. 8

\* The numbers that can_cmd.c gives the variables fit the address byte.
ASSUME AddressAssumption ==
  /\ ClustBits <= 240 /\ ClustRegs <= 239
  /\ NetBits <= 256 /\ NetRegs <= 256

VARIABLES
  cl, plc,                     \* the two copies
  plc_can_link, cluster_addr,
  wpc, wx, wv,                 \* write_var_to_plc: next statement, variable, value
  id_clust, addr, low,         \* the packet it puts together
  sent,                        \* the frame the last write queued
  at, half,                    \* reset_plc_data: variable, is its first copy done?
  \* history
  crossed,   \* variables whose copies two parties were assigning at once
  overrun,   \* has another party assigned wx before the operator's value was packed?
  moved,     \* did cluster_addr change between the packet's id and its address?
  touched    \* variables assigned since the link was lost last

copies == <<cl, plc>>
link == <<plc_can_link, cluster_addr>>
write == <<wpc, wx, wv, id_clust, addr, low, sent>>
reset == <<at, half>>
vars == <<copies, link, write, reset, crossed, overrun, moved, touched>>

Kinds == {"clust_bit", "clust_reg", "net_bit", "net_reg"}
IsBit(k) == k \in {"clust_bit", "net_bit"}
IsNet(k) == k \in {"net_bit", "net_reg"}

Count(k) == CASE k = "clust_bit" -> ClustBits
              [] k = "clust_reg" -> ClustRegs
              [] k = "net_bit"   -> NetBits
              [] k = "net_reg"   -> NetRegs

Start(k) == CASE k = "clust_bit" -> 0
              [] k = "clust_reg" -> ClustBits
              [] k = "net_bit"   -> ClustBits + ClustRegs
              [] k = "net_reg"   -> ClustBits + ClustRegs + NetBits

VarCnt == ClustBits + ClustRegs + NetBits + NetRegs
Vars == 0 .. VarCnt - 1
KindOf(x) == CHOOSE k \in Kinds : Start(k) <= x /\ x < Start(k) + Count(k)

Value == [lo : Bytes, hi : Bytes]
Zero == [lo |-> 0, hi |-> 0]
BitValue == {Zero, [lo |-> 1, hi |-> 0]}
ValueOf(k) == IF IsBit(k) THEN BitValue ELSE Value

-----------------------------------------------------------------------------
(* Frames. *)

\* Faulty variant of Addr: network variables numbered from 0.
AddrFrom0(k, n, c) == CASE k = "clust_bit" -> (n + 16) % 256
                        [] k = "clust_reg" -> (n + 17) % 256
                        [] IsNet(k)        -> (c * 16 + n) % 256

\* The address byte of variable n of its kind, as the senders build it.
Addr(k, n, c) == CASE k = "clust_bit" -> (n + 16) % 256
                   [] k = "clust_reg" -> (n + 17) % 256
                   [] IsNet(k)        -> (c * 16 + n + 1) % 256

\* The first variable a receiver takes the frame to be about; check_can_rx_data
\* keeps the network's numbers in a byte.
Index(f) == CASE f.kind = "clust_bit" -> f.addr - 16
              [] f.kind = "clust_reg" -> f.addr - 17
              [] IsNet(f.kind)        -> (f.addr - f.clust * 16 - 1) % 256

\* Faulty variant of Heard: the check lets one number past the end through.
HeardPastEnd(f) ==
  {Start(f.kind) + Index(f) + i : i \in {j \in DOMAIN f.data : Index(f) + j <= Count(f.kind)}}

\* The variables the frame assigns, and what: what lies past the end of the
\* array is dropped.
Heard(f) == {Start(f.kind) + Index(f) + i : i \in {j \in DOMAIN f.data : Index(f) + j < Count(f.kind)}}
HeardValue(f, x) == f.data[x - Start(f.kind) - Index(f)]

\* The address of the first cluster variables; the network's numbers wrap.
FirstAddr(k) == CASE k = "clust_bit" -> 16
                  [] k = "clust_reg" -> 17
                  [] IsNet(k)        -> 0

\* What the PLC may send: one register, or a group of bits, at any address from
\* the first of the kind on, past the end of the array too.  That it sends
\* nothing below the first one is an assumption about the PLC: the display
\* compares a cluster address with the end of the array only.
PlcFrames ==
  UNION {UNION {[kind : {k}, clust : Clusters, addr : FirstAddr(k) .. 255, data : [mask -> ValueOf(k)]] :
                  mask \in IF IsBit(k) THEN SUBSET (0 .. Width - 1) ELSE {{0}}} : k \in Kinds}

\* What a frame assigns: values to variables.
Assignments == {[x \in Heard(f) |-> HeardValue(f, x)] : f \in PlcFrames}

NoFrame == [kind |-> "none"]

Init ==
  /\ cl = [x \in Vars |-> Zero] /\ plc = [x \in Vars |-> Zero]
  /\ plc_can_link = 0 /\ cluster_addr \in Clusters
  /\ wpc = "idle" /\ wx = 0 /\ wv = Zero /\ id_clust = 0 /\ addr = 0 /\ low = 0
  /\ sent = NoFrame
  /\ at = VarCnt /\ half = FALSE
  /\ crossed = {} /\ overrun = FALSE /\ moved = FALSE /\ touched = {}

-----------------------------------------------------------------------------
(* The receive interrupt: check_can_rx_data. *)

Writing(x) == wpc = "second" /\ wx = x
Clearing(x) == half /\ at = x
Sending == wpc \in {"id", "addr", "low", "high"}

\* Faulty variant of Event: the bits and registers in cl are left as they were.
EventArrayOnly ==
  /\ \E d \in Assignments :
       /\ plc' = [x \in Vars |-> IF x \in DOMAIN d THEN d[x] ELSE plc[x]]
       /\ crossed' = {x \in crossed : x \notin DOMAIN d} \cup {x \in DOMAIN d : Writing(x) \/ Clearing(x)}
       /\ overrun' = (overrun \/ (Sending /\ wx \in DOMAIN d))
       /\ touched' = touched \cup DOMAIN d
  /\ UNCHANGED <<cl, link, write, reset, moved>>

\* An event assigns both copies.
Event ==
  /\ \E d \in Assignments :
       /\ cl' = [x \in Vars |-> IF x \in DOMAIN d THEN d[x] ELSE cl[x]]
       /\ plc' = [x \in Vars |-> IF x \in DOMAIN d THEN d[x] ELSE plc[x]]
       /\ crossed' = {x \in crossed : x \notin DOMAIN d} \cup {x \in DOMAIN d : Writing(x) \/ Clearing(x)}
       /\ overrun' = (overrun \/ (Sending /\ wx \in DOMAIN d))
       /\ touched' = touched \cup DOMAIN d
  /\ UNCHANGED <<link, write, reset, moved>>

Heartbeat ==
  /\ plc_can_link' = 1
  /\ cluster_addr' \in Clusters
  /\ moved' = (moved \/ (wpc = "addr" /\ cluster_addr' # cluster_addr))
  /\ UNCHANGED <<copies, write, reset, crossed, overrun, touched>>

-----------------------------------------------------------------------------
(* The LCD task: write_var_to_plc and the write_... functions of can_cmd.c. *)

\* The value is within the variable's limits by now.
StartWrite ==
  /\ wpc = "idle"
  /\ plc_can_link # 0
  /\ wx' \in Vars /\ wv' \in ValueOf(KindOf(wx'))
  /\ wpc' = "first"
  /\ sent' = NoFrame /\ overrun' = FALSE /\ moved' = FALSE
  /\ UNCHANGED <<copies, link, id_clust, addr, low, reset, crossed, touched>>

WriteCl ==
  /\ wpc = "first"
  /\ cl' = [cl EXCEPT ![wx] = wv]
  /\ wpc' = "second"
  /\ crossed' = IF Clearing(wx) THEN crossed \cup {wx} ELSE crossed \ {wx}
  /\ touched' = touched \cup {wx}
  /\ UNCHANGED <<plc, link, wx, wv, id_clust, addr, low, sent, reset, overrun, moved>>

WriteArray ==
  /\ wpc = "second"
  /\ plc' = [plc EXCEPT ![wx] = wv]
  /\ wpc' = "id"
  /\ touched' = touched \cup {wx}
  /\ UNCHANGED <<cl, link, wx, wv, id_clust, addr, low, sent, reset, crossed, overrun, moved>>

PackId ==
  /\ wpc = "id"
  /\ id_clust' = cluster_addr
  /\ wpc' = "addr"
  /\ UNCHANGED <<copies, link, wx, wv, addr, low, sent, reset, crossed, overrun, moved, touched>>

PackAddr ==
  /\ wpc = "addr"
  /\ addr' = Addr(KindOf(wx), wx - Start(KindOf(wx)), cluster_addr)
  /\ wpc' = "low"
  /\ UNCHANGED <<copies, link, wx, wv, id_clust, low, sent, reset, crossed, overrun, moved, touched>>

\* Faulty variant of PackLow: a bit is sent from the array as well.
PackLowFromArray ==
  /\ wpc = "low"
  /\ low' = plc[wx].lo
  /\ wpc' = "high"
  /\ UNCHANGED <<copies, link, wx, wv, id_clust, addr, sent, reset, crossed, overrun, moved, touched>>

\* A bit is sent from the parameter, a register from the array, byte by byte.
PackLow ==
  /\ wpc = "low"
  /\ low' = IF IsBit(KindOf(wx)) THEN wv.lo ELSE plc[wx].lo
  /\ wpc' = "high"
  /\ UNCHANGED <<copies, link, wx, wv, id_clust, addr, sent, reset, crossed, overrun, moved, touched>>

PackHigh ==
  /\ wpc = "high"
  /\ LET hi == IF IsBit(KindOf(wx)) THEN 0 ELSE plc[wx].hi
     IN  sent' = [kind |-> KindOf(wx), clust |-> id_clust, addr |-> addr,
                  data |-> [i \in {0} |-> [lo |-> low, hi |-> hi]]]
  /\ wpc' = "idle"
  /\ id_clust' = 0 /\ addr' = 0 /\ low' = 0
  /\ UNCHANGED <<copies, link, wx, wv, reset, crossed, overrun, moved, touched>>

LcdTask == StartWrite \/ WriteCl \/ WriteArray \/ PackId \/ PackAddr \/ PackLow \/ PackHigh

-----------------------------------------------------------------------------
(* The network task: the link is lost, reset_plc_data. *)

LoseLink ==
  /\ at = VarCnt
  /\ plc_can_link' = 0
  /\ at' = 0
  /\ touched' = {}
  /\ UNCHANGED <<copies, cluster_addr, write, half, crossed, overrun, moved>>

ResetCl ==
  /\ at < VarCnt /\ ~half
  /\ cl' = [cl EXCEPT ![at] = Zero]
  /\ half' = TRUE
  /\ crossed' = IF Writing(at) THEN crossed \cup {at} ELSE crossed \ {at}
  /\ UNCHANGED <<plc, link, write, at, overrun, moved, touched>>

\* Faulty variant of ResetArray: the last variable is left as it was.
ResetArrayShort ==
  /\ half
  /\ plc' = [plc EXCEPT ![at] = Zero]
  /\ half' = FALSE
  /\ at' = IF at = VarCnt - 2 THEN VarCnt ELSE at + 1
  /\ overrun' = (overrun \/ (Sending /\ wx = at))
  /\ UNCHANGED <<cl, link, write, crossed, moved, touched>>

\* Faulty variant of ResetArray: one variable too many.
ResetArrayLong ==
  /\ half
  /\ plc' = [plc EXCEPT ![at] = Zero]
  /\ half' = FALSE
  /\ at' = IF at = VarCnt - 1 THEN VarCnt + 1 ELSE at + 1
  /\ overrun' = (overrun \/ (Sending /\ wx = at))
  /\ UNCHANGED <<cl, link, write, crossed, moved, touched>>

ResetArray ==
  /\ half
  /\ plc' = [plc EXCEPT ![at] = Zero]
  /\ half' = FALSE
  /\ at' = at + 1
  /\ overrun' = (overrun \/ (Sending /\ wx = at))
  /\ UNCHANGED <<cl, link, write, crossed, moved, touched>>

NetworkTask == LoseLink \/ ResetCl \/ ResetArray

Next == Event \/ Heartbeat \/ LcdTask \/ NetworkTask

Spec == Init /\ [][Next]_vars

-----------------------------------------------------------------------------
(* Properties. *)

Frames == {NoFrame} \cup
  [kind : Kinds, clust : Clusters, addr : 0 .. 255, data : [{0} -> [lo : Bytes, hi : Bytes]]]

TypeOK ==
  /\ cl \in [Vars -> Value] /\ plc \in [Vars -> Value]
  /\ plc_can_link \in {0, 1} /\ cluster_addr \in Clusters
  /\ wpc \in {"idle", "first", "second", "id", "addr", "low", "high"}
  /\ wx \in Vars \cup {0} /\ wv \in Value
  /\ id_clust \in Clusters \cup {0} /\ addr \in 0 .. 255 /\ low \in Bytes
  /\ sent \in Frames
  /\ at \in 0 .. VarCnt /\ half \in BOOLEAN
  /\ crossed \subseteq Vars /\ touched \subseteq Vars
  /\ overrun \in BOOLEAN /\ moved \in BOOLEAN

\* The two copies of a variable agree, so that every screen shows the same,
\* whatever the interrupt assigns while tasks assign; except for a variable
\* that two parties were assigning at once.
CopiesAgree ==
  \A x \in Vars \ crossed : cl[x] = plc[x] \/ Writing(x) \/ Clearing(x)

\* Another display that hears the frame of a write assigns the operator's value
\* to the operator's variable and to nothing else; except when the cluster
\* address changed between its two uses in a network frame, or another party
\* assigned the register before it was packed.
WriteIsHeard ==
  wpc = "idle" /\ sent # NoFrame /\ ~(moved /\ IsNet(sent.kind)) =>
    /\ Heard(sent) = {wx}
    /\ HeardValue(sent, wx) = wv \/ (overrun /\ ~IsBit(sent.kind))

\* Once the reset has passed a variable it is zero in both copies, unless it was
\* assigned since the link was lost: no value of a lost PLC stays on the screen.
LostIsCleared ==
  \A x \in Vars \ touched : x < at => cl[x] = Zero /\ plc[x] = Zero

=============================================================================
