------------------------- MODULE FlashLoader_proofs -------------------------
(***************************************************************************)
(* The safety properties of FlashLoader hold for any number of blocks and  *)
(* of subpackets, any time to the restart and any limit of the net, and    *)
(* for any number of restarts and of program mode requests.                *)
(*                                                                         *)
(* Each of the three has an invariant of its own.  MenuInv and TimerInv    *)
(* say what each statement of the LCD task and of the network task finds.  *)
(* LoadInv is the argument of the protocol: the loading program waits for  *)
(* each answer, so that nothing older than the subpacket before the one it *)
(* is sending can still be asked for.                                      *)
(***************************************************************************)
EXTENDS FlashLoader, SequenceTheorems, TLAPS

-----------------------------------------------------------------------------
(* The menu. *)

MenuTypes ==
  /\ prog_mode_flag \in {0, 1}
  /\ current_menu \in {"main", "state", "prog"}
  /\ lpc \in {"idle", "main", "state", "prog", "enter", "leave", "ask"}
  /\ crossed \in BOOLEAN

\* What a statement of the LCD task finds, if no program mode request came in between.
MenuFound ==
  ~crossed =>
    /\ lpc \in {"idle", "main", "state", "prog", "ask"} => (prog_mode_flag = 1 <=> current_menu = "prog")
    /\ lpc \in {"main", "state", "prog"} => current_menu = lpc
    /\ lpc = "enter" => prog_mode_flag = 1
    /\ lpc = "leave" => current_menu = "main"
    /\ lpc = "ask" => current_menu = "main"

MenuInv == MenuTypes /\ MenuFound

-----------------------------------------------------------------------------
(* The countdown. *)

TimerTypes ==
  /\ rst_flag \in {0, 1}
  /\ rst_tmr \in 0 .. RstTicks /\ tmr_reg \in 0 .. RstTicks /\ quiet \in 0 .. RstTicks
  /\ tpc \in {"load", "store", "test"}

\* What is left of the count and the ticks without an update make up the whole time.
CountHolds ==
  /\ tpc # "load" => rst_flag = 1
  /\ rst_flag = 1 /\ ~asked /\ ~overtaken =>
       /\ rst_tmr + quiet >= RstTicks
       /\ tpc = "store" => tmr_reg = rst_tmr - 1

TimerInv == TimerTypes /\ CountHolds

-----------------------------------------------------------------------------
(* The load. *)

Update == [cmd : {"update"}, block : Blocks, sub : Subs]
LoadTypes ==
  /\ requests \in Seq(Update \cup Mode) /\ answers \in Seq(Update \cup Mode)
  /\ block \in 1 .. NumBlocks + 1 /\ sub \in Subs
  /\ fl_buf \in [Subs -> 0 .. NumBlocks]
  /\ flash \in [Blocks -> [Subs -> 0 .. NumBlocks]]

\* The subpacket that the loading program is sending, and the one before it.
Current(r) == r.block = block /\ r.sub = sub
Previous(r) == \/ r.block = block /\ r.sub = sub - 1
               \/ r.block = block - 1 /\ r.sub = SubCnt - 1 /\ sub = 0

\* Nothing older is asked for, and the older of the two not behind the newer.
Asked ==
  \A i \in DOMAIN requests : requests[i].cmd = "update" =>
    /\ Current(requests[i]) \/ Previous(requests[i])
    /\ Current(requests[i]) =>
         \A j \in DOMAIN requests : i < j /\ requests[j].cmd = "update" => Current(requests[j])

Old(r) == r.block < block \/ (r.block = block /\ r.sub <= sub)

\* The current subpacket is answered only when the previous one is no longer asked for,
\* and is then in the buffer, or the flash.
Answered ==
  \A i \in DOMAIN answers : answers[i].cmd = "update" =>
    /\ Old(answers[i])
    /\ Current(answers[i]) =>
         /\ \A j \in DOMAIN requests : requests[j].cmd = "update" => Current(requests[j])
         /\ block \notin spoilt => /\ fl_buf[sub] = block
                                   /\ sub = SubCnt - 1 => flash[block] = Whole(block)

\* The buffer holds what was answered of the block, and what a late copy of the last
\* subpacket of the block before needs.
Buffered ==
  /\ block \notin spoilt => \A s \in Subs : s < sub => fl_buf[s] = block
  /\ \A i \in DOMAIN requests :
       LET r == requests[i]
       IN  r.cmd = "update" /\ r.block < block /\ r.block \notin spoilt =>
             \A s \in Subs : s < r.sub => fl_buf[s] = r.block

LoadInv == LoadTypes /\ Asked /\ Answered /\ Buffered /\ AnsweredIsFlashed

-----------------------------------------------------------------------------
(* Each invariant reads a few of the variables only. *)

LEMMA MenuKept == MenuInv /\ UNCHANGED menus => MenuInv'
BY DEF menus, MenuInv, MenuTypes, MenuFound

LEMMA TimerKept == TimerInv /\ UNCHANGED timer => TimerInv'
BY DEF timer, TimerInv, TimerTypes, CountHolds

-----------------------------------------------------------------------------
(* The menu. *)

LEMMA MenuInvInit == Init => MenuInv
<1>1. Init => MenuTypes
  BY Zenon DEF Init, MenuTypes
<1>2. Init => MenuFound
  BY SMT DEF Init, MenuFound
<1> QED
  BY <1>1, <1>2 DEF MenuInv

LEMMA MenuInvStep == MenuInv /\ [Next]_vars => MenuInv'
<1> SUFFICES ASSUME MenuInv, [Next]_vars PROVE MenuInv'
  OBVIOUS
<1>1. CASE Serve
  <2>1. PICK r : Refuse(r) \/ TakeUpdate(r) \/ SetMode(r)
    BY <1>1 DEF Serve
  <2>2. CASE Refuse(r) \/ TakeUpdate(r)
    BY <2>2, MenuKept DEF Refuse, TakeUpdate
  <2>3. CASE SetMode(r)
    <3>1. /\ prog_mode_flag' = IF r.cmd = "on" THEN 1 ELSE 0
          /\ current_menu' = IF r.cmd = "on" THEN "prog" ELSE "state"
          /\ crossed' = (lpc # "idle") /\ lpc' = lpc
      BY <2>3 DEF SetMode
    <3>2. MenuTypes'
      BY <3>1 DEF MenuInv, MenuTypes
    <3>3. lpc = "idle" => MenuFound'
      BY <3>1, SMT DEF MenuFound
    <3>4. lpc # "idle" => MenuFound'
      BY <3>1, Zenon DEF MenuFound
    <3> QED
      BY <3>2, <3>3, <3>4 DEF MenuInv
  <2> QED
    BY <2>1, <2>2, <2>3
<1>2. CASE Dispatch \/ NoKey
  BY <1>2 DEF Dispatch, NoKey, MenuInv, MenuTypes, MenuFound
<1>3. CASE OtherMenu
  BY <1>3 DEF OtherMenu, MenuInv, MenuTypes, MenuFound
<1>4. CASE EnterProgFlag \/ EnterProgMenu
  BY <1>4 DEF EnterProgFlag, EnterProgMenu, MenuInv, MenuTypes, MenuFound
<1>5. CASE LeaveProgMenu \/ LeaveProgFlag
  BY <1>5 DEF LeaveProgMenu, LeaveProgFlag, MenuInv, MenuTypes, MenuFound
<1>6. CASE AskRestartFlag \/ AskRestartTime
  BY <1>6 DEF AskRestartFlag, AskRestartTime, MenuInv, MenuTypes, MenuFound
<1>7. CASE Restart
  <2>1. MenuTypes'
    BY <1>7, Zenon DEF Restart, MenuTypes
  <2>2. MenuFound'
    BY <1>7, SMT DEF Restart, MenuFound
  <2> QED
    BY <2>1, <2>2 DEF MenuInv
<1>8. CASE LoadTimer \/ StoreTimer \/ GoOn
  BY <1>8, MenuKept DEF LoadTimer, StoreTimer, GoOn
<1>9. CASE SendUpdate \/ SendMode \/ TakeAnswer \/ LoseRequest \/ LoseAnswer
  BY <1>9, MenuKept DEF SendUpdate, SendMode, TakeAnswer, LoseRequest, LoseAnswer
<1>10. CASE UNCHANGED vars
  BY <1>10, MenuKept DEF vars
<1> QED
  BY <1>1, <1>2, <1>3, <1>4, <1>5, <1>6, <1>7, <1>8, <1>9, <1>10 DEF Next, LcdTask, NetworkTask

\* Program mode and its menu go together, though the flag and the menu are two variables
\* that two tasks write one after the other (udpecho.c, state_menu.c, prog_menu.c).
THEOREM MenuTellsMode == Spec => []MenuShowsMode
<1>1. MenuInv => MenuShowsMode
  BY DEF MenuInv, MenuFound, MenuShowsMode
<1> QED
  BY <1>1, MenuInvInit, MenuInvStep, PTL DEF Spec

-----------------------------------------------------------------------------
(* The countdown. *)

LEMMA TimerInvInit == Init => TimerInv
BY LoaderAssumption DEF Init, TimerInv, TimerTypes, CountHolds

LEMMA TimerInvStep == TimerInv /\ [Next]_vars => TimerInv'
<1> SUFFICES ASSUME TimerInv, [Next]_vars PROVE TimerInv'
  OBVIOUS
<1> USE LoaderAssumption
<1>1. CASE Serve
  <2>1. PICK r : Refuse(r) \/ TakeUpdate(r) \/ SetMode(r)
    BY <1>1 DEF Serve
  <2>2. CASE Refuse(r) \/ SetMode(r)
    BY <2>2, TimerKept DEF Refuse, SetMode
  <2>3. CASE TakeUpdate(r)
    <3>1. /\ rst_flag' = 1 /\ rst_tmr' = RstTicks /\ quiet' = 0
          /\ overtaken' = (tpc = "store")
          /\ UNCHANGED <<tpc, tmr_reg>>
      BY <2>3 DEF TakeUpdate
    <3>2. TimerTypes'
      BY <3>1 DEF TimerInv, TimerTypes
    <3>3. tpc # "store" => CountHolds'
      BY <3>1, SMT DEF CountHolds
    <3>4. tpc = "store" => CountHolds'
      BY <3>1, Zenon DEF CountHolds
    <3> QED
      BY <3>2, <3>3, <3>4 DEF TimerInv
  <2> QED
    BY <2>1, <2>2, <2>3
<1>2. CASE Dispatch \/ NoKey \/ OtherMenu \/ EnterProgFlag \/ EnterProgMenu \/ LeaveProgMenu
           \/ LeaveProgFlag
  BY <1>2, TimerKept DEF Dispatch, NoKey, OtherMenu, EnterProgFlag, EnterProgMenu,
     LeaveProgMenu, LeaveProgFlag
<1>3. CASE AskRestartFlag \/ AskRestartTime
  BY <1>3 DEF AskRestartFlag, AskRestartTime, TimerInv, TimerTypes, CountHolds
<1>4. CASE LoadTimer
  BY <1>4 DEF LoadTimer, TimerInv, TimerTypes, CountHolds
<1>5. CASE StoreTimer \/ GoOn
  BY <1>5 DEF StoreTimer, GoOn, TimerInv, TimerTypes, CountHolds
<1>6. CASE Restart
  BY <1>6 DEF Restart, TimerInv, TimerTypes, CountHolds
<1>7. CASE SendUpdate \/ SendMode \/ TakeAnswer \/ LoseRequest \/ LoseAnswer
  BY <1>7, TimerKept DEF SendUpdate, SendMode, TakeAnswer, LoseRequest, LoseAnswer
<1>8. CASE UNCHANGED vars
  BY <1>8, TimerKept DEF vars
<1> QED
  BY <1>1, <1>2, <1>3, <1>4, <1>5, <1>6, <1>7, <1>8 DEF Next, LcdTask, NetworkTask

\* No restart cuts a load short: it comes when the whole time has passed without an
\* update, or the operator has asked for it since (main.c 375-379, udpecho.c).
THEOREM LoadIsNotCutShort == Spec => RestartsWhenQuiet
<1>1. TimerInv /\ [Next]_vars => [restarts' # restarts => asked \/ overtaken \/ quiet >= RstTicks]_restarts
  <2> SUFFICES ASSUME TimerInv, [Next]_vars, restarts' # restarts
               PROVE  asked \/ overtaken \/ quiet >= RstTicks
    OBVIOUS
  <2>1. Restart
    BY DEF Next, vars, menus, timer, memory, network, program, Serve, LcdTask, NetworkTask,
       Dispatch, NoKey, OtherMenu, EnterProgFlag, EnterProgMenu, LeaveProgMenu, LeaveProgFlag,
       AskRestartFlag, AskRestartTime, LoadTimer, StoreTimer, GoOn,
       SendUpdate, SendMode, TakeAnswer, LoseRequest, LoseAnswer
  <2> QED
    BY <2>1, LoaderAssumption DEF Restart, TimerInv, TimerTypes, CountHolds
<1> QED
  BY <1>1, TimerInvInit, TimerInvStep, PTL DEF Spec, RestartsWhenQuiet

-----------------------------------------------------------------------------
(* Sequences that lose elements or gain one at the end. *)

\* What t has is in s too, and in the same order.
Thinned(t, s) ==
  /\ \A k \in DOMAIN t : \E i \in DOMAIN s : t[k] = s[i]
  /\ \A k, l \in DOMAIN t : k < l =>
       \E i, j \in DOMAIN s : i < j /\ t[k] = s[i] /\ t[l] = s[j]

\* Every update that t has is in s too.
NoneNew(t, s) == \A k \in DOMAIN t : t[k].cmd = "update" => \E i \in DOMAIN s : t[k] = s[i]

LEMMA SameIsThinned == ASSUME NEW S, NEW s \in Seq(S) PROVE Thinned(s, s)
BY Zenon DEF Thinned

LEMMA TailIsThinned ==
  ASSUME NEW S, NEW s \in Seq(S), s # <<>>
  PROVE  Tail(s) \in Seq(S) /\ Thinned(Tail(s), s)
<1>1. /\ Tail(s) \in Seq(S) /\ Len(Tail(s)) = Len(s) - 1
      /\ \A k \in 1 .. Len(Tail(s)) : Tail(s)[k] = s[k + 1]
  BY HeadTailProperties
<1>2. /\ DOMAIN Tail(s) = 1 .. Len(Tail(s)) /\ DOMAIN s = 1 .. Len(s) /\ Len(s) \in Nat
  BY <1>1, LenProperties
<1>3. \A k \in DOMAIN Tail(s) : k + 1 \in DOMAIN s /\ Tail(s)[k] = s[k + 1]
  BY <1>1, <1>2
<1>4. \A k, l \in DOMAIN Tail(s) : k < l => k + 1 < l + 1
  BY <1>2
<1> QED
  BY <1>1, <1>3, <1>4, Zenon DEF Thinned

LEMMA Removed ==
  ASSUME NEW S, NEW s \in Seq(S), NEW i \in 1 .. Len(s)
  PROVE  RemoveAt(s, i) \in Seq(S) /\ Thinned(RemoveAt(s, i), s)
<1> DEFINE t == RemoveAt(s, i)
           up(k) == IF k < i THEN k ELSE k + 1
<1>0. Len(s) \in Nat /\ DOMAIN s = 1 .. Len(s)
  BY LenProperties
<1> DEFINE front == SubSeq(s, 1, i - 1)
           back == SubSeq(s, i + 1, Len(s))
<1>1. t = front \o back
  BY DEF RemoveAt
<1>2. /\ front \in Seq(S) /\ Len(front) = i - 1
      /\ \A k \in 1 .. i - 1 : front[k] = s[k]
  <2>1. /\ 1 \in Int /\ i - 1 \in Int /\ i \in Int
        /\ \A k \in 1 .. i - 1 : s[k] \in S
    BY <1>0, ElementOfSeq
  <2>2. /\ front \in Seq(S) /\ Len(front) = IF 1 <= i - 1 THEN i - 1 - 1 + 1 ELSE 0
        /\ \A k \in 1 .. i - 1 - 1 + 1 : front[k] = s[1 + k - 1]
    BY <2>1, SubSeqProperties
  <2> HIDE DEF front
  <2> QED
    BY <1>0, <2>1, <2>2
<1>3. /\ back \in Seq(S) /\ Len(back) = Len(s) - i
      /\ \A k \in 1 .. Len(s) - i : back[k] = s[k + i]
  <2>1. /\ i + 1 \in Int /\ Len(s) \in Int /\ i \in Int
        /\ \A k \in i + 1 .. Len(s) : s[k] \in S
    BY <1>0, ElementOfSeq
  <2>2. /\ back \in Seq(S) /\ Len(back) = IF i + 1 <= Len(s) THEN Len(s) - (i + 1) + 1 ELSE 0
        /\ \A k \in 1 .. Len(s) - (i + 1) + 1 : back[k] = s[i + 1 + k - 1]
    BY <2>1, SubSeqProperties
  <2> HIDE DEF back
  <2> DEFINE n == Len(s)
             m == Len(back)
             e(k) == back[k]
  <2>3. n \in Nat /\ i \in 1 .. n
    BY <1>0
  <2>4. /\ m = IF i + 1 <= n THEN n - (i + 1) + 1 ELSE 0
        /\ \A k \in 1 .. n - (i + 1) + 1 : e(k) = s[i + 1 + k - 1]
    BY <2>2
  <2> HIDE DEF back, n, m, e
  <2>5. m = n - i
    BY ONLY <2>3, <2>4, SMT
  <2>6. ASSUME NEW k \in 1 .. n - i PROVE e(k) = s[k + i]
    <3>1. k \in 1 .. n - (i + 1) + 1 /\ i + 1 + k - 1 = k + i
      BY ONLY <2>3, k \in 1 .. n - i, SMT
    <3> QED
      BY ONLY <2>4, <3>1, Zenon
  <2> QED
    BY <2>2, <2>5, <2>6, Zenon DEF n, m, e
<1> HIDE DEF front, back
<1>4. t \in Seq(S) /\ Len(t) = Len(s) - 1
  <2>1. t \in Seq(S) /\ Len(t) = Len(front) + Len(back)
    BY <1>1, <1>2, <1>3, ConcatProperties
  <2> HIDE DEF t
  <2> QED
    BY <1>0, <1>2, <1>3, <2>1
<1>5. \A k \in 1 .. Len(s) - 1 : t[k] = s[up(k)]
  <2>1. \A k \in 1 .. Len(front) + Len(back) :
           t[k] = IF k <= Len(front) THEN front[k] ELSE back[k - Len(front)]
    BY <1>1, <1>2, <1>3, ConcatProperties
  <2> HIDE DEF t
  <2> SUFFICES ASSUME NEW k \in 1 .. Len(s) - 1 PROVE t[k] = s[up(k)]
    OBVIOUS
  <2>2. CASE k < i
    BY <1>0, <1>2, <1>3, <2>1, <2>2
  <2>3. CASE k >= i
    <3> DEFINE n == Len(s)
    <3>0. n \in Nat /\ i \in 1 .. n /\ k \in 1 .. n - 1 /\ Len(front) = i - 1 /\ Len(back) = n - i
      BY <1>0, <1>2, <1>3
    <3>1. /\ k - (i - 1) \in 1 .. n - i /\ k - (i - 1) + i = k + 1 /\ ~ k <= i - 1
          /\ k \in 1 .. i - 1 + (n - i)
      BY ONLY <2>3, <3>0, SMT
    <3>2. t[k] = back[k - (i - 1)]
      BY ONLY <2>1, <3>0, <3>1, Zenon
    <3>3. back[k - (i - 1)] = s[k + 1]
      BY <1>3, <3>1, Zenon
    <3>4. ~ k < i
      BY ONLY <2>3, <3>0, SMT
    <3> QED
      BY <3>2, <3>3, <3>4
  <2> QED
    BY <1>0, <2>2, <2>3
<1>6. DOMAIN t = 1 .. Len(s) - 1
  BY <1>4, LenProperties
<1>7. \A k \in DOMAIN t : up(k) \in DOMAIN s /\ t[k] = s[up(k)]
  BY <1>0, <1>5, <1>6
<1>8. \A k, l \in DOMAIN t : k < l => up(k) < up(l)
  BY <1>0, <1>6
<1> HIDE DEF t, up
<1>9. Thinned(t, s)
  BY <1>7, <1>8, Zenon DEF Thinned
<1> QED
  BY <1>4, <1>9 DEF t

\* What is appended is the last one, and the others keep their places.
LEMMA Appended ==
  ASSUME NEW S, NEW s \in Seq(S), NEW r \in S
  PROVE  /\ Append(s, r) \in Seq(S)
         /\ DOMAIN Append(s, r) = 1 .. Len(s) + 1 /\ DOMAIN s = 1 .. Len(s) /\ Len(s) \in Nat
         /\ \A i \in 1 .. Len(s) : Append(s, r)[i] = s[i]
         /\ Append(s, r)[Len(s) + 1] = r
BY AppendProperties, LenProperties

-----------------------------------------------------------------------------
(* The load: what leaves the buffer, the flash and the loading program alone. *)

Packets == Update \cup Mode

LEMMA PacketFields ==
  ASSUME NEW r \in Packets, r.cmd = "update"
  PROVE  r \in Update /\ r.block \in 1 .. NumBlocks /\ r.sub \in 0 .. SubCnt - 1
BY DEF Packets, Update, Mode, Blocks, Subs

LEMMA LoadThinned ==
  ASSUME LoadInv,
         requests' \in Seq(Packets), Thinned(requests', requests),
         answers' \in Seq(Packets), NoneNew(answers', answers),
         UNCHANGED <<block, sub, memory, spoilt>>
  PROVE  LoadInv'
<1> USE DEF memory
<1>1. LoadTypes'
  BY DEF LoadInv, LoadTypes, Packets
<1>2. /\ \A k \in DOMAIN requests' : \E i \in DOMAIN requests : requests'[k] = requests[i]
      /\ \A k, l \in DOMAIN requests' : k < l =>
           \E i, j \in DOMAIN requests : i < j /\ requests'[k] = requests[i] /\ requests'[l] = requests[j]
      /\ \A k \in DOMAIN answers' : answers'[k].cmd = "update" =>
           \E i \in DOMAIN answers : answers'[k] = answers[i]
  BY DEF Thinned, NoneNew
<1>3. \A r : (Current(r)' <=> Current(r)) /\ (Previous(r)' <=> Previous(r)) /\ (Old(r)' <=> Old(r))
  BY DEF Current, Previous, Old
<1>4. Asked'
  <2> SUFFICES ASSUME NEW k \in DOMAIN requests', requests'[k].cmd = "update"
               PROVE  /\ Current(requests'[k]) \/ Previous(requests'[k])
                      /\ Current(requests'[k]) =>
                           \A l \in DOMAIN requests' : k < l /\ requests'[l].cmd = "update" =>
                             Current(requests'[l])
    BY <1>3, Zenon DEF Asked
  <2>1. Current(requests'[k]) \/ Previous(requests'[k])
    BY <1>2, Zenon DEF LoadInv, Asked
  <2>2. ASSUME Current(requests'[k]), NEW l \in DOMAIN requests', k < l, requests'[l].cmd = "update"
        PROVE  Current(requests'[l])
    <3>1. PICK i, j \in DOMAIN requests : i < j /\ requests'[k] = requests[i] /\ requests'[l] = requests[j]
      BY <1>2, <2>2, Zenon
    <3>2. requests[i].cmd = "update" /\ requests[j].cmd = "update" /\ Current(requests[i])
      BY <2>2, <3>1, Zenon
    <3>3. Current(requests[j])
      BY <3>1, <3>2, Zenon DEF LoadInv, Asked
    <3> QED
      BY <3>1, <3>3, Zenon
  <2> QED
    BY <2>1, <2>2, Zenon
<1>5. Answered'
  <2> SUFFICES ASSUME NEW k \in DOMAIN answers', answers'[k].cmd = "update"
               PROVE  /\ Old(answers'[k])
                      /\ Current(answers'[k]) =>
                           /\ \A l \in DOMAIN requests' : requests'[l].cmd = "update" => Current(requests'[l])
                           /\ block \notin spoilt => /\ fl_buf[sub] = block
                                                     /\ sub = SubCnt - 1 => flash[block] = Whole(block)
    BY <1>3, Zenon DEF Answered, Whole
  <2>1. PICK i \in DOMAIN answers : answers'[k] = answers[i]
    BY <1>2
  <2> QED
    BY <1>2, <2>1, Zenon DEF LoadInv, Answered
<1>6. Buffered'
  <2>1. ASSUME NEW k \in DOMAIN requests', requests'[k].cmd = "update", requests'[k].block < block,
               requests'[k].block \notin spoilt, NEW s \in Subs, s < requests'[k].sub
        PROVE  fl_buf[s] = requests'[k].block
    <3>1. PICK i \in DOMAIN requests : requests'[k] = requests[i]
      BY <1>2
    <3> QED
      BY <2>1, <3>1, Zenon DEF LoadInv, Buffered
  <2> QED
    BY <2>1, Zenon DEF LoadInv, Buffered
<1>7. AnsweredIsFlashed'
  BY DEF LoadInv, AnsweredIsFlashed, Whole
<1> QED
  BY <1>1, <1>4, <1>5, <1>6, <1>7 DEF LoadInv

-----------------------------------------------------------------------------
(* The load: requests that are sent and served, and answers. *)

LEMMA LoadInvInit == Init => LoadInv
<1> SUFFICES ASSUME Init PROVE LoadInv
  OBVIOUS
<1> USE LoaderAssumption DEF Init
<1>1. LoadTypes
  BY DEF LoadTypes, Subs, Blocks, ZeroBuf, Zero
<1>2. Asked /\ Answered
  BY DEF Asked, Answered
<1>3. Buffered
  BY DEF Buffered, Subs
<1>4. AnsweredIsFlashed
  BY DEF AnsweredIsFlashed, Blocks
<1> QED
  BY <1>1, <1>2, <1>3, <1>4 DEF LoadInv

LEMMA LoadKept ==
  ASSUME LoadInv, UNCHANGED <<memory, requests, answers, block, sub, spoilt>>
  PROVE  LoadInv'
<1>1. requests \in Seq(Packets) /\ answers \in Seq(Packets)
  BY DEF LoadInv, LoadTypes, Packets
<1>2. Thinned(requests, requests) /\ Thinned(answers, answers)
  BY <1>1, SameIsThinned
<1>3. NoneNew(answers, answers)
  BY Zenon DEF NoneNew
<1> QED
  BY <1>1, <1>2, <1>3, LoadThinned

\* A request of the subpacket that is being sent, or of a mode, goes to the end.
LEMMA Requested ==
  ASSUME LoadInv, NEW r \in Packets, r.cmd = "update" => Current(r),
         requests' = Append(requests, r),
         UNCHANGED <<memory, answers, block, sub, spoilt>>
  PROVE  LoadInv'
<1> USE DEF memory
<1>1. /\ requests \in Seq(Packets) /\ requests' \in Seq(Packets)
      /\ DOMAIN requests' = 1 .. Len(requests) + 1 /\ DOMAIN requests = 1 .. Len(requests)
      /\ Len(requests) \in Nat
      /\ \A i \in 1 .. Len(requests) : requests'[i] = requests[i]
      /\ requests'[Len(requests) + 1] = r
  BY Appended DEF LoadInv, LoadTypes, Packets
<1> DEFINE last == Len(requests) + 1
<1>2. /\ \A i \in DOMAIN requests' : i = last \/ i \in DOMAIN requests
      /\ \A i \in DOMAIN requests : requests'[i] = requests[i]
      /\ requests'[last] = r
      /\ \A i \in DOMAIN requests' : ~ last < i
  BY <1>1
<1> HIDE DEF last
<1>3. \A q : (Current(q)' <=> Current(q)) /\ (Previous(q)' <=> Previous(q)) /\ (Old(q)' <=> Old(q))
  BY DEF Current, Previous, Old
<1>4. LoadTypes'
  BY <1>1 DEF LoadInv, LoadTypes, Packets
<1>5. Asked'
  <2> SUFFICES ASSUME NEW k \in DOMAIN requests', requests'[k].cmd = "update"
               PROVE  /\ Current(requests'[k]) \/ Previous(requests'[k])
                      /\ Current(requests'[k]) =>
                           \A l \in DOMAIN requests' : k < l /\ requests'[l].cmd = "update" =>
                             Current(requests'[l])
    BY <1>3, Zenon DEF Asked
  <2>1. CASE k = last
    BY <1>2, <2>1, Zenon
  <2>2. CASE k \in DOMAIN requests
    BY <1>2, <2>2, Zenon DEF LoadInv, Asked
  <2> QED
    BY <1>2, <2>1, <2>2
<1>6. Answered'
  <2> SUFFICES ASSUME NEW k \in DOMAIN answers, answers[k].cmd = "update"
               PROVE  /\ Old(answers[k])
                      /\ Current(answers[k]) =>
                           /\ \A l \in DOMAIN requests' : requests'[l].cmd = "update" => Current(requests'[l])
                           /\ block \notin spoilt => /\ fl_buf[sub] = block
                                                     /\ sub = SubCnt - 1 => flash[block] = Whole(block)
    BY <1>3, Zenon DEF Answered, Whole
  <2> QED
    BY <1>2, Zenon DEF LoadInv, Answered
<1>7. Buffered'
  <2>1. ASSUME NEW k \in DOMAIN requests', requests'[k].cmd = "update", requests'[k].block < block,
               requests'[k].block \notin spoilt, NEW s \in Subs, s < requests'[k].sub
        PROVE  fl_buf[s] = requests'[k].block
    <3>1. k \in DOMAIN requests
      <4> SUFFICES ASSUME k = last PROVE FALSE
        BY <1>2
      <4>1. r.block = block /\ r.block < block
        BY <1>2, <2>1 DEF Current
      <4>2. block \in Int
        BY LoaderAssumption DEF LoadInv, LoadTypes
      <4> QED
        BY <4>1, <4>2
    <3> QED
      BY <1>2, <2>1, <3>1, Zenon DEF LoadInv, Buffered
  <2> QED
    BY <2>1, Zenon DEF LoadInv, Buffered
<1>8. AnsweredIsFlashed'
  BY DEF LoadInv, AnsweredIsFlashed, Whole
<1> QED
  BY <1>4, <1>5, <1>6, <1>7, <1>8 DEF LoadInv

LEMMA RestartKeeps == LoadInv /\ Restart => LoadInv'
<1> SUFFICES ASSUME LoadInv, Restart PROVE LoadInv'
  OBVIOUS
<1>1. /\ UNCHANGED <<requests, answers, block, sub, flash>>
      /\ fl_buf' = ZeroBuf
      /\ spoilt \subseteq spoilt' /\ block \in spoilt'
      /\ \A i \in DOMAIN requests : requests[i].cmd = "update" => requests[i].block \in spoilt'
  BY DEF Restart, network, program, ToSet
<1>2. LoadTypes'
  BY <1>1, LoaderAssumption DEF LoadInv, LoadTypes, ZeroBuf, Zero
<1>3. \A q : (Current(q)' <=> Current(q)) /\ (Previous(q)' <=> Previous(q)) /\ (Old(q)' <=> Old(q))
  BY <1>1 DEF Current, Previous, Old
<1>4. Asked'
  BY <1>1, <1>3, Zenon DEF LoadInv, Asked
<1>5. Answered'
  BY <1>1, <1>3, Zenon DEF LoadInv, Answered
<1>6. Buffered'
  BY <1>1, Zenon DEF LoadInv, Buffered
<1>7. AnsweredIsFlashed'
  BY <1>1 DEF LoadInv, AnsweredIsFlashed, Whole
<1> QED
  BY <1>2, <1>4, <1>5, <1>6, <1>7 DEF LoadInv

\* The loading program goes on to the next subpacket.
LEMMA TakeAnswerKeeps == LoadInv /\ TakeAnswer => LoadInv'
<1> SUFFICES ASSUME LoadInv, TakeAnswer PROVE LoadInv'
  OBVIOUS
<1> DEFINE a == Head(answers)
<1>1. /\ answers \in Seq(Packets) /\ requests \in Seq(Packets) /\ answers # <<>>
      /\ answers' = Tail(answers)
      /\ UNCHANGED <<memory, requests, spoilt>>
  BY DEF LoadInv, LoadTypes, Packets, TakeAnswer, memory
<1>2. answers' \in Seq(Packets) /\ Thinned(answers', answers) /\ Thinned(requests, requests)
  BY <1>1, TailIsThinned, SameIsThinned
<1>3. CASE a # [cmd |-> "update", block |-> block, sub |-> sub]
  <2>1. UNCHANGED <<block, sub>>
    BY <1>3 DEF TakeAnswer
  <2>2. NoneNew(answers', answers)
    BY <1>2, Zenon DEF Thinned, NoneNew
  <2> QED
    BY <1>1, <1>2, <2>1, <2>2, LoadThinned
<1>4. CASE a = [cmd |-> "update", block |-> block, sub |-> sub]
  <2>1. 1 \in DOMAIN answers /\ a = answers[1] /\ a \in Packets
    BY <1>1, HeadTailProperties, LenProperties
  <2>2. a.cmd = "update" /\ Current(a) /\ block \in 1 .. NumBlocks /\ sub \in 0 .. SubCnt - 1
    BY <1>4, <2>1, PacketFields DEF Current
  <2>3. /\ \A i \in DOMAIN requests : requests[i].cmd = "update" => Current(requests[i])
        /\ block \notin spoilt => /\ fl_buf[sub] = block
                                  /\ sub = SubCnt - 1 => flash[block] = Whole(block)
    BY <2>1, <2>2, Zenon DEF LoadInv, Answered
  <2>4. \A k \in DOMAIN answers' : answers'[k].cmd = "update" => Old(answers'[k]) /\ answers'[k] \in Packets
    <3>1. \A k \in DOMAIN answers' : \E i \in DOMAIN answers : answers'[k] = answers[i]
      BY <1>2, Zenon DEF Thinned
    <3>2. \A i \in DOMAIN answers : answers[i] \in Packets
      BY <1>1
    <3> QED
      BY <3>1, <3>2, Zenon DEF LoadInv, Answered
  <2>5. CASE sub < SubCnt - 1
    <3>1. sub' = sub + 1 /\ block' = block
      BY <1>4, <2>5 DEF TakeAnswer
    <3>2. LoadTypes'
      <4>1. block' \in 1 .. NumBlocks + 1 /\ sub' \in Subs
        BY <2>2, <2>5, <3>1, LoaderAssumption DEF Subs
      <4> QED
        BY <1>1, <1>2, <4>1, Zenon DEF memory, LoadInv, LoadTypes, Packets
    <3>3. Asked'
      BY <1>1, <2>2, <2>3, <3>1 DEF Asked, Current, Previous
    <3>4. Answered'
      BY <2>2, <2>4, <3>1, PacketFields DEF Answered, Current, Old
    <3>5. Buffered'
      <4>1. ASSUME block \notin spoilt, NEW s \in Subs, s < sub + 1 PROVE fl_buf[s] = block
        BY <2>2, <2>3, <4>1 DEF LoadInv, Buffered, Subs
      <4>2. \A i \in DOMAIN requests : requests[i].cmd = "update" => ~ requests[i].block < block
        BY <2>2, <2>3 DEF Current
      <4> QED
        BY <1>1, <3>1, <4>1, <4>2, Zenon DEF memory, Buffered
    <3>6. AnsweredIsFlashed'
      BY <1>1, <3>1 DEF memory, LoadInv, AnsweredIsFlashed, Whole
    <3> QED
      BY <3>2, <3>3, <3>4, <3>5, <3>6 DEF LoadInv
  <2>6. CASE sub = SubCnt - 1
    <3>1. sub' = 0 /\ block' = block + 1
      BY <1>4, <2>6 DEF TakeAnswer
    <3>2. LoadTypes'
      <4>1. block' \in 1 .. NumBlocks + 1 /\ sub' \in Subs
        BY <2>2, <3>1, LoaderAssumption DEF Subs
      <4> QED
        BY <1>1, <1>2, <4>1, Zenon DEF memory, LoadInv, LoadTypes, Packets
    <3>3. Asked'
      BY <1>1, <2>2, <2>3, <2>6, <3>1 DEF Asked, Current, Previous
    <3>4. Answered'
      BY <2>2, <2>4, <3>1, PacketFields DEF Answered, Current, Old
    <3>5. Buffered'
      <4>1. \A s \in Subs : ~ s < 0
        BY DEF Subs
      <4>2. ASSUME NEW i \in DOMAIN requests, requests[i].cmd = "update",
                   requests[i].block \notin spoilt, NEW s \in Subs, s < requests[i].sub
            PROVE  fl_buf[s] = requests[i].block
        <5>1. requests[i].block = block /\ requests[i].sub = sub
          BY <2>3, <4>2 DEF Current
        <5> QED
          BY <4>2, <5>1, Zenon DEF LoadInv, Buffered
      <4> QED
        BY <1>1, <3>1, <4>1, <4>2, Zenon DEF memory, Buffered
    <3>6. AnsweredIsFlashed'
      <4> SUFFICES ASSUME NEW b \in Blocks, b < block + 1, b \notin spoilt PROVE flash[b] = Whole(b)
        BY <1>1, <3>1, Zenon DEF memory, AnsweredIsFlashed, Whole
      <4>1. b = block \/ b < block
        BY <2>2 DEF Blocks
      <4> QED
        BY <2>3, <2>6, <4>1 DEF LoadInv, AnsweredIsFlashed
    <3> QED
      BY <3>2, <3>3, <3>4, <3>5, <3>6 DEF LoadInv
  <2> QED
    BY <2>2, <2>5, <2>6, LoaderAssumption
<1> QED
  BY <1>3, <1>4

\* What the UDP thread leaves in the buffer and in the flash of an update it takes.
LEMMA UpdateStores ==
  ASSUME LoadInv, NEW r \in Update, Current(r) \/ Previous(r), r.block \notin spoilt,
         r.block < block => \A s \in Subs : s < r.sub => fl_buf[s] = r.block,
         fl_buf' = [IF r.sub = 0 THEN ZeroBuf ELSE fl_buf EXCEPT ![r.sub] = r.block]
  PROVE  /\ \A s \in Subs : s <= r.sub => fl_buf'[s] = r.block
         /\ r.sub = SubCnt - 1 => fl_buf' = Whole(r.block)
<1>1. r.block \in 1 .. NumBlocks /\ r.sub \in 0 .. SubCnt - 1 /\ block \in Nat /\ SubCnt \in Nat
      /\ sub \in 0 .. SubCnt - 1 /\ NumBlocks \in Nat
  BY LoaderAssumption DEF Update, Blocks, Subs, LoadInv, LoadTypes
<1>2. \A s \in Subs : s < r.sub => fl_buf[s] = r.block
  <2>1. CASE r.block < block
    BY <2>1
  <2>2. CASE r.block = block
    <3>1. r.sub <= sub
      BY <1>1, <2>2 DEF Current, Previous
    <3>2. \A s \in Subs : s < r.sub => s < sub
      BY <1>1, <3>1 DEF Subs
    <3> QED
      BY <2>2, <3>2, Zenon DEF LoadInv, Buffered
  <2> QED
    BY <1>1, <2>1, <2>2 DEF Current, Previous
<1>3. DOMAIN fl_buf' = Subs /\ fl_buf' \in [Subs -> 0 .. NumBlocks]
  <2>1. ZeroBuf \in [Subs -> 0 .. NumBlocks] /\ fl_buf \in [Subs -> 0 .. NumBlocks]
    BY <1>1 DEF ZeroBuf, Zero, LoadInv, LoadTypes
  <2>2. PICK buf \in [Subs -> 0 .. NumBlocks] : buf = IF r.sub = 0 THEN ZeroBuf ELSE fl_buf
    BY <2>1
  <2>3. fl_buf' = [buf EXCEPT ![r.sub] = r.block] /\ r.block \in 0 .. NumBlocks
    BY <1>1, <2>2
  <2> QED
    BY ONLY <2>3, buf \in [Subs -> 0 .. NumBlocks]
<1>4. \A s \in Subs : fl_buf'[s] = IF s = r.sub THEN r.block
                                   ELSE IF r.sub = 0 THEN ZeroBuf[s] ELSE fl_buf[s]
  BY <1>1 DEF ZeroBuf, LoadInv, LoadTypes
<1>5. \A s \in Subs : s <= r.sub => fl_buf'[s] = r.block
  BY <1>1, <1>2, <1>4 DEF Subs
<1>6. r.sub = SubCnt - 1 => \A s \in Subs : s <= r.sub
  BY <1>1 DEF Subs
<1>7. r.sub = SubCnt - 1 => fl_buf' = Whole(r.block)
  BY <1>3, <1>5, <1>6 DEF Whole
<1> QED
  BY <1>5, <1>7

\* The answer, if any, goes to the end.
LEMMA AnswerAppends ==
  ASSUME NEW r \in Packets, answers \in Seq(Packets), Answer(r)
  PROVE  /\ answers' \in Seq(Packets)
         /\ \A k \in DOMAIN answers' : answers'[k] = r \/ \E i \in DOMAIN answers : answers'[k] = answers[i]
<1>1. CASE answers' = answers
  BY <1>1
<1>2. CASE answers' = Append(answers, r)
  BY <1>2, Appended
<1> QED
  BY <1>1, <1>2 DEF Answer

\* An update or a mode request is served whole.
LEMMA ServeKeeps == LoadInv /\ Serve => LoadInv'
<1> SUFFICES ASSUME LoadInv, Serve PROVE LoadInv'
  OBVIOUS
<1> DEFINE r == Head(requests)
<1>1. /\ requests \in Seq(Packets) /\ answers \in Seq(Packets) /\ requests # <<>>
      /\ requests' = Tail(requests)
      /\ UNCHANGED <<block, sub, spoilt>>
  BY DEF LoadInv, LoadTypes, Packets, Serve, program
<1>2. requests' \in Seq(Packets) /\ Thinned(requests', requests)
  BY <1>1, TailIsThinned
<1>3. /\ 1 \in DOMAIN requests /\ r = requests[1] /\ r \in Packets
      /\ \A k \in DOMAIN requests' : k + 1 \in DOMAIN requests /\ requests'[k] = requests[k + 1] /\ 1 < k + 1
  <2>1. /\ Len(requests) \in Nat /\ DOMAIN requests = 1 .. Len(requests)
        /\ DOMAIN requests' = 1 .. Len(requests')
        /\ Len(requests') = Len(requests) - 1
        /\ \A k \in 1 .. Len(requests') : requests'[k] = requests[k + 1]
    BY <1>1, <1>2, HeadTailProperties, LenProperties
  <2> QED
    BY <1>1, <2>1, HeadTailProperties
<1>4. (r.cmd = "update" /\ (Refuse(r) \/ TakeUpdate(r))) \/ (r.cmd # "update" /\ SetMode(r))
  BY DEF Serve
<1> HIDE DEF r
<1>5. CASE Refuse(r)
  <2>1. UNCHANGED memory /\ answers' = answers
    BY <1>5 DEF Refuse, memory
  <2>2. NoneNew(answers', answers)
    BY <2>1, Zenon DEF NoneNew
  <2> QED
    BY <1>1, <1>2, <2>1, <2>2, LoadThinned
<1>6. CASE r.cmd # "update" /\ SetMode(r)
  <2>1. UNCHANGED memory /\ Answer(r)
    BY <1>6 DEF SetMode
  <2>2. /\ answers' \in Seq(Packets)
        /\ \A k \in DOMAIN answers' : answers'[k] = r \/ \E i \in DOMAIN answers : answers'[k] = answers[i]
    BY <1>1, <1>3, <2>1, AnswerAppends
  <2>3. NoneNew(answers', answers)
    BY <1>6, <2>2, Zenon DEF NoneNew
  <2> QED
    BY <1>1, <1>2, <2>1, <2>2, <2>3, LoadThinned
<1>7. CASE r.cmd = "update" /\ TakeUpdate(r)
  <2>1. /\ fl_buf' = [IF r.sub = 0 THEN ZeroBuf ELSE fl_buf EXCEPT ![r.sub] = r.block]
        /\ flash' = IF r.sub = SubCnt - 1 THEN [flash EXCEPT ![r.block] = fl_buf'] ELSE flash
        /\ Answer(r)
    BY <1>7 DEF TakeUpdate
  <2>2. /\ answers' \in Seq(Packets)
        /\ \A k \in DOMAIN answers' : answers'[k] = r \/ \E i \in DOMAIN answers : answers'[k] = answers[i]
    BY <1>1, <1>3, <2>1, AnswerAppends
  <2>3. /\ r \in Update /\ r.block \in 1 .. NumBlocks /\ r.sub \in 0 .. SubCnt - 1
        /\ block \in 1 .. NumBlocks + 1 /\ sub \in 0 .. SubCnt - 1
        /\ NumBlocks \in Nat /\ SubCnt \in Nat
    BY <1>3, <1>7, PacketFields, LoaderAssumption DEF LoadInv, LoadTypes, Subs
  <2>4. Current(r) \/ Previous(r)
    BY <1>3, <1>7, Zenon DEF LoadInv, Asked
  <2>5. \A k \in DOMAIN requests' : requests'[k].cmd = "update" =>
          /\ Current(requests'[k]) \/ Previous(requests'[k])
          /\ Current(r) => Current(requests'[k])
    BY <1>3, <1>7, Zenon DEF LoadInv, Asked
  <2>6. r.block < block /\ r.block \notin spoilt => \A s \in Subs : s < r.sub => fl_buf[s] = r.block
    BY <1>3, <1>7, Zenon DEF LoadInv, Buffered
  <2>7. r.block \notin spoilt => /\ \A s \in Subs : s <= r.sub => fl_buf'[s] = r.block
                                 /\ r.sub = SubCnt - 1 => fl_buf' = Whole(r.block)
    BY <2>1, <2>3, <2>4, <2>6, UpdateStores
  <2>8. \A q : (Current(q)' <=> Current(q)) /\ (Previous(q)' <=> Previous(q)) /\ (Old(q)' <=> Old(q))
    BY <1>1 DEF Current, Previous, Old
  <2>9. LoadTypes'
    <3>1. fl_buf' \in [Subs -> 0 .. NumBlocks]
      <4>1. ZeroBuf \in [Subs -> 0 .. NumBlocks] /\ fl_buf \in [Subs -> 0 .. NumBlocks]
        BY <2>3 DEF ZeroBuf, Zero, LoadInv, LoadTypes
      <4>2. PICK buf \in [Subs -> 0 .. NumBlocks] : buf = IF r.sub = 0 THEN ZeroBuf ELSE fl_buf
        BY <4>1
      <4>3. fl_buf' = [buf EXCEPT ![r.sub] = r.block] /\ r.block \in 0 .. NumBlocks
        BY <2>1, <2>3, <4>2
      <4> QED
        BY ONLY <4>3, buf \in [Subs -> 0 .. NumBlocks]
    <3>2. flash' \in [Blocks -> [Subs -> 0 .. NumBlocks]]
      BY <2>1, <3>1 DEF LoadInv, LoadTypes
    <3> QED
      BY <1>1, <1>2, <2>2, <3>1, <3>2, Zenon DEF LoadInv, LoadTypes, Packets
  <2>10. Asked'
    <3> SUFFICES ASSUME NEW k \in DOMAIN requests', requests'[k].cmd = "update"
                 PROVE  /\ Current(requests'[k]) \/ Previous(requests'[k])
                        /\ Current(requests'[k]) =>
                             \A l \in DOMAIN requests' : k < l /\ requests'[l].cmd = "update" =>
                               Current(requests'[l])
      BY <2>8, Zenon DEF Asked
    <3>1. Current(requests'[k]) \/ Previous(requests'[k])
      BY <2>5
    <3>2. ASSUME Current(requests'[k]), NEW l \in DOMAIN requests', k < l, requests'[l].cmd = "update"
          PROVE  Current(requests'[l])
      <4>1. k + 1 < l + 1
        BY <1>2, <3>2, LenProperties
      <4>2. /\ k + 1 \in DOMAIN requests /\ l + 1 \in DOMAIN requests
            /\ requests'[k] = requests[k + 1] /\ requests'[l] = requests[l + 1]
        BY <1>3
      <4> QED
        BY <3>2, <4>1, <4>2, Zenon DEF LoadInv, Asked
    <3> QED
      BY <3>1, <3>2, Zenon
  <2>11. Answered'
    <3>1. CASE Current(r)
      <4>1. Old(r)
        BY <2>3, <3>1 DEF Current, Old
      <4>2. \A l \in DOMAIN requests' : requests'[l].cmd = "update" => Current(requests'[l])
        BY <2>5, <3>1
      <4>3. block \notin spoilt => /\ fl_buf'[sub] = block
                                   /\ sub = SubCnt - 1 => flash'[block] = Whole(block)
        <5> SUFFICES ASSUME block \notin spoilt
                     PROVE  /\ fl_buf'[sub] = block
                            /\ sub = SubCnt - 1 => flash'[block] = Whole(block)
          OBVIOUS
        <5>1. r.block = block /\ r.sub = sub /\ sub \in Subs /\ sub <= sub /\ block \in Blocks
          BY <2>3, <3>1 DEF Current, Subs, Blocks
        <5>2. r.block \notin spoilt
          BY <5>1
        <5>3. /\ \A s \in Subs : s <= r.sub => fl_buf'[s] = r.block
              /\ r.sub = SubCnt - 1 => fl_buf' = Whole(r.block)
          BY <2>7, <5>2
        <5>4. fl_buf'[sub] = block
          BY <5>1, <5>3
        <5>5. sub = SubCnt - 1 => fl_buf' = Whole(block)
          BY <5>1, <5>3
        <5> QED
          BY <2>1, <5>1, <5>4, <5>5 DEF LoadInv, LoadTypes
      <4>4. \A k \in DOMAIN answers' : answers'[k].cmd = "update" => Old(answers'[k])
        BY <2>2, <4>1, Zenon DEF LoadInv, Answered
      <4> QED
        BY <1>1, <2>8, <4>2, <4>3, <4>4, Zenon DEF Answered, Whole
    <3>2. CASE ~ Current(r)
      <4>1. Old(r)
        BY <2>3, <2>4, <3>2 DEF Current, Previous, Old
      <4>2. \A i \in DOMAIN answers : answers[i].cmd = "update" => ~ Current(answers[i])
        BY <1>3, <1>7, <3>2, Zenon DEF LoadInv, Answered
      <4>3. \A k \in DOMAIN answers' : answers'[k].cmd = "update" =>
              Old(answers'[k]) /\ ~ Current(answers'[k])
        BY <2>2, <3>2, <4>1, <4>2, Zenon DEF LoadInv, Answered
      <4> QED
        BY <2>8, <4>3, Zenon DEF Answered
    <3> QED
      BY <3>1, <3>2
  <2>12. Buffered'
    <3>1. ASSUME block \notin spoilt, NEW s \in Subs, s < sub PROVE fl_buf'[s] = block
      <4>1. r.block = block /\ s <= r.sub
        BY <2>3, <2>4, <3>1 DEF Current, Previous, Subs
      <4> QED
        BY <2>7, <3>1, <4>1
    <3>2. ASSUME NEW k \in DOMAIN requests', requests'[k].cmd = "update", requests'[k].block < block,
                 requests'[k].block \notin spoilt, NEW s \in Subs, s < requests'[k].sub
          PROVE  fl_buf'[s] = requests'[k].block
      <4>1. requests'[k].block = block - 1 /\ requests'[k].sub = SubCnt - 1 /\ sub = 0
        BY <2>3, <2>5, <3>2 DEF Current, Previous
      <4>2. ~ Current(r)
        BY <2>3, <2>5, <3>2, <4>1 DEF Current
      <4>3. r.block = block - 1 /\ r.sub = SubCnt - 1
        BY <2>3, <2>4, <4>1, <4>2 DEF Previous
      <4>4. s <= r.sub
        BY <3>2, <4>1, <4>3 DEF Subs
      <4> QED
        BY <2>7, <3>2, <4>1, <4>3, <4>4
    <3> QED
      BY <1>1, <3>1, <3>2, Zenon DEF Buffered
  <2>13. AnsweredIsFlashed'
    <3> SUFFICES ASSUME NEW b \in Blocks, b < block, b \notin spoilt PROVE flash'[b] = Whole(b)
      BY <1>1, Zenon DEF AnsweredIsFlashed, Whole
    <3>1. flash[b] = Whole(b)
      BY DEF LoadInv, AnsweredIsFlashed
    <3>2. r.block = b => r.block \notin spoilt
      OBVIOUS
    <3> QED
      BY <2>1, <2>7, <3>1, <3>2 DEF LoadInv, LoadTypes
  <2> QED
    BY <2>9, <2>10, <2>11, <2>12, <2>13 DEF LoadInv
<1> QED
  BY <1>4, <1>5, <1>6, <1>7

LEMMA LoadInvStep == LoadInv /\ [Next]_vars => LoadInv'
<1> SUFFICES ASSUME LoadInv, [Next]_vars PROVE LoadInv'
  OBVIOUS
<1>1. requests \in Seq(Packets) /\ answers \in Seq(Packets)
  BY DEF LoadInv, LoadTypes, Packets
<1>2. Thinned(requests, requests) /\ NoneNew(answers, answers)
  BY <1>1, SameIsThinned, Zenon DEF NoneNew
<1>3. CASE LcdTask
  BY <1>3, LoadKept DEF LcdTask, Dispatch, NoKey, OtherMenu, EnterProgFlag, EnterProgMenu,
     LeaveProgMenu, LeaveProgFlag, AskRestartFlag, AskRestartTime, network, program
<1>4. CASE LoadTimer \/ StoreTimer \/ GoOn
  BY <1>4, LoadKept DEF LoadTimer, StoreTimer, GoOn, network, program
<1>5. CASE SendUpdate
  <2> DEFINE r == [cmd |-> "update", block |-> block, sub |-> sub]
  <2>1. r \in Packets /\ Current(r)
    BY <1>5, LoaderAssumption DEF SendUpdate, Packets, Update, Current, Blocks, LoadInv, LoadTypes
  <2>2. /\ requests' = Append(requests, r)
        /\ UNCHANGED <<memory, answers, block, sub, spoilt>>
    BY <1>5 DEF SendUpdate, program
  <2> QED
    BY <2>1, <2>2, Requested
<1>6. CASE SendMode
  <2>1. PICK r \in Mode : requests' = Append(requests, r)
    BY <1>6 DEF SendMode
  <2>2. r \in Packets /\ r.cmd # "update"
    BY DEF Mode, Packets
  <2>3. UNCHANGED <<memory, answers, block, sub, spoilt>>
    BY <1>6 DEF SendMode
  <2> QED
    BY <2>1, <2>2, <2>3, Requested
<1>7. CASE LoseRequest
  <2>1. PICK i \in 1 .. Len(requests) : requests' = RemoveAt(requests, i)
    BY <1>7 DEF LoseRequest
  <2>2. requests' \in Seq(Packets) /\ Thinned(requests', requests)
    BY <1>1, <2>1, Removed
  <2>3. UNCHANGED <<memory, answers, block, sub, spoilt>>
    BY <1>7 DEF LoseRequest, program
  <2> QED
    BY <1>1, <1>2, <2>2, <2>3, LoadThinned
<1>8. CASE LoseAnswer
  <2>1. PICK i \in 1 .. Len(answers) : answers' = RemoveAt(answers, i)
    BY <1>8 DEF LoseAnswer
  <2>2. answers' \in Seq(Packets) /\ Thinned(answers', answers)
    BY <1>1, <2>1, Removed
  <2>3. NoneNew(answers', answers)
    BY <2>2, Zenon DEF Thinned, NoneNew
  <2>4. UNCHANGED <<memory, requests, block, sub, spoilt>>
    BY <1>8 DEF LoseAnswer, program
  <2> QED
    BY <1>1, <1>2, <2>2, <2>3, <2>4, LoadThinned
<1>9. CASE UNCHANGED vars
  BY <1>9, LoadKept DEF vars, network, program
<1> QED
  BY <1>3, <1>4, <1>5, <1>6, <1>7, <1>8, <1>9, ServeKeeps, TakeAnswerKeeps, RestartKeeps
     DEF Next, NetworkTask

\* Whatever is lost, doubled or late, and whenever program mode is left, a block that was
\* answered to its end is in the flash whole, unless a restart has cut it (udpecho.c).
THEOREM AnsweredStaysFlashed == Spec => []AnsweredIsFlashed
<1>1. LoadInv => AnsweredIsFlashed
  BY DEF LoadInv
<1> QED
  BY <1>1, LoadInvInit, LoadInvStep, PTL DEF Spec
=============================================================================
