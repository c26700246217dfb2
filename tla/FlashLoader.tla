---------------------------- MODULE FlashLoader ----------------------------
(***************************************************************************)
(* Loading the display's picture flash over the network (udpecho.c), with  *)
(* the tasks it meets:                                                     *)
(*   - the UDP thread serves one request at a time, above both tasks;      *)
(*   - the LCD task (menu.c, state_menu.c, prog_menu.c) also enters and    *)
(*     leaves program mode, one statement after the other;                 *)
(*   - the network task (main.c) counts down to a restart of the device    *)
(*     that every update starts again.                                     *)
(*                                                                         *)
(* The loading program at the other end is external: it sends the          *)
(* subpackets of each block in turn, each until it is answered.  Requests  *)
(* and answers may be lost.  A block is a number and stands for the bytes  *)
(* of all its subpackets.  The requests for the device name and for the    *)
(* contents of the flash change no state and are left out.  "main" stands  *)
(* for the main menu and the menus under it, ip_config_menu among them.    *)
(***************************************************************************)
EXTENDS Integers, Sequences, SequencesExt

CONSTANTS
  NumBlocks,   \* blocks to load
  SubCnt,      \* BLOCK_SIZE / PACKET_DATA_SIZE
  RstTicks,    \* ticks from the last update to the restart (2000)
  AskTicks,    \* ticks from the operator's request to the restart (1000)
  QueueLimit,  \* bound of the model: requests or answers under way
  MaxModes,    \* bound of the model: program mode requests
  MaxRestarts  \* bound of the model: restarts

ASSUME LoaderAssumption ==
  /\ NumBlocks \in Nat \ {0}
  /\ SubCnt \in Nat \ {0}
  /\ RstTicks \in Nat \ {0}
  /\ AskTicks \in 1 .. RstTicks
  /\ QueueLimit \in Nat \ {0} /\ MaxModes \in Nat /\ MaxRestarts \in Nat

VARIABLES
  prog_mode_flag,
  current_menu,
  lpc,          \* what the LCD task is in: "idle", a menu, or between two statements
  rst_flag, rst_tmr,
  tpc,          \* next statement of the network task's countdown
  tmr_reg,      \* rst_tmr in its register
  fl_buf,
  flash,
  requests, answers,
  block, sub,   \* what the loading program is sending
  \* history
  quiet,        \* ticks since the last update, up to RstTicks
  asked,        \* has the operator asked for a restart since the last update?
  overtaken,    \* did the last update come in the middle of a count?
  crossed,      \* did the last program mode request come in the middle of a menu?
  spoilt,       \* blocks that a restart has cut in two
  modes, restarts

menus == <<prog_mode_flag, current_menu, lpc, crossed>>
timer == <<rst_flag, rst_tmr, tpc, tmr_reg, quiet, asked, overtaken>>
memory == <<fl_buf, flash>>
network == <<requests, answers>>
program == <<block, sub, modes>>
vars == <<menus, timer, memory, network, program, spoilt, restarts>>

Blocks == 1 .. NumBlocks
Subs == 0 .. SubCnt - 1
Zero == 0
Mode == [cmd : {"on", "off"}]
ZeroBuf == [s \in Subs |-> Zero]
Whole(b) == [s \in Subs |-> b]

Init ==
  /\ prog_mode_flag = 0 /\ current_menu = "state" /\ lpc = "idle" /\ crossed = FALSE
  /\ rst_flag = 0 /\ rst_tmr = 0 /\ tpc = "load" /\ tmr_reg = 0
  /\ quiet = 0 /\ asked = FALSE /\ overtaken = FALSE
  /\ fl_buf = ZeroBuf
  /\ flash = [b \in Blocks |-> ZeroBuf]
  /\ requests = <<>> /\ answers = <<>>
  /\ block = 1 /\ sub = 0
  /\ spoilt = {} /\ modes = 0 /\ restarts = 0

-----------------------------------------------------------------------------
(* The UDP thread: udp_answer. *)

Answer(r) == answers' = IF Len(answers) < QueueLimit THEN Append(answers, r) ELSE answers

\* Command 1 outside program mode: access denied, and no answer.
Refuse(r) ==
  /\ prog_mode_flag = 0
  /\ UNCHANGED <<menus, timer, memory, answers>>

\* Faulty variant of TakeUpdate: the block is written before its last
\* subpacket is in the buffer.
TakeUpdateEarly(r) ==
  /\ prog_mode_flag = 1
  /\ rst_flag' = 1 /\ rst_tmr' = RstTicks
  /\ fl_buf' = [IF r.sub = 0 THEN ZeroBuf ELSE fl_buf EXCEPT ![r.sub] = r.block]
  /\ flash' = IF r.sub = SubCnt - 1 THEN [flash EXCEPT ![r.block] = fl_buf] ELSE flash
  /\ Answer(r)
  /\ quiet' = 0 /\ asked' = FALSE
  /\ overtaken' = (tpc = "store")
  /\ UNCHANGED <<menus, tpc, tmr_reg>>

\* Faulty variant of TakeUpdate: only the first update starts the countdown.
TakeUpdateKeepsTimer(r) ==
  /\ prog_mode_flag = 1
  /\ rst_flag' = 1
  /\ rst_tmr' = IF rst_flag = 1 THEN rst_tmr ELSE RstTicks
  /\ fl_buf' = [IF r.sub = 0 THEN ZeroBuf ELSE fl_buf EXCEPT ![r.sub] = r.block]
  /\ flash' = IF r.sub = SubCnt - 1 THEN [flash EXCEPT ![r.block] = fl_buf'] ELSE flash
  /\ Answer(r)
  /\ quiet' = 0 /\ asked' = FALSE
  /\ overtaken' = (tpc = "store")
  /\ UNCHANGED <<menus, tpc, tmr_reg>>

\* Command 1: the first subpacket empties the buffer, the last one writes it to
\* the flash.
TakeUpdate(r) ==
  /\ prog_mode_flag = 1
  /\ rst_flag' = 1 /\ rst_tmr' = RstTicks
  /\ fl_buf' = [IF r.sub = 0 THEN ZeroBuf ELSE fl_buf EXCEPT ![r.sub] = r.block]
  /\ flash' = IF r.sub = SubCnt - 1 THEN [flash EXCEPT ![r.block] = fl_buf'] ELSE flash
  /\ Answer(r)
  /\ quiet' = 0 /\ asked' = FALSE
  /\ overtaken' = (tpc = "store")
  /\ UNCHANGED <<menus, tpc, tmr_reg>>

\* Faulty variant of SetMode: the menu stays as it is.
SetModeKeepsMenu(r) ==
  /\ prog_mode_flag' = IF r.cmd = "on" THEN 1 ELSE 0
  /\ crossed' = (lpc # "idle")
  /\ Answer(r)
  /\ UNCHANGED <<current_menu, lpc, timer, memory>>

\* Commands 3 and 4: into program mode and its menu, and out to the state menu.
SetMode(r) ==
  /\ prog_mode_flag' = IF r.cmd = "on" THEN 1 ELSE 0
  /\ current_menu' = IF r.cmd = "on" THEN "prog" ELSE "state"
  /\ crossed' = (lpc # "idle")
  /\ Answer(r)
  /\ UNCHANGED <<lpc, timer, memory>>

\* One request is taken off the net and served whole.
Serve ==
  /\ requests # <<>>
  /\ requests' = Tail(requests)
  /\ LET r == Head(requests)
     IN  \/ r.cmd = "update" /\ (Refuse(r) \/ TakeUpdate(r))
         \/ r.cmd # "update" /\ SetMode(r)
  /\ UNCHANGED <<program, spoilt, restarts>>

-----------------------------------------------------------------------------
(* The LCD task: display_menu calls the function of the menu it finds. *)

Dispatch ==
  /\ lpc = "idle"
  /\ lpc' = current_menu
  /\ UNCHANGED <<prog_mode_flag, current_menu, crossed, timer, memory, network, program,
                 spoilt, restarts>>

\* No key, or one that leaves the menu where it is.
NoKey ==
  /\ lpc \in {"main", "state", "prog"}
  /\ lpc' = "idle"
  /\ UNCHANGED <<prog_mode_flag, current_menu, crossed, timer, memory, network, program,
                 spoilt, restarts>>

\* A key that goes to another menu than prog.
OtherMenu ==
  /\ lpc \in {"main", "state"}
  /\ current_menu' = IF lpc = "main" THEN "state" ELSE "main"
  /\ lpc' = "idle"
  /\ UNCHANGED <<prog_mode_flag, crossed, timer, memory, network, program, spoilt, restarts>>

\* KEY_0: first the flag, then the menu.
EnterProgFlag ==
  /\ lpc \in {"main", "state"}
  /\ prog_mode_flag' = 1
  /\ lpc' = "enter"
  /\ UNCHANGED <<current_menu, crossed, timer, memory, network, program, spoilt, restarts>>

EnterProgMenu ==
  /\ lpc = "enter"
  /\ current_menu' = "prog"
  /\ lpc' = "idle"
  /\ UNCHANGED <<prog_mode_flag, crossed, timer, memory, network, program, spoilt, restarts>>

\* prog_menu: first the menu, then the flag.
LeaveProgMenu ==
  /\ lpc = "prog"
  /\ current_menu' = "main"
  /\ lpc' = "leave"
  /\ UNCHANGED <<prog_mode_flag, crossed, timer, memory, network, program, spoilt, restarts>>

LeaveProgFlag ==
  /\ lpc = "leave"
  /\ prog_mode_flag' = 0
  /\ lpc' = "idle"
  /\ UNCHANGED <<current_menu, crossed, timer, memory, network, program, spoilt, restarts>>

\* ip_config_menu, KEY_4: first the flag, then the time.
AskRestartFlag ==
  /\ lpc = "main"
  /\ rst_flag' = 1
  /\ asked' = TRUE
  /\ lpc' = "ask"
  /\ UNCHANGED <<prog_mode_flag, current_menu, crossed, rst_tmr, tpc, tmr_reg, quiet, overtaken,
                 memory, network, program, spoilt, restarts>>

AskRestartTime ==
  /\ lpc = "ask"
  /\ rst_tmr' = AskTicks
  /\ asked' = TRUE
  /\ lpc' = "idle"
  /\ UNCHANGED <<prog_mode_flag, current_menu, crossed, rst_flag, tpc, tmr_reg, quiet, overtaken,
                 memory, network, program, spoilt, restarts>>

LcdTask ==
  \/ Dispatch \/ NoKey \/ OtherMenu
  \/ EnterProgFlag \/ EnterProgMenu \/ LeaveProgMenu \/ LeaveProgFlag
  \/ AskRestartFlag \/ AskRestartTime

-----------------------------------------------------------------------------
(* The network task: the countdown to a restart. *)

LoadTimer ==
  /\ tpc = "load"
  /\ rst_flag = 1
  /\ IF rst_tmr > 0 THEN tmr_reg' = rst_tmr - 1 /\ tpc' = "store"
                    ELSE tpc' = "test" /\ UNCHANGED tmr_reg
  /\ UNCHANGED <<menus, rst_flag, rst_tmr, quiet, asked, overtaken, memory, network, program,
                 spoilt, restarts>>

StoreTimer ==
  /\ tpc = "store"
  /\ rst_tmr' = tmr_reg
  /\ quiet' = IF quiet < RstTicks THEN quiet + 1 ELSE quiet
  /\ tpc' = "test"
  /\ UNCHANGED <<menus, rst_flag, tmr_reg, asked, overtaken, memory, network, program,
                 spoilt, restarts>>

GoOn ==
  /\ tpc = "test"
  /\ rst_tmr > 0
  /\ tpc' = "load"
  /\ UNCHANGED <<menus, rst_flag, rst_tmr, tmr_reg, quiet, asked, overtaken, memory,
                 network, program, spoilt, restarts>>

\* NVIC_SystemReset: the flash stays, what is under way on the net too.
Restart ==
  /\ tpc = "test"
  /\ rst_tmr = 0
  /\ restarts < MaxRestarts
  /\ restarts' = restarts + 1
  /\ prog_mode_flag' = 0 /\ current_menu' = "state" /\ lpc' = "idle" /\ crossed' = FALSE
  /\ rst_flag' = 0 /\ tpc' = "load" /\ tmr_reg' = 0
  /\ quiet' = 0 /\ asked' = FALSE /\ overtaken' = FALSE
  /\ fl_buf' = ZeroBuf
  /\ spoilt' = spoilt \cup {block} \cup {r.block : r \in {q \in ToSet(requests) : q.cmd = "update"}}
  /\ UNCHANGED <<rst_tmr, flash, network, program>>

NetworkTask == LoadTimer \/ StoreTimer \/ GoOn \/ Restart

-----------------------------------------------------------------------------
(* The loading program and the net. *)

SendUpdate ==
  /\ block <= NumBlocks
  /\ Len(requests) < QueueLimit
  /\ requests' = Append(requests, [cmd |-> "update", block |-> block, sub |-> sub])
  /\ UNCHANGED <<menus, timer, memory, answers, program, spoilt, restarts>>

SendMode ==
  /\ modes < MaxModes
  /\ Len(requests) < QueueLimit
  /\ modes' = modes + 1
  /\ \E r \in Mode : requests' = Append(requests, r)
  /\ UNCHANGED <<menus, timer, memory, answers, block, sub, spoilt, restarts>>

\* The next subpacket when this one is answered; any other answer is dropped.
TakeAnswer ==
  /\ answers # <<>>
  /\ answers' = Tail(answers)
  /\ IF Head(answers) # [cmd |-> "update", block |-> block, sub |-> sub]
     THEN UNCHANGED <<block, sub>>
     ELSE IF sub < SubCnt - 1
     THEN sub' = sub + 1 /\ UNCHANGED block
     ELSE sub' = 0 /\ block' = block + 1
  /\ UNCHANGED <<menus, timer, memory, requests, modes, spoilt, restarts>>

LoseRequest ==
  /\ \E i \in 1 .. Len(requests) : requests' = RemoveAt(requests, i)
  /\ UNCHANGED <<menus, timer, memory, answers, program, spoilt, restarts>>

LoseAnswer ==
  /\ \E i \in 1 .. Len(answers) : answers' = RemoveAt(answers, i)
  /\ UNCHANGED <<menus, timer, memory, requests, program, spoilt, restarts>>

Next ==
  \/ Serve
  \/ LcdTask
  \/ NetworkTask
  \/ SendUpdate \/ SendMode \/ TakeAnswer \/ LoseRequest \/ LoseAnswer

Spec == Init /\ [][Next]_vars

-----------------------------------------------------------------------------
(* Properties. *)

\* The device restarts only after RstTicks ticks without an update, or when the
\* operator has asked for it since; except when the last update came in the
\* middle of a count.
RestartsWhenQuiet ==
  [][ restarts' # restarts => asked \/ overtaken \/ quiet >= RstTicks ]_restarts

\* The device shows the program menu exactly when it takes updates; except when
\* the request for it came in the middle of a menu.
MenuShowsMode ==
  lpc = "idle" /\ ~crossed => (prog_mode_flag = 1 <=> current_menu = "prog")

\* Whatever requests and answers are lost and sent again, a block that was
\* answered to the end is in the flash whole, and stays so; except when a
\* restart came before its end, or before a late copy of it.
AnsweredIsFlashed ==
  \A b \in Blocks : b < block /\ b \notin spoilt => flash[b] = Whole(b)

=============================================================================
