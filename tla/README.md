# Verification of the BT816 display firmware

This directory holds TLA+ models of the firmware in `src/user` and
`src/include`, the TLC configurations that check them, and proofs about them
for the TLA+ proof system.

The program is the firmware of an operator display: an AT32F437 microcontroller
that drives a BT816 display controller, talks to a PLC over CAN, keeps an
archive of messages in a serial flash, and can be given new pictures over UDP.
It runs FreeRTOS with a tick of 1 ms. The tasks are created in `main.c`; those
of the application have the same priority and are time sliced, so a task may
lose the processor between any two instructions. The network stack's threads,
the UDP server among them, run above them. The CAN receive interrupt runs above
everything and is not interrupted. No mutex, critical section or queue guards
what these actors share: plain global variables. That is why most of the models
here are about interleavings.

## 1. Inventory

### Actors

| actor | code | what it does |
|---|---|---|
| network task | `main.c` 285-343 | once a tick: counts the silence of the PLC and drops the link, counts down to a restart, counts `can1_tx_tmr` |
| CAN task | `can_task.c` | once a tick: reports inputs, sends the heartbeat, drains the transmit ring |
| LCD task | `display_task.c`, `menu.c`, `menu/*` | draws, takes keys, runs the menus, scans messages, writes the archive and the PLC's variables |
| keyboard task | `keyboard.c` | scans the key matrix into `key` |
| UDP thread | `udpecho.c` | loads the picture flash, switches program mode |
| receive interrupt | `can.c` `check_can_rx_data` | heartbeats, values of the PLC, points of the trends |

### Components

**CAN transmit ring** (`can_tx_stack.c`). State: the slots with a state byte
each, `read_position`, `write_position`. Operations: `add_tx_can_packet` (CAN
and LCD tasks, through `can_cmd.c`), `get_tx_can_packet` (CAN task, through
`can_write_from_stack`). Hard: two producers without a lock, a consumer that
looks between any two of their statements, no test for a full ring. Correct
when no packet is lost, doubled, torn or overtaken.

**Link with the PLC** (`can.c`, `main.c`, `can_task.c`). State: `hb_cnt`,
`plc_can_link`, `cluster_data.plc_link`, `update_di` and the sampled inputs.
Three actors write these, two of them with read-modify-writes the interrupt may
fall into. Correct when a silent PLC is noticed and a talking one is not
dropped, and when the PLC's picture of the inputs does not go stale.

**Mirror of the PLC's variables** (`plc_data.c`, `can.c`, `can_cmd.c`,
`menu.c`). State: every bit and register twice, in `cl` and in `plc_...`
arrays. The interrupt writes both, the operator's write assigns both and sends
the value, the network task clears both when the link is lost. Correct when the
copies agree, a lost PLC leaves nothing on show, and what the operator wrote is
what goes out.

**Message archive** (`message_archive.c`, `zd25flash.c`). State in flash: a
sector of time-stamped page pointers and 128 pages of records; in memory the
current page, completed with the tail of the page before. Operations: open (at
boot), add, clear, read. Hard: the power may fail between any two flash
operations and inside one; a record that falls on cells that are not blank
erases the sector; the clock that stamps the pointers can be set back. Correct
when it behaves as a log of the last records that survives power cuts.

**Flash loading** (`udpecho.c`) with **program mode** (`state_menu.c`,
`prog_menu.c`, `menu.c`) and the **restart countdown** (`main.c`,
`ip_config_menu.c`). State: `prog_mode_flag`, `current_menu`, `fl_buf`,
`rst_flag`, `rst_tmr`, the picture flash. Hard: requests and answers are lost
and repeated, the operator and the net both switch the mode, the countdown runs
in a third actor. Correct when an answered block is in the flash, the menu
tells the mode, and the device does not restart under an update.

**Trends** (`trend_data.c`, `menu/*trend*`). State: rings of points that the
interrupt fills, and settings in battery registers. Hard: menus copy and move
whole trends while the interrupt adds to them, and settings are saved register
by register. Correct when a trend shows the last points it was given in their
order, and a restart finds the settings.

**Menus** (`display_task.c`, `menu.c`, `menu/*`) and the **password menu**
(`password_menu.c`). State: `current_menu`, which 39 handlers and the UDP thread
assign; what a password is asked for, its digits so far, the password in memory
and in battery registers. Hard: mode requests between a key and the menu it
leads to, one menu for three questions. Correct when nothing is configured or
cleared without the password it needs, the password changes only to what was
typed twice and stays, and every menu has a way back.

**Keyboard** (`keyboard.c`, the head of the loop in `display_task.c`). State:
the row being read, the word being gathered, `key`, and the LCD task's
`prev_key`. Operations: read a row, publish, take a command. Hard: keys change
between the rows of a scan, and the LCD task samples `key` at its own pace.
Correct when a press becomes one command and nothing else does.

**Message scanner** (`message_scaner.c`). State: `value` and `prev_value` of
every message. Operations: scan all messages, count the active ones. Hard: the
bits change at any moment, and the count refreshes the same values as the scan.
Correct when every rise is recorded, and recorded once.

**Variable editor** (`system_config_menu.c`, `edit_var_menu.c`,
`write_var_to_plc`). State: the list's place and cursor, `edit_var`, the digits
and the place among them. Hard: the variable is the last one drawn, the value is
read from characters into sixteen bits. Correct when the variable under the
cursor is sent the value typed last, within its limits.

**Settings editors** (`set_time_menu.c`, `add_trend_menu.c`,
`edit_trend_menu.c`, `ip_set_menu.c`). State: a value that each digit changes at
once. Hard: the value is brought within its limits, or wraps in eight bits,
after each digit, so that the digits pass through values nobody meant. Correct
when typing the digits of a value leaves that value.

**Clock and calendar** (`cur_time.c`, `set_time_menu.c`, `message_archive.c`
`get_archive_message_time`). State: the clock's registers and `dev_time`, which
both tasks read the clock into and the menu sets the clock from. Hard: the other
task may refill it between two fields; the clock runs on between two registers.
Correct when a stamp is a moment that was, and setting a field sets that field.

**Configuration reader** (`config.c`): walks the tables of an image once, at
boot. **Mnemonic screens**, **drawing**, **display controller driver**,
**boot-time loading from a card**, **board support**, **fonts**: output, one-time
setup or data.

### How they interact

- The interrupt sets `plc_can_link` and `update_di`; the CAN task turns
  `update_di` into packets for the ring; the network task clears `plc_can_link`
  and the mirror and adds a record to the archive.
- The LCD task writes the mirror and the ring, and is the archive's main writer:
  the network task's record of a lost link goes through the same buffers.
- Both tasks read the clock through `dev_time`; the LCD task sets it from there.
- The keyboard task publishes `key`; the LCD task makes a command of it, once a
  frame, after it has scanned the messages.
- The UDP thread changes `current_menu` under the LCD task's feet and starts the
  countdown the network task runs.

## 2. Plan

Done:

1. `CanTxStack`: the transmit ring; its proofs.
2. `RecordLog`, `MessageArchive`: the abstract log and the archive that
   implements it; its proofs.
3. `CanLink`: link and input reports; its proofs.
4. `FlashLoader`: loading, program mode and countdown; its proofs.
5. `PlcData`: the mirror and the operator's writes; its proofs.
6. `Trends`: the rings, the menus that copy and move them, their settings; its
   proofs.
7. `Menus`: the graph of menus and the password; its proofs.
8. `ArchiveWriters`: both tasks in the archive at once, against `RecordLog`; its
   proofs.
9. `Digits`: the editors' arithmetic.
10. `Calendar`: both conversions as functions.
11. `Clock`: `dev_time` and the clock's menu, over `Calendar` and `Digits`; the
    proofs of all three, in `Clock_proofs`.
12. `Keyboard` and `MessageScanner`, composed with the variable editor in
    `Panel`; its proofs.

Next: the reader of the configuration image, as functions from an image to
tables, if the image's format is ever written down to check them against.

The proofs are in one module per component, but for two pairs of components that
share an actor: `CanTask_proofs` is about what the CAN task and the tasks beside
it do to the ring (`CanTxStack`) and to the reports (`CanLink`), and
`CanReceive_proofs` about what the receive interrupt writes, the mirror
(`PlcData`) and the trends (`Trends`). So that both can be named in one module,
the definitions of `CanLink` and `Trends` that every specification has carry
their module's name: `LinkInit`, `LinkSpec`, `TrendInit`, `TrendSpec`.

## 3. The modules

One action is one store to shared state, or a group of statements no other actor
can tell apart. Local variables that live across actions are variables, named
as in the code; `pc` variables name the next statement. Variables under
"history" are not in the program: properties need them. `MC...` modules hold
what only TLC needs.

### CanTxStack

| model | code |
|---|---|
| `packet`, `read_position`, `write_position` | `can_tx_stack` |
| `Call` .. `Advance` | `add_tx_can_packet`: read the position, mark the slot busy, data, id and length, mark it ready, advance |
| `StartWrite`, `PollReady`, `PollStop`, `Transmit` | `can_write_from_stack` |
| `CopyHeader`, `CopyData`, `Release` | `get_tx_can_packet` |
| `TxTimer` | `can1_tx_tmr` in the network task |
| `MailboxSent` | the controller (external) |

A packet is the number of the call that queued it. A slot keeps the source of
its data and of its header apart, so a torn packet is one where they differ.
The early return for a length over 8 is left out: every caller passes at most 8.
The statements are taken in source order.

What it shows: while producers do not overlap and the ring does not overflow,
the ring is an exact FIFO (`QueuedInOrder`, `SentInOrder`). Both conditions are
history variables, because the code enforces neither. `PhaseIsKept` says what an
overflow does: the distance between the two positions and the number of waiting
packets changes only when a waiting packet is overwritten: nothing but another
overflow brings it back.

### RecordLog and MessageArchive

`RecordLog` is the promise: the last `Capacity` records, newest first; add and
clear. Some accidents damage it: then it shows the records added since, newest
first, and behind them old ones in any order, until it is cleared or `Healing`
records were added. `MessageArchive` is the code, for one task and a power that
fails; `ArchiveWriters`, below, is the code for two tasks. Both implement
`RecordLog`.

| model | code |
|---|---|
| `ptrs`, `pages` | the pointer sector and the pages in the serial flash |
| `arch_buf`, `last_rec_ptr`, `archive_page_num`, `offset_in_page_ptr_page` | the statics of `message_archive.c` |
| `OpenArchive`, `OpenNoArchive` | `open_archive`, with `search_last_record` |
| `StartAdd`, `FillBuffer`, `ProgramRecord` | `add_record_to_archive` |
| `ErasePtrs`, `ProgramPtr` | `create_new_page_ptr` through `zd25_flash_write` |
| `ErasePage` | the branch of `zd25_flash_write` for cells that are not blank |
| `StartClear`, `ErasePages` | `clear_archive` |
| `erasing`, `Finish`, `ChipReady` | the page that the chip still erases after a clear, and the end of that (external) |
| `Ignored` | a write that meets the chip busy: the driver waits after it, not before |
| `Shown` | `get_archive_records_cnt`, `get_record_with_offset_from_last` |
| `PowerCut`, `CutFlash` | external |
| `SetTime` | `set_time_menu.c`, and time itself |

A record is its number. A checksum tells a cell written whole from any other.
The branch for the internal flash (`zd25_flag = 0`) cannot run: the flag is set
to 1 before the archive is opened (`message_archive.c:191`). A record length byte
of 0xFF makes `check_record` read past the record; the result is taken as "not
valid". A sector program is taken to succeed, and an erase to finish within the
50 polls the driver allows.

`clear_archive_page` does not wait for the flash before the next page; the
flash ignores a command it gets while it erases, so of the pages after the
first any subset is erased. Nor does it wait after the last one: the chip may be
busy when the next operation begins (`erasing`). While it is, a read answers
anything, so that `zd25_flash_write` may or may not find its place blank, and
the command to erase or to program is ignored. After it the driver polls until
the chip is done, so that a clear costs one write at most. When that is the first
record after the clear, it is in `arch_buf` and on show, but not in the flash,
and the first cell of page 0 stays blank while later ones are filled: a boot
would take the page for an empty one. `missed` remembers this until that cell is
written or erased.

What it shows: with power cuts anywhere the archive implements `RecordLog`
(`ImplementsLog`): a cut it survives, with the boot after it, is a stutter of the
log, and any other damages it for no more than four records or until a clear. A
cut is survived when `Survivable` holds and no cut so far has left half written
or half erased cells (`scarred`). `Survivable` is a sufficient condition, not an
exact one. What it leaves out are weak places that TLC found: a pointer stamped in
the same second as an older one or with a clock set back, a cut inside a clear, a
cut inside a page turn once the flash has been touched, cells of the previous
page older than the last clear, a cut while the chip still erases the page of the
newest record, and a page 0 whose first record the busy chip has ignored. The
last is the longest-lived: clear, add, add, cut, and the boot finds an empty page;
the next record fills the gap, and the one after it erases the sector with a
record that is on show.
So the sector erased to take a record holds no record on show
(`EraseSparesShown`) with two exceptions: half written cells (`scarred`), and
page 0 while `missed`. A clear right after a clear may find its pointer ignored, or
programmed over the one that was not erased (`ProgramPtr`); `stampedInOrder` is
false then.

`ClearedStaysCleared` is violated whatever the busy chip does: it speaks only of
the states in which page 0, which a clear erases first, holds no record from
before the clear.

### ArchiveWriters

| model | code |
|---|---|
| `BeginAdd` .. `EndAdd` | `add_record_to_archive`, with `create_new_page_ptr`, in the LCD and the network task |
| `BeginClear`, `ClearStatics`, `EndClear` | `clear_archive` |
| `Write`, `Spoilt` | `zd25_flash_write`: its exchanges, and what they come to when the other task's come between |
| `rec` | the static record that pointers are built in |
| `page_num` | the argument of `create_new_page_ptr`, fixed by the call |
| `busy`, `Ready` | the chip (external): while it works it ignores every command but the one for its status |
| `Init` | `open_archive`, of records without an accident |

The tasks share the statics, the sector buffer and the chip, without a lock. One
action is one statement or one round of exchanges. Two rounds at once may lose
commands, leave the erased sector blank or fill it from the other task's buffer.
Power cuts are left out, and so are the stamps of the pointers: only a boot reads
them.

What it shows: while the tasks take turns, the archive is the log of its last
records, and after they met in it, it is damaged until it has been cleared or
filled anew (`ImplementsLog`, `Healing` = a page of records). A record that was
added alone, with the chip idle when it began, is in the flash where the next
boot looks for it, and so is the pointer to its page (`FlashHasNewest`). Nothing
worse happens than damage: indices stay in the arrays, and a task alone never
writes behind the archive (`TypeOK`). Met on the way: with both tasks inside, the
pointer can name page `PageCnt`, one behind the last; it can be written over the
first record of page 0 (its offset is read again after the wrap); a record that
the second store has torn hides older ones; and a record added right after a
clear is lost from the flash, because the chip is still erasing.

### CanLink

| model | code |
|---|---|
| `Heartbeat`, `Event` | `check_can_rx_data` |
| `LoadCount` .. `ResetPlcData` | the network task's silence count, one load or store at a time |
| `SampleInputs` .. `KeepInputs` | `update_di_data` |
| `ChangeInput`, `RestartPlc` | external |

`hb_cnt` is not volatile, so `CheckCount` compares the register or the variable.
`Heartbeat` takes any node of cluster 0; the code clears `plc_link[0]` only, and
so does `Unlink`. `get_io_names_flag` is left out: nothing reads it but its own
counter. The reports reach the PLC: the way there is `CanTxStack`.

What it shows: no interleaving hides a silent PLC (`SilenceIsSeen`); a link is
dropped only after the full silence and with a record in the archive
(`LossOnlyAfterSilence`), except when the last heartbeat fell between the load
and the store of the count or after the decision (`overtaken`): then it is
lost, and a live PLC may be dropped until its next heartbeat. An input is known
to the PLC or marked for the next report (`ReportedUnlessMarked`), except when
the link came up between the load and the store of the marks: then the refresh
is wiped out. A PLC that restarts within three seconds never causes a refresh
at all, which is why `refreshed` falls at `RestartPlc`.

### FlashLoader

| model | code |
|---|---|
| `Serve`, `TakeUpdate`, `SetMode`, `Refuse` | `udp_answer`, commands 1, 3, 4 |
| `Dispatch`, `NoKey`, `OtherMenu`, `EnterProg...`, `LeaveProg...` | the LCD task in `display_menu`, `state_menu`, `prog_menu` |
| `AskRestartFlag`, `AskRestartTime` | `ip_config_menu`, KEY_4 |
| `LoadTimer`, `StoreTimer`, `GoOn`, `Restart` | the countdown in the network task |
| `SendUpdate`, `SendMode`, `TakeAnswer`, `LoseRequest`, `LoseAnswer` | the loading program and the net (external) |

A block is a number that stands for the bytes of its subpackets. The loading
program sends each subpacket until it is answered. Requests with a wrong length,
reads of the flash and the device name change nothing but the countdown and are
left out. Packets keep their order. "main" stands for the main menu and the
menus under it.

What it shows: whatever is lost or repeated, an answered block is in the flash
whole (`AnsweredIsFlashed`), unless a restart fell into it: then the last
subpacket is answered with success though the first part was lost, and the
property excepts that block (`spoilt`); the menu shows the
mode (`MenuShowsMode`), unless a mode request fell into the middle of a menu's
statements; the device restarts only when it has been quiet, or was asked to
(`RestartsWhenQuiet`), unless an update fell between the load and the store of
the countdown. Leaving program mode does not stop the countdown.

### PlcData

| model | code |
|---|---|
| `cl`, `plc` | the two copies: `cl` and the arrays of `plc_data.c` |
| `Event`, `Heartbeat` | `check_can_rx_data` |
| `StartWrite`, `WriteCl`, `WriteArray` | `write_var_to_plc` |
| `PackId` .. `PackHigh` | `write_clust_bit`, `write_net_bit`, `write_clust_reg`, `write_net_reg` |
| `LoseLink`, `ResetCl`, `ResetArray` | the loss of the link and `reset_plc_data` |
| `Addr`, `Index`, `Heard` | the numbering on the bus, as the senders build it and as the receiver takes it apart |

A value is a low and a high byte, so that a register read in two loads can be
torn. Bits are 0 or 1, and the value is within its limits by the time of
`StartWrite`. The PLC's addresses (`PlcFrames`, external) go from the first one of
the kind (`FirstAddr`) to 255. Behind the end of an array the receiver drops a
value (`Heard`), and `TypeOK` checks that. That no address lies below the first is
assumed of the PLC and shown by nothing here: `can.c` 223 and 247 take 16 and 17
off without a check, and a lower number would index in front of the array.
Network variables of every cluster land in the same arrays. The write tests
`plc_can_link` once, at its beginning, and may end after the link is lost.

What it shows: the copies agree except where two parties were between the two
assignments of one variable at once (`CopiesAgree`, `crossed`); what the reset
has passed is zero unless it was assigned since (`LostIsCleared`; bits and registers
only, the arrays of the inputs and outputs are not modelled); what the operator writes is what a receiver on the bus decodes, for the right variable
(`WriteIsHeard`), except when the cluster address changed between its two reads
(`moved`) or, for a register, another party assigned the array before the packet
was built from it (`overrun`): `write_clust_reg` and `write_net_reg` ignore
their parameter.

### Trends

| model | code |
|---|---|
| `trends`, `tr_cnt`, `tmp_trends`, `tr` | the statics of `trend_data.c` and of the menus |
| `bpr` | battery registers ERTC_DT7 to DT16 |
| `NewPoint` | `check_and_add_data_to_trend_from_can`, `add_data_to_trend` |
| `Around` | the two wraps of `add_data_to_trend` |
| `OpenEditor`, `CopyIn`, `ChangeSource`, `LeaveEditor`, `SaveEdit`, `CopyOut` | `edit_trend_menu` |
| `Add`, `CopyAdded` | `add_trend_menu`, `add_trend` |
| `Delete`, `Move` | `delete_trend_info_menu`, `delete_trend` |
| `Save`, `TrendInit`, `Restart` | `save_trends`, `init_trends` |
| `Shown` | what `draw_trend` draws |

A structure assignment is a copy upwards, word by word; a point counts as one
word though it is two. The settings of a trend (source and four limits) are one
value, its source: they travel together, in one step to the registers as well.
Registers hold what the program once wrote, so that the correction of a number
of an input that is out of range (`trend_data.c:84`) never runs. Drawing is one
snapshot.

What it shows: a trend shows its last points in their order (`PointsAreKept`);
saving the editor takes every trend, not only the edited one, back to its entry;
a copy the interrupt falls into may lose, repeat or hide points until the ring
has been written round once (`heals`); but when it falls between the indices and
the full flag, the oldest index may stay beside its place for good (`slipped`,
`PhaseIsKept`). A restart finds the settings (`BootKeepsTrends`); when it falls
into a save, it finds those that the save had come to, the number first. What
it finds for the others is old or new; nothing is claimed of that mixture, nor of
a restart while a menu is moving the list.

### Menus

| model | code |
|---|---|
| `state_menu` .. `net_regs_menu` | the `switch (key)` of each handler: where its keys lead |
| `Links`, `Leads` | `screen[]`, `display_menu` |
| `Operations` | what a key does besides: write a variable, set the clock, ... |
| `Display` | one round of `lcd_task_function`: a handler starts with a key |
| `Follow`, `Operate`, `Ignore` | the handler ends |
| `AskPassword` | `set_passwd_cmd` and the way to `MENU_PASSWD` |
| `TypeDigit`, `TypeFirst`, `TypeSecond`, `TypeRight`, `TypeWrong`, `LeavePassword` | `passwd_menu`, `check_tmp_passwd`, `set_passwd_value` |
| `SetMode` | commands 3 and 4 of the UDP server |
| `Restart`, `Init` | `read_password` |

All 39 handlers are there, among them the old menus that no menu in use leads to
(`MENU_MANAGE` and the like). The LCD task hands a handler a key once, when it
is pressed. `set_passwd_value` is one step: a power cut inside it leaves a mark
the boot does not accept, as a cut after it does. Digits of a password are left
in place by the code and counted by `pos`; here `tmp_passwd` holds the counted
ones. An operation is possible, not certain: a variable is not written without a
link, a fourth trend is not added.

What it shows: nothing is configured before the password was typed, since a menu
open to everybody was last drawn (`OpsNeedPassword`), whatever mode requests come
in between; clearing the archive needs its own password (`ClearNeedsPassword`); a
password changes only to one typed twice in a row by who knew the old one
(`PasswordTypedTwice`); LEFT and EXIT lead home (`NoTrap`). The new password does
not outlive a restart (`PasswordIsKept` is violated).

### Digits and Calendar

Pure functions, without a state machine of their own.

| model | code |
|---|---|
| `Replaced`, `Typed` | `update_date_time_value` (`set_time_menu.c`), `update_param_value` (`add_trend_menu.c`, `edit_trend_menu.c`) |
| `OctetTyped` | `update_value` (`ip_set_menu.c`) |
| `DayNumber`, `time_to_uint32` | `time_to_uint32` (`cur_time.c`) |
| `DateOf`, `get_archive_message_time` | `get_archive_message_time` (`message_archive.c`) |

A number of 32 bits is a pair: its multiple of 128 and the rest. `Clock_proofs`
proves both against what they should do, see section 5; `Clock` runs them.

What they show: whatever a field held, its digits typed from the left leave the
number typed, within its limits. An octet is kept in eight bits and may wrap on
the way: 200 typed over 192 gives 0, because 292 wraps first; this happens for
5288 of the 65536 pairs of an old and a new octet, and is right when the digits
are typed again. The dates of the years 1 to 99 and the seconds of 2001 to 2099
come back from the archive as they went in. A clock in the year 00 is before the
calendar begins: its count wraps, and is shown as the year 137, at another time
of day.

### Clock

| model | code |
|---|---|
| `rtc`, `Tick` | the clock (external) |
| `dev_time`, `Get`, `Store` | `ertc_calendar_get(&dev_time)`, field by field |
| `BeginStamp`, `Take` | `time_to_uint32(&dev_time)` and the fields for a record |
| `OpenMenu`, `Show`, `BeginDraw` | `init_time_menu`, `update_time_menu`, and the state menu's clock |
| `TypeDigit`, `Enter`, `SetDate`, `SetTime` | `update_date_time_value` and the two calls that set the clock |
| `Right`, `Leave`, `NoKey` | the keys of `set_time_menu` |

The registers are read at once: the controller freezes the date until it is
read. The arguments of one call are taken in one step, so are the values that
the menu shows. `set_time_menu` compares a digit with its `prev_key`
(lines 252-281); that is left out, because the LCD task hands a held key to a menu
in one frame only (`display_task.c` 87-91).

What it shows: a record's stamp is one moment, unless both tasks met in
`dev_time` while a minute ended or a digit was being set (`StampIsTime`). A digit
changes one field and no other, and two digits leave their number
(`SetIsTyped`), unless the network task read the clock meanwhile, which may lose
the digit, or the day changed between the setting of the date and of the time:
then the clock gains a day. These two exceptions are what the code lets happen:
the properties bound the damage and do not show that there is none. What the
clock makes of a date that does not exist, which the digits may pass through, is
not in the program. Setting the clock loses the seconds since it was read.

### Keyboard, MessageScanner and Panel

`Panel` composes the two with the variable editor: they share the frames of the
LCD task.

| model | code |
|---|---|
| `Press`, `Release` | the operator (external) |
| `ReadRow`, `Publish` | `keyboard_task_function` |
| `Command`, `TakeKey` | the edge in `lcd_task_function` (`display_task.c` 87-91) |
| `Change` | the interrupt, the network task and `write_var_to_plc` (external) |
| `ScanMessage` | `scan_messages`, one message |
| `CountActive` | `get_active_messages_cnt`, `get_message_by_number` |
| `Up`, `Down`, `Back`, `Select`, `ListOnly` | `system_confug_menu` |
| `TypeKey`, `Clear`, `Cancel`, `Send`, `EditOnly` | `edit_var_menu`; `Limited`: `write_var_to_plc` |
| `OtherMenu` | every other menu, as far as it matters here |

A word of keys is the set of its bits. The frame after the scan of the messages
is one step: but for the keys, the bits and the link, each read once, nobody else
writes what it reads. `stop_display` is taken to be 0, so that the loop runs. The
mirror's copies, which `Send` assigns, are in `PlcData`; what a record does in
`MessageArchive` and `ArchiveWriters`.

What it shows: no command comes without a press (`KeysArePresses`), except that
when one of two keys is let go the other is commanded again; a key held alone is
answered (`PressIsTaken`). A press shorter than a frame, or a second key while one
is held, may be lost. An alarm is recorded (`AlarmIsRecorded`), and not again
before its bit has fallen (`RecordedOnce`), whatever the state menu counts in
between. What is sent is the value typed last, for the variable under the cursor
or the last of the list when the cursor is below it (`SentIsMeant`), unless the
value holds a 9, at which it is cut off (`edit_var_menu.c:71` tests for below
`'9'`), or does not fit sixteen bits: then it wraps before it is limited. ENTER
with nothing typed sends the lowest value allowed.

## 4. The runs

| run | configuration | properties | bounds |
|---|---|---|---|
| `can_tx_ring` | `MCCanTxStack.cfg` | `TypeOK` `QueuedInOrder` `SentInOrder` `PhaseIsKept` `EventuallyTaken` | 3 slots, 4 packets, 2 tasks, 2 mailboxes |
| `archive` | `MCMessageArchive.cfg` | `EraseSparesShown` `ImplementsLog` | 3 pages of 2, 3 pointers, 10 records, 2 cuts, torn cells, 3 clock values |
| `archive_clear` | `MCArchiveClear.cfg` | `ClearedStaysCleared` is violated | 10 records, 1 cut |
| `archive_writers` | `MCArchiveWriters.cfg` | `TypeOK` `FlashHasNewest` `ImplementsLog` | 2 pages of 2, 2 pointers, 3 records held, 3 more, 1 clear |
| `plc_link` | `MCCanLink.cfg` | `LinkTypeOK` `SilenceIsSeen` `ReportedUnlessMarked` `LossOnlyAfterSilence` `LinkIsLost` `InputsAreReported` | 2 inputs, 2 nodes, limit 2, period 2, 2 heartbeats, 1 change, 1 restart |
| `flash_load` | `MCFlashLoader.cfg` | `MenuShowsMode` `AnsweredIsFlashed` `RestartsWhenQuiet` | 2 blocks of 2, countdown 2, 2 packets each way, 1 mode request, 1 restart |
| `plc_data` | `MCPlcData.cfg` | `TypeOK` `CopiesAgree` `LostIsCleared` `WriteIsHeard` | a cluster register, a network bit in frames of up to 2, 2 cluster addresses |
| `trends` | `MCTrends.cfg` | `TrendTypeOK` `PointsAreKept` `PhaseIsKept` `BootKeepsTrends` | 2 trends of 3 points, 2 sources, 5 points and 1 visit between restarts |
| `menus` | `MCMenus.cfg` | `TypeOK` `OpsNeedPassword` `ClearNeedsPassword` `NoTrap` `PasswordTypedTwice` | all menus and keys, passwords of 2 digits out of 2 |
| `menus_restart` | `MCMenusRestart.cfg` | `PasswordIsKept` is violated | the same |
| `clock` | `MCClock.cfg` | `StampIsTime` `SetIsTyped` | hour and day, digits 0 and 3, 1 second, 2 stamps or digits, 1 visit to the menu |
| `panel` | `MCPanel.cfg` | `TypeOK` `KeysArePresses` `PressIsTaken` `RecordedOnce` `AlarmIsRecorded` `SentIsMeant` | 2 rows of keys, 2 held at once, 1 message, 2 lines, 2 digits, a word of 16, limits 1 to 12, 9 visits |

Why the bounds are enough. Three slots let the ring wrap both partly filled and
full, and four packets overflow it; two producers are all the code has.
Three pages of two records let the ring of pages come round, with a page before
the current one that is not the page after it; three pointers fill the
pointer sector so that it is erased; ten records fill every page and begin the
first again. A limit of two ticks distinguishes a count below, at and past it.
Two subpackets are a first and a last one; two blocks let a late copy of one
meet the other; two requests and two answers let copies be under way.
A register and a bit are a variable sent from the array and one sent from the
parameter, each with a neighbour to be hit by mistake; a frame of two bits reaches
past the end of an array of one.
Two trends are one that is deleted and one that moves; five points fill a ring of
three and go on past its end; a restart begins the counts anew, so that a visit
may follow any saved settings. Four passwords are the default, the user's, the
secret one and one more, and two digits are a first and a last one.
For two writers, three records held put the next add on the last place of a page
and the one after it on a page turn that erases the pointers; two pages make the
wrap of pages and of pointers fall together. `archive_writers` checks no deadlock:
records and clears run out, and then the system rests.
One second is enough for the clock to run on between any two steps, and the two
start times are the last second of the 28th of February of a leap year and one
in the middle of a minute; digits 0 and 3 give days below, within and above the
limits. Two rows are a scan that keys can tear; a visit of `MCPanel` picks the
keys, presses, variables and changes of bits that one question needs: a third
digit that begins a new value, a 9, a clear, a list that moves under the cursor, a
cursor below the last variable, no variable, a link that changes, a message that
rises, falls and rises.

### Fairness

`can_tx_ring`, `plc_link` and `panel` check liveness too; the other runs
assume no fairness. `can_tx_ring` assumes that a task that is inside an
operation goes on (equal priorities, time slices), that the controller sends
what is in its mailboxes, that the timer runs, and strong fairness for entering
`can_write_from_stack`: the CAN task comes by once a tick (`can_task.c:68`), and
`can1_tx_tmr`, counted once a tick too, stays at or past the gap for more than
one tick of its period, so that the task meets it there again and again.
Nothing forces a task to queue a packet. `plc_link` assumes that the two tasks go on;
nothing is assumed of the interrupt, of the inputs or of the PLC. `panel` assumes
that the LCD task and the keyboard task go on (equal priorities, time slices; both
loop for ever), and nothing of the operator, the bits or the link.

### Findings

- `archive_clear`: `message_archive.c:319` says that the archive in flash is
  cleared. 30 of 128 pages are erased, and a reboot may bring old records back.
- `menus_restart`: `password_menu.c:156` says "update password", but the
  registers are marked 0x1234 (`password_menu.c:61`) and the boot accepts only
  0x1235 (`config.c:743`): a restart brings 1-2-3-4-5-6 back.

## 5. What is proved

For every value of the constants the assumptions allow. `TaskAssumption` (the
CAN task is a task), `SizeAssumption`, `LinkAssumption`, `MenuAssumption`,
`PanelAssumption`, `ScannerAssumption`, `LoaderAssumption` ask for lengths,
limits and counts that are numbers, positive where an array or a period is meant.
`RowsAssumption`: every key is in one row. `DataAssumption`, `AddressAssumption`:
a byte is a byte, and the variables have numbers that the address byte can hold.
Part of the environment, and not a result, is that the PLC sends no number below
the first of a kind (`FirstAddr` in `PlcFrames`).
`ClockAssumption`: the start times are times. `WritersAssumption`: the archive
has two pages at least and begins with no more records than it can hold.
`ArchiveAssumption`: two pages at least, a clear erases some of them, the clock shows
positive numbers, and `Healing`, a constant of the log and not of the code, is
two pages of records or more: after that many the two pages on show are new.
`TrendAssumption`: there is a trend, and a ring has room for a point. TLC evaluates each
in the runs of its module.

| theorem | statement | argument |
|---|---|---|
| `CanTask_proofs!TypeCorrect` | `Spec => []TypeOK` | inductive once it says that a mailbox is free while the consumer holds a packet and that only the CAN task drains |
| `CanTask_proofs!RingIsFifo` | `Spec => []QueuedInOrder` | by `IInv`, below |
| `CanTask_proofs!FramesInOrder` | `Spec => []SentInOrder` | by `IInv` |
| `CanTask_proofs!PhaseNeverHeals` | `Spec => PhaseIsKept` | a lone caller has done part of its add; each statement moves the positions, or the slots between them, as `Phase` counts them |
| `CanTask_proofs!LinkTypes` | `LinkSpec => []LinkTypeOK` | inductive with `npc = "load" => hb_cnt < HbLimit` |
| `CanTask_proofs!SilenceSeen` | `LinkSpec => []SilenceIsSeen` | the count is never behind the silence, at each statement of the count |
| `CanTask_proofs!LossNeedsSilence` | `LinkSpec => LossOnlyAfterSilence` | the count is never ahead of the silence unless overtaken; a loss under way has been archived |
| `CanTask_proofs!InputsReported` | `LinkSpec => []ReportedUnlessMarked` | the same relation at each statement of `update_di_data` |
| `CanReceive_proofs!MirrorTypes` | `Spec => []TypeOK` | by `Places`, and the numbers that fit the byte; of a frame's numbers it shows that none passes the end of the array (`Heard`), the lower end is the assumption on the PLC |
| `CanReceive_proofs!CopiesAlwaysAgree` | `Spec => []CopiesAgree` | by `DataInv`, below |
| `CanReceive_proofs!LostAlwaysCleared` | `Spec => []LostIsCleared` | by `DataInv` |
| `CanReceive_proofs!WritesAreHeard` | `Spec => []WriteIsHeard` | `SendInv`: what of the packet is put together at each statement; adding and subtracting the first number of a kind cancel out |
| `CanReceive_proofs!TrendTypes` | `TrendSpec => []TrendTypeOK` | inductive with `TrendPlaces`: every copy is of a trend |
| `CanReceive_proofs!TrendsShowTheirPoints` | `TrendSpec => []PointsAreKept` | by `TrendInv`, below |
| `CanReceive_proofs!RingsKeepPhase` | `TrendSpec => []PhaseIsKept` | by `TrendInv` |
| `CanReceive_proofs!TrendsSurviveRestart` | `TrendSpec => BootKeepsTrends` | `Saved`: which registers agree with the trends at each step of a save, also for the registers that a save under way has passed |
| `MessageArchive_proofs!ErasureSparesShown` | `Spec => []EraseSparesShown` | by `IInv` of the archive, below; page 0 is excepted while `missed` |
| `MessageArchive_proofs!ArchiveImplementsLog` | `Spec => ImplementsLog` | by that `IInv`, step by step |
| `FlashLoader_proofs!MenuTellsMode` | `Spec => []MenuShowsMode` | `MenuInv`: what each statement of a menu's handler finds |
| `FlashLoader_proofs!LoadIsNotCutShort` | `Spec => RestartsWhenQuiet` | `TimerInv`: what is left of the countdown and the quiet ticks make up the whole time |
| `FlashLoader_proofs!AnsweredStaysFlashed` | `Spec => []AnsweredIsFlashed` | by `LoadInv`, below |
| `ArchiveWriters_proofs!WritersStayInArchive` | `Spec => []TypeOK` | by `IInv`, below |
| `ArchiveWriters_proofs!AddedAloneIsFlashed` | `Spec => []FlashHasNewest` | by `IInv` |
| `ArchiveWriters_proofs!WritersImplementLog` | `Spec => ImplementsLog` | by `IInv`, step by step |
| `Menus_proofs!MenuTypes` | `Spec => []TypeOK` | every deed of a link is one that a handler knows; a full password is taken before another digit is |
| `Menus_proofs!Unlocked` | `Spec => []OpsNeedPassword` | by `Inv`, below |
| `Menus_proofs!ClearedWithPassword` | `Spec => []ClearNeedsPassword` | the last entry is what was compared |
| `Menus_proofs!ChangedKnowingly` | `Spec => PasswordTypedTwice` | while a password is to be repeated, `new_passwd` is the last entry, and `Inv` |
| `Menus_proofs!AlwaysHome` | `Spec => []NoTrap` | by `Places` only the menus in use are reached, and three presses lead home from each |
| `Panel_proofs!PanelTypes` | `Spec => []TypeOK` | with `KeysInv`, `ScanInv` and `ListInv` |
| `Panel_proofs!CommandsArePresses` | `Spec => []KeysArePresses` | by `PressesCover`, below |
| `Panel_proofs!AlarmsAreRecordedOnce` | `Spec => RecordedOnce` | by `ScanInv`: a message recorded since its bit last fell has `prev_value` set |
| `Panel_proofs!VariableIsSelected` | `Spec => []EditedIsSelected` | below the end of the list, the last variable has been drawn: the cursor moves one a frame |
| `Panel_proofs!WhatIsMeantIsSent` | `Spec => SentIsMeant` | by `VariableIsSelected`'s invariant and `TypedInv`, below |
| `Clock_proofs!TwoDigitsSet`, `ThreeDigitsSet` | digits typed leave their number, within the limits | each digit keeps those to its left, or the limit |
| `Clock_proofs!OctetSet`, `OctetSetTwice` | the same for an octet that does not wrap; and after a second pass for one that does | by the digits of the old octet |
| `Clock_proofs!DateIsFound` | `DateOf` finds the date of `DayNumber`, years 1 to 99 | by the day of a year that begins in March |
| `Clock_proofs!TimeIsFound` | the time printed for a stamp is the time stamped | by `DateIsFound`; the pair does not wrap |
| `Clock_proofs!StampsAreTimes` | `Spec => []StampIsTime` | `Origin`: where each field a task has read came from; and `TimeIsFound` |
| `Clock_proofs!DigitsSetTheClock` | `Spec => SetIsTyped` | `Entered`, `Undisturbed`: what of the time read is still there at each statement; and `TwoDigitsSet` |

`QueuedInOrder` is not inductive: it says nothing of who is where. `IInv` adds
that one caller at most is inside (`OneCaller`), what that caller has written so
far and where (`CallerSlot`), that the number of queued packets is the distance
between the positions (`InStep`), and what the consumer has copied (`CopySlot`).

`CopiesAgree` is not inductive either: after the first of two assignments it is
excused, and the second must make it true again. `MidWay` says that a party
between its two assignments finds its first one undisturbed or the variable
crossed, and `HalfCleared` says that a copy the reset has cleared stays zero
until the other one is. Frames stay undefined in the proof: it holds for any
set of variables an interrupt assigns at once.

`AnsweredIsFlashed` speaks of the flash alone, and the network gives back what it
was given long ago. `Asked` bounds how long: of the updates on their way each is
the one the loading program sends now or the one before it, and none of the older
stands behind one of the newer. `Answered` says that the current one is answered
only when the previous one is in the buffer or the flash and is asked for no more,
and `Buffered` what the buffer holds of the block, and of the block before while a
late copy of its last subpacket may still come: that copy writes the block a
second time, and must write the same.

`PointsAreKept` is not inductive: it is silent while a copy is under way and
until a torn ring has healed, and then says all at once. `Kept` says at every
moment how much is certain: the points given since a copy was torn, as many as
the ring's size less `heals`, stand right before the write index (`Behind`),
whatever the other places hold; when nothing is to heal, they are all the ring
shows (`Whole`). A new point makes one more certain. `Agreed` carries this
through a copy: up to the word it has come to, target and source agree unless the
interrupt fell into it, and in their indices unless it fell between the last two
words. `AllKept` says so of the trends, and of the editor's copies while they
count (`Held`).

The archive shows what is in memory, a boot what is in the flash, and a record is
in both at different moments. `Number` is the number that belongs into each cell
of the ring of one page; the parts of the archive's `IInv` say at each statement
that it is there: in the buffer (`Memory`), the newest ones in the page
(`InMemory`), the older ones in the page before (`InFlash`), and that the pointer
to the page is the one that a boot takes (`Pointed`). A cut moves this to the
boot: `Bootable` says that when the archive survives the cut, the boot finds all
that was on show. Half written cells (`scarred`) end what is said of the flash,
and a damage what is said of the records before it. `Busy` says when the chip can
still be erasing: only from a clear to the first write after it. `Gone` says of a
record it has ignored that no page holds it, so that the erasure of a page takes
only what is not on show, page 0 excepted while `missed`. The longest run of valid
cells, which the code finds by counting, is characterised once (`RunFound`) and
then known by its two properties. From `IInv` the steps map: the store of a record
is `Add`, or `AddToDamaged` while the log is damaged, a boot that finds other
records `Surface`, a cut that is not survived `Damage`, the end of a clear
`Clear`; all others stutter.

For the two writers the program keeps no relation while both are inside, so
`IInv` has three parts. Whatever the two do, the counts go one too far at most,
once for each task that is about to write a pointer (`Bounds`), and the history
knows that they met (`Meeting`). A task that is alone leaves at each statement
what the next one needs: the place, the pointer, the record (`AddsAlone`), or
emptied statics (`ClearsAlone`). At rest memory is what is on show, or a mixture
with the newest records in front (`AtRest`). From it the steps map: the end of an
add alone is `Add`, of an add to a damaged archive `AddToDamaged`, of an
overlapped one `Surface`, the second begin `Damage`, the end of a clear `Clear`;
all others stutter.

`OpsNeedPassword` needs `Guarded`: who is in a configuration menu, or is asked to
set a password, has typed the old one; and `Places`: the old menus, one of which
writes variables unasked, are never reached. Both rest on `AllLinks`, four facts
about the 96 links, checked handler by handler.

`KeysArePresses` is not inductive: a press has to be followed from the matrix to
the command. `credit` is never less than the number of times a key still rises
on its way, from `prev_key` to `key`, to what the scan has read, to what is held:
each stage takes the key from the one before it, and so adds no rise.

`StampIsTime` needs the way of each field: `dev_time` is filled and read field by
field, and either task may fill it in between. `Origin` says that a field read is
one that came into `dev_time` since the record began, and the property excuses
only times that differ in more than one field.

`SentIsMeant` needs what is on the screen: `OnScreen` says that it is the end of
`typed`, begun after a multiple of `TextLen` digits, so that the division in
`LastDigits` finds it. That the editor's reading of the text is the number of the
digits is an induction over the digits, which is done by hand: of the places
where a computed value could fail to exist, or differ, one would be the first
(`Least`, `UpTo`, `Computed`, `ValueIs`).

Only model-checked: liveness (`EventuallyTaken`, `LinkIsLost`, `InputsAreReported`,
`PressIsTaken`, `AlarmIsRecorded`), which the prover's backends do not cover under
fairness. Every other property of the passing runs is a theorem.

## 6. What is not modelled

`PROJECT.json` lists every component with its status. Most of the repository is
third-party code: of about 300,000 lines of C, all but some 16,000 in `src/user`
and its headers are the vendor's drivers and CMSIS, FreeRTOS, lwIP and FatFs, and
a large part of those 16,000 are fonts and drawing. What the models need of the
vendored code they state as external actions.

Not modelled at all: drawing and fonts; the loading of the picture flash from a
card, before the scheduler starts; the reader of the configuration image, which
decodes data once, in one task; the display controller's driver. The UDP thread
may fall into a transfer of the LCD task on that bus (`bt816_spi.c:84`), but what the
controller makes of two transfers in one is not in the program, so that no model
of it could be compared with the code. The
calculated values (`plc_data_calculate`) are left out too: floating-point
functions of the registers, computed anew every hundred ticks, that only drawing
reads. One that met a pair of registers half way through a change is right the
next time; after a lost link they stay until then.

Seen while reading, and not modelled: `set_time_menu.c`, `add_trend_menu.c` and
`edit_trend_menu.c` each define a global `params[]`; where the linker merges them
into one, that is harmless, because each menu fills it when it opens. `can.c:262`
sets `plc_di_type` where it is told that an analog input is unused.
`time_from_uint32` and `update_time_in_cluster` have no callers.

The compiler's freedom to reorder stores to variables that are not volatile is
modelled only where a variable is read again (`CheckCount`); elsewhere
statements run in source order.
