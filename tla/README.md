# The AMPM motorbike tracker in TLA+

The repository holds the firmware of a GPS tracker for motorbikes (STM32F103,
GSM modem, GPS receiver, SPI flash), its bootloader and a Windows tool to
configure it.  This directory models the firmware's own logic, checks the models
with TLC and proves the most important of their invariants with TLAPS.

Paths below are relative to `src/firmware_bgs2/gt1025/` unless they start with
`bootloader/`.  PROJECT.json maps every definition to the lines it models.

## 1. The system

There is no operating system.  `main.c` runs one loop (`GSM_GPRS_Task`) that
calls one task after the other; interrupt handlers (UARTs, TIM2, RTC, EXTI) run
between any two instructions of it, and a handler of higher priority between any
two instructions of a lower one.  What is concurrent is therefore: main loop
against interrupts, interrupt against interrupt, the program against the modem
and the server, and everything against a power cut or the watchdog.

| component | code | state | operations | talks to |
|---|---|---|---|---|
| record log | `ampm_lib/db/db.c`, `ampm_lib/flash_mem/sst25.c` | ring of 914 records of 112 bytes in 25 flash sectors; a journal sector with 455 entries (head, tail, checksum); `ringLog`, `logPositionCnt` in RAM | `DB_InitLog`, `DB_SaveLog`, `DB_LoadNextLog`, `DB_RingLogNext`, `DB_RingLogReset` | tracker, SMS commands |
| single values | `db.c` `DB_U32Load`, `DB_U32Save` | a journal sector per value | load, save | tracker, main loop |
| byte ring | `ampm_lib/lib/ringbuf.c` | cells, head, tail | `RINGBUF_Put`, `_Get`, `_GetFill` | UARTs, SMS inbox, PPP |
| UART drivers | `driver/ampm/stm32/uart1.c`, `uart3.c`, `uart5.c` | a ring per direction, TXEIE, CTS | `PutChar`, `IRQHandler` | modem, service port |
| SMS inbox | `at_cmd_sms_parser.c`, `src/sms_task.c` | ring of locations, `smsDataBuf`, `flagSmsReadFinish` | `SMS_Process`, `SMS_ReadMsg` (interrupt), `SMS_Manage` (main loop) | modem, commands |
| delivery | `src/tracker.c`, `src/reporter.c` | `logSend`, `logSendPt`, `rpState`, `rpConn`, `rpBuf`, counters | `TrackerTask`, `GetDataFromLog`, `REPORTER_Manage`, `REPORTER_Callback` | log, uIP, server |
| PPP link, link manager | `PPP/ppp.c`, `src/tcp_ip_task.c` | a phase, a state for each of LCP, PAP and IPCP; a timer, a counter, a packet number and a buffer for all three; `tcpIpTryCnt` | `PPP_ManageLink`, `vTcpIpTask` | modem, uIP |
| AT command queue | `gsm/at_send_cmd_task.c`, `lib/list.c` | phase, current command, list | `ModemCmdTask_SendCmd`, `_SetWait`, `ModemCmd_Task` | modem, tasks below |
| modem bring-up | `gsm/at_gsm_task.c`, `gsm/modem.c` | phase | `Gsm_Task`, `MODEM_SendCommand` | AT queue |
| dialling, calls, messages from the modem | `at_cmd_common_parser.c`, `at_cmd_call_parser.c` | phases, `modemIsBusy`, flags set in the UART interrupt | `GsmCommon_Task`, `VoiceCall_Task`, `RING_Process` | AT queue, PPP |
| outgoing SMS | `at_cmd_sms_parser.c`, `src/call_task.c` | list of messages, phases | `Sms_SendMsg`, `Sms_Task`, `CallTask` | AT queue |
| alarms | `src/alarm_task.c`, `src/accelerometer_task.c` | `alarmFlag`, counters, timeouts | `AlarmTask`, TIM2 handler | SMS, calls |
| commands, configuration | `src/app_config_task.c`, `lib/protocol.c`, `src/system_config.c` | `sysCfg` in RAM and in two flash pages | `CfgParserPacket`, `CfgProcessData`, `CFG_Load`, `CFG_Save` | SMS, service port, server |
| firmware update | `src/firmware_task.c`, `src/app_config_task.c`, `bootloader/boot/Src/main.c` | image and its description in SPI flash, backup image, offsets | download, check, copy, fall back | server, bootloader |
| ticks | `lib/sys_tick.c` | 32-bit tick | `InitTimeout`, `CheckTimeout` | everything |
| sensors | `gps`, `adc_task.c`, `led.c` | samples | | tracker |

Vendored code (CMSIS, peripheral library, uIP, FATFS, USB) and the PC tool are
not modelled; uIP and the modem appear as external parts of the models.

What makes each part correct, in a sentence, and what is hard about it:

- **log**: a queue that gives up only its oldest records, across power cuts
  between any two flash operations and programs that fail;
- **single values**: a start finds each value as it was last saved;
- **rings, UARTs**: bytes come out once and in order though the other side
  interrupts between any two accesses, and TXEIE, changed from two sides, never
  stays off with a character waiting;
- **SMS inbox**: a message is executed once, and what is deleted was received;
- **delivery**: what leaves the log was acknowledged, over a connection that may
  be lost at any point; no state of the reporter is a dead end;
- **PPP**: a layer is negotiated over layers that are open, a link that is up was
  agreed to by both ends, and a silent peer is given up;
- **modem**: the answer a task looks at is that of its own command, and no task
  keeps the modem;
- **configuration**: a start finds a configuration that was saved whole;
- **firmware**: whatever is lost or cut, the tracker starts a complete image;
- **ticks**: no timer runs out early, and one that is due is seen, over the wrap
  of the counter.

PROJECT.json lists the hazards of the code at their lines, with the properties
that cover them, and a note where the cover has a limit.

## 2. Modules

    LogQueue       what the log promises                 (abstract)
    FlashLog       db.c, sst25.c                         implements LogQueue
    ValueJournal   DB_U32Load, DB_U32Save in the same flash
    RingOps        ringbuf.c                             used by the next four
    UartRx         receive interrupt against RINGBUF_Get
    UartTx         PutChar against the transmit interrupt and CTS
    Uart           both: one handler, one main loop      composes UartRx, UartTx
    SmsInbox       location ring, SMS_Manage and the modem's memory
    Delivery       tracker.c, reporter.c and uIP, over a log of numbered records
    PppAutomaton   the three layers of ppp.c             used by PppLink
    PppLink        PPP_ManageLink, the peer, the line
    ModemCmd       the queue of one AT command           used by ModemSharing
    ModemSharing   Gsm_Task, Sms_Task, VoiceCall_Task, GsmCommon_Task in the loop
    ConfigStore    sysCfg, its flash and its handlers
    ImageSlot      what an update promises               (abstract)
    FirmwareFlash  the download area and its words       used by the next two
    FirmwareDownload   opcode 0x12 in the application
    Bootloader     main of the bootloader
    FirmwareUpdate server, application, reset, bootloader, power; composes the
                   two above and implements ImageSlot
    SysTick        the tick and its timers
    MC*            values of the constants for TLC
    *Proofs        the theorems about each (DriverProofs: UARTs and ticks;
                   RetentionProofs: Delivery and ValueJournal)

The sets that stand for bytes, records and messages are small; a datum is its
number in the order of its creation, so that order and loss can be stated.
Definitions that begin with "Mutant" in their comment are plausible bugs: put in
the place of the definition named, each breaks a property, which shows that the
property can tell.

### FlashLog

`data` has one cell per flash chunk (a record is written in chunks of
`LOG_WRITE_BYTES`), `pos` one entry per journal slot with its three separately
programmed fields.  One action is one flash operation: `MakeRoom` (the optional
erase and the push of the tail), `ProgramChunk`, `CheckRecord` (read back, move
the head), `ProgramHead`, `ProgramTail`, `ProgramCrc`, `CheckPos`.  `pc` tells
which is next.  `SaveLog`, `RingLogNext`, `LoadNextLog`, `RingLogReset` are the
calls; they begin only when no other runs, as the main loop is their only caller.
`Restart` may come at any point; it tears the chunk that is being written, and
runs `DB_InitLog`.  `WriteChunk` includes the erase that `SST25_Write` does on
its own at the start of a sector.  `cleared` is a history variable that tells
`LogQueue` when the owner empties the log.  The tick at which calls are made, and the
sensor values in a record, are left out.

Two abstractions matter.  A mixture of two records never satisfies the checksum
(the 8-bit sum would accept one in 256); and a program of a journal field either
happens or does not: half of a field is not modelled.  An erase is atomic.
`FieldAssumption` is all that is assumed of `Program`: it only clears bits, and
is exact on an erased field.

### ValueJournal

Each of the single values has a sector of five-byte entries (word and checksum).
A save erases the sector at the start of a round, writes word and sum, reads them
back, and goes on to the next entry when they are wrong; a load takes the last
entry that is whole.  `PowerCut` comes between any two of these or in the middle
of a program.  A save that goes on past the last whole entry writes over the end of
the sector, which erases the next one (`spilled`).

### RingOps, UartRx, UartTx, Uart

`RingOps` has the ring as a record and the operations for whoever is not
interrupted.  `UartRx` runs `RINGBUF_Get` in its accesses with the receive
handler in between; `UartTx` runs `PutChar` in its accesses with the whole
transmit handler in between, and adds the data register, TXEIE and CTS.  The
handler may also run for a received byte (`WithByte`), so TXEIE off does not
keep it away.  In `UartRx` any number of bytes may arrive between two accesses,
also while the tail is out of range: another handler may hold the main loop there
(TIM2 reads the accelerometer over I2C, `main.c:535`) and be preempted by the
receive handler.  The head may then run over the whole ring; the history variable
`overrun` counts the bytes lost to that, a ringful at a time.

`Uart` puts the two together: a received byte is put into one ring and the same
call of the handler serves the other (`Received`, `Dropped`), and the main loop
is in `RINGBUF_Get` or in `PutChar`, never in both.  uart1.c, uart3.c and uart5.c
are this UART, with and without CTS.

### SmsInbox

The modem's memory, its queue of commands, the ring of locations, and
`SMS_Manage` with its waits.  `Answered` is a wait that ends: because the modem
has served all commands, or by its timeout, which costs one of `MaxFault`.  A
`+CMTI` in data mode is not parsed (`Arrive`, second disjunct), so the location
is found by the next `AT+CMGL` only.

### Delivery

The log here is the set of records that are pending, and `GetDataFromLog` with
its two RAM flags; `FlashLog` is the detailed view of the same log.  Each branch
of `REPORTER_Manage` and `REPORTER_Callback` is an action, guarded by what uIP
may report in the connection's state.  `stalls` counts failures of the link or
the peer, so "the peer answers unless it fails" is fairness.  `detours` counts
what the code itself may do to make an acknowledgement the wrong one: the newest
record sent ahead, an address request, records given up, the log reset.
All records are readable in this module; unreadable ones are FlashLog's matter.

### PppAutomaton, PppLink

`PppAutomaton` is `PPP__ManageState` as a table: a state of a layer and an event
give the actions, in the code's order, and the next state; three copies of it
share `timerOn`, `count`, `msgId` and the transmit buffer.  An event may cause
events in the layer above.  The code recurses there, but only upwards, so the
model has one event operator per layer (`LcpEvent` over `PapEvent` over
`IpcpEvent`), which is `PPP__ManageState` with what `PPP__ThisLayerUp` and
`PPP__ThisLayerDown` do for that layer; no operator is recursive.  The globals of
ppp.c are one record, `ppp`, and what is sent in a turn is collected in it.
`PppLink` runs one turn of `PPP_ManageLink` per action: the carrier lost, the
timer run out, a packet taken.  `COMM_CarrierDetected` is constant on this board,
so `CarrierLost` is more than the code does; a carrier is really lost by
`NO CARRIER` (`NoCarrier`, which leaves the phase alone).  `PPP_Init` has three
callers: `vTcpIpTask` in an IP phase that gets nothing through (`LinkReset`),
dialling (`Dial`) and `GSM_GPRS_Task` entered again (`StartAgain`, `main.c:329`),
the last two in any phase.  The peer follows the protocol but may first
propose an option that is refused, probe the link, end it, or refuse the login;
packets may be lost either way.  `agreed` and `peer.acked` are history: the layers
whose requests either end has acknowledged on this connection.  A packet arrives whole or not at all: framing
and the FCS are left out.

### ModemCmd, ModemSharing

One action is one call of a task, in the order of `GSM_GPRS_Task` (`pc`), with
its `switch` over phases as disjuncts.  `late` says whether the timer the call
looks at has run out.  `KeptOut` and `AfterTask` are the uses of `modemIsBusy`,
the same in each task.  Unasked messages (`Urc`: a ring, a number, the carrier
lost, a line that is busy or not answered, an error report) come from the UART
interrupt, before any call that reads what they set.  `CallExpired` is the reset of
`VoiceCall_Task` after half an hour.  `CmdExpired` is a command given up: when it was a
text, the modem may have taken it all the same (`accepted` is then "unheard").
`MaxTraffic` and `MaxEvents` bound sums of the other counts.  `StrayAnswer`, inside `ModemCmd_Task`, is an answer that belongs to no
command or to an earlier one.  `Reenter` is `GSM_GPRS_Task` being left and
entered again: it clears `modemIsBusy` and no phase.

The lock does not hold during an answered call (`at_cmd_sms_parser.c:198`), nor
across `Reenter`, nor do commands and answers carry numbers.  `mixed` is the
history variable that is set by each of these and cleared when all tasks are
idle and no start command waits; the two safety properties are stated for the
rest.

Functions without a caller are left out: calls going out, `SMS_PAUSED`,
cancelling all messages, `ModemCmdTask_SetCriticalCmd`, `_Cancel`, `_Reset`.

### ConfigStore

A handler is a sequence of steps (`todo`): set a word, put the id aside, wipe,
`CFG_Load`, `CFG_Save`, reset.  A word stands for what is set and filled in together,
as the APN with its user and password; a setting is never the empty string.  `CFG_Save` compares, then erases and programs
word by word, the sum last (`Write`).  The RTC's interrupt (`Tick`) copies the
flash over `sysCfg` between any two of these outside `CFG_Save`'s writing, which
runs with interrupts off.  `target`, `may` and `saved` are history: what the
handler is to bring about, what a start may find, what was ever saved.

### FirmwareFlash, FirmwareDownload, Bootloader, FirmwareUpdate

The server starts a download and sends it in packets (`FirmwareDownload`); each
handled packet is a sequence of flash operations that a power cut may end after
any of them (`Handle`): it programs a cell, erases sectors behind the image and
writes the words again in the order the code does (`Done`, `CutShort`).  The words that describe the image decide what a reset
does: `Bootloader` copies the image page by page, compares, keeps the first
complete one as a backup, and falls back on the backup when all attempts fail.
A packet of fewer than 32 bytes of data is not written (`ShortCells`).
The bootloader's reads of an image may go wrong, fewer times than there are
attempts; its reads of the words, and the application's, do not, but for a cell
that does not read back (`MaxFault`).  A checksum is the sequence it is the sum of: two images never have the
same one.  `FirmwareUpdate` is the whole, and `ImageSlot` what it comes to.

### SysTick

A timer of any length against a tick of any width, and a timer nobody has
started, whose content is arbitrary (`tTrackerTask` is a local that is not
initialised, `main.c:318`).

## 3. Runs

| run | bounds | distinct states, time | shows |
|---|---|---|---|
| flash_log | 5 records of 2 bytes in 3 sectors of 3 (4 slots), 3 journal entries, 1 restart, 2 bad programs | 1.4M, 2 min | The log is a queue that gives up only its oldest records and only when full; a program never touches a pending record; a restart recovers a prefix; each call ends |
| uart | rings of 3 bytes, 8 received, 5 sent, CTS raised twice | 0.3M, 20 s | What is accepted is read in order and once, but for the ringfuls the head runs over; at most one character is lost per two CTS edges; a waiting character is sent |
| sms_inbox | ring of 32, 2 locations, 3 messages, 2 late answers | 0.6M, 90 s | A message is executed at most once, a message that is lost was paid for with a late answer or came in data mode, and each one is executed in the end if nothing goes wrong |
| sms_inbox_reread | 2 messages, no late answers | violation, 1 s | The finding below |
| delivery | log of 3, 4 records, 1 stall, 1 reset, 1 restart, 1 SMS | 0.4M, 60 s | The record that is held is the oldest; no more are taken off unacknowledged than the detours named pay for; the log drains |
| ppp_link | 2 connections, 1 loss of the carrier or reset of the link, 1 packet lost each way, 1 refused option, 1 probe or end by the peer, 2 packets under way | 2.5M, 2 min | The counter never wraps, layers open in order, a link that is up was agreed to by both ends, a silent peer is given up |
| firmware_update | images of up to 3 cells, one with a last packet that is too short, 2 downloads, 2 cuts, 1 bad cell, 1 timeout, 1 stray packet, 2 bad reads in 3 attempts | 0.8M, 35 s | After any of these the tracker runs a complete image, the new one when it was announced; it implements ImageSlot; a download of an image that can be stored ends |
| config_store | 3 words of 2 values, 2 commands, 2 cuts, 1 bad word, 1 torn word, a copy in one tick of 3 | 12.3M, 150 s | What a start finds valid was saved; between commands the configuration is what was asked for |
| modem_sharing | see the limits below; 1 message, 2 unasked messages, 1 stray answer, 1 re-entry, any 2 of the last three | 21.4M, 160 s | While nothing is mixed up, a phase that looks at an answer looks at that of its own command, and a text whose OK was heard is not written again |
| modem_released | see the limits below; 1 message or 1 unasked message, 1 re-entry or 1 unasked message, no stray answer | 0.3M, 170 s | No task keeps the modem for ever, no command stays unanswered for ever |
| sys_tick | a tick of 6 values, two wraps | 6k, 1 s | No timer runs out early; one that has run out stays so until the tick comes round |
| value_journal | 2 values in neighbours of 3 sectors of 3 entries, 6 saves, 2 cuts, 1 bad word or checksum | 143k, 5 s | A start finds each value as last saved, unless a save has run over into the next sector |

Each run's cfg has its name in capitals (`flash_log`: `FlashLog.cfg`); modules with
values too long for a cfg have an MC module.  Times are of one machine with two
workers.

Why the bounds are enough.  *Log*: the ring and the journal sector go round,
records lie across sector borders, and the pushed tail wraps.  *UART*: both
indices of both rings wrap.  *SMS*: a location is used again while older entries
for it are in the ring.  *Delivery*: the log runs full, a record is sent ahead,
the reporter comes to its limit of retransmissions (2 instead of 5; 2 address
requests instead of 6).  *PPP*: a second connection is made in each state the
first one left, requests are repeated up to the counter's end (2 instead of 5),
packet numbers wrap.  *Firmware*: a long image replaces a short one and the other
way round, an image has a sector of its own to erase and one to share, the
padding opens a sector; two cuts come in the download and in the copy, or both in
one of them.  *Configuration*: three words (id and two settings), two commands
after each other and into each other.  *Ticks*: every start, every length, two
wraps.  *Modem*: the limits are smaller (1 start
command instead of 10, 1 try of a message instead of 3 or none beyond the first,
0 or 1 retries of dialling instead of 3, 1 hang-up instead of 5, a restart of the
modem after the first unanswered command instead of 10), which brings each limit
within reach; tasks and phases are all there.  Two unasked messages are a ring and
what ends the call.  In `modem_released` a message and a call do not come together, nor a
call and a re-entry; with message and call together (878,628 states, 7.5 minutes)
both properties hold too.  A bring-up that begins again finds a start command in the
list with two of them, and one is sent between the commands of a message with three
and two re-entries: explored beside the runs, with fewer of the other events (two:
1.8M and 0.2M states; three: 0.4M), and all four properties, or the two of
`modem_sharing` with three, hold.  The theorems are for any number.

Deadlock is checked in `flash_log`, `sms_inbox`, `delivery`, `modem_sharing`,
`modem_released` and `sys_tick`.  In the others the commands, bytes or downloads
run out, and doing nothing is right.

Fairness.  FlashLog: `WF(Step)`, the main loop finishes the call it is in.  Uart:
`PutChar` returns (only its own steps are fair, not its being called), a pending
interrupt is served, the line shifts when CTS is low, and the modem lowers CTS
again.  SmsInbox: the modem serves its commands and the main loop goes on
calling `SMS_Manage` (every `SMS_TIME_CHECK` seconds).  Delivery: the loop runs,
timeouts expire, and uIP polls and answers as long as the link stands, which may
fail `MaxStall` times.  PppLink: a timer that is looked at again and again
expires (strong, because the bound on packets under way only delays it), packets
that arrive are taken, the modem sends.  ModemSharing: the loop goes round, and a
timer that a task polls is seen to have run out (strong: the poll that finds it
so is enabled in every turn, between turns it is not).  FirmwareUpdate: the
bootloader goes on, the reset comes, the server sends the packet it is asked for
until it is stored.  In PppLink and FirmwareUpdate weak and strong fairness are
written out with the condition under which the action is enabled.

### Finding

*Deleted unread* (sms_inbox_reread).  Announced messages are listed again, so a
location is read and deleted twice.  A message that took the location in between
is deleted without having been received, where the comment at the `AT+CMGD` says
"delete just received SMS".

### What else the code does

Seen while modelling, each with the line; where a property is stated up to it,
the property names it.

- *Ring full taken for empty*, `ringbuf.c:66`.  `RINGBUF_Get` bumps the tail
  before it wraps it.  While the tail is equal to the size, `RINGBUF_Put`
  (line 43) does not see that the ring is full.  A head that comes round to the
  first cell in that window has filled the ring, and the tail that is then wrapped
  makes it empty: a ringful is lost, and more if it comes round again.
  `FillCountsAccepted` and `InOrder` count these (`overrun`) and say that nothing
  else is lost.
- *Half a location*, `at_cmd_sms_parser.c:623`.  `SMS_Process` puts two bytes and
  looks at neither result.  When one byte of room is left, the ring is misaligned
  for good.  Eight messages, announced and listed, suffice for the ring's size.
- *Log, a restart and a bad record together*, `db.c:343-364`.  `DB_SaveLog` pushes
  the tail out of the erased sector and moves the head over a bad record in RAM,
  and journals them only after a good record.  With a bad record the head can come
  to the slot where the journalled tail still points; a power cut then recovers
  that tail, and the newest record is handed out before the older ones.
  `LogQueue` is released from its promise when both have happened.
- *Log, two restarts*, `db.c:56`, `db.c:343`.  Two power cuts do the same without a
  bad program: the first, between the record and its entry, leaves a record at the
  recovered head, which the next save takes for a bad one; the second then hands out
  the newest record first (TLC, with `MaxRestart = 2`, `MaxFault = 0`, 8 slots of 2
  chunks).  `LogQueue` is released at the second restart.  Moreover the first save
  after a restart programs over the entry just recovered: a cut inside it may leave
  an entry with bits of both and a sum that fits, such as head 8, tail 9 out of
  (10, 9) and (12, 9).  From there even a restart at rest may bring records back,
  which is why `QuietRestart` speaks of the first two restarts.
- *Log, empty journal sector*, `db.c:199`.  Just after the save that fills the
  journal sector the sector is empty, and a power cut loses the whole log;
  `QuietRestart` names that exception.
- *Delivery*, `tracker.c:80`.  An acknowledgement counts for the record that is held,
  whatever the packet was.  So a newest record sent ahead (`reporter.c:200`) or an
  address request (line 240) takes a record off that was not sent, on a good link as
  well, and so does an acknowledgement after the log has given up or reset what was
  held.  `NoUnexplainedLoss` says that no more records are taken off unacknowledged
  than there were such detours: a lost link, a retransmission or a restart is none.
- *Last record*, `db.c:245`.  `DB_LoadEndLog` stops at the tail before it has read
  it, so a start with one pending record does not find it, and one with an empty
  log may find a record from before.
- *Journals of values*, `db.c:133`.  The loop runs to byte 4095, so a save whose
  last entry was spoiled by a cut writes past its sector and erases the next
  value's.  `RememberedInSector` holds up to then.  `powerOfTimeDelay` is saved in
  the sector of `gpsDir` (`main.c:310`) and loaded from that of `cellHDOP`
  (`database_app.c:38`): no start finds it, so it is not among the values of the
  run.
- *PPP address*, `ppp.c:795`.  The local address is taken from the packet received
  last; when the peer's own request completes the negotiation, that is the peer's.
- *PPP refusal*, `ppp.c:737`.  A refused option is answered out of a buffer whose
  code is that of the packet sent before; the negotiation goes on by timer.
- *PPP timer*, `ppp.c:1414`.  An event for one layer turns off the timer another
  layer waits for.  With a lost PAP acknowledgement the tracker then waits for
  the peer, which has nothing left to say.  `vTcpIpTask` does not end that: outside
  an IP phase it starts its own timer anew in each turn (`tcp_ip_task.c:66`).  What ends it
  is `tAppTimeout`, two minutes without an answer of the server: `GSM_GPRS_Task` is
  left and entered again, and calls `vTcpIpTaskInit` (`main.c:329`, `StartAgain`).
  `SilenceEnds` is for a timer that runs.
- *Firmware, a short packet*, `app_config_task.c:416`.  A packet with fewer than 32
  bytes of data advances the offset and is not written.  An image whose last packet is
  such a one never gets its sum, and its download begins again as often as it is
  asked for.  `DownloadEnds` is for the others (`Storable`); the rest holds for all.
  A packet of more than 32 bytes that is no multiple of 32 is written past its end,
  which the model leaves out: the packets of an image are whole but for the last.
- *Firmware*.  After a read-back that fails, the offset may jump ahead to where an
  earlier download had come (`app_config_task.c:424`): the sum then does not match
  and the download starts again.  A packet that comes after the last one and
  before the reset writes into an image that is ready; with a backup the tracker
  falls back on it, without one part of an image may be left in the MCU: the runs
  have such packets for a tracker with a backup.
- *Bootloader*, `main.c:382`.  A cut between the words of the backup leaves one
  that is marked ready, has no checksum, and is never renewed.
- *Configuration*.  `rtcCnt % 600` (`rtc.c:138`) copies the flash in 599 seconds of
  600 and not in one.  Between a change and `CFG_Save` the copy undoes the change;
  in a download over several packets what is saved is a mixture of the old and the
  new one: saved whole, but asked for by nobody, which is why `IdleIsAsked` is for
  handlers without such a copy in them.  A cut after the last data word and before
  the sum leaves the default configuration, as after any cut in `CFG_Save`.
- *A late OK*, `at_cmd_sms_parser.c:333`, `:362`.  A text whose OK comes after its ten
  seconds counts as failed and is written again, so it may be sent twice.  The code
  cannot tell; `HeardOnce` is for a text whose OK is heard.
- *Modem*.  During an answered call two tasks may work on the one command
  (`at_cmd_sms_parser.c:198`); a message whose `AT+CMGF` is refused uses up no try
  (line 269); a PDU without a service centre is not announced (line 319); the text
  of a message that is retried may be replaced in between (`call_task.c:39`);
  a bring-up that times out with start commands in the list begins again with
  them in it (`at_gsm_task.c:99`, `:151`), and `MODEM_CONFIG_1` may then take the
  outcome of one of them for that of its `AT`; `GSM_GPRS_Task` entered again with
  the modem registered (`main.c:326`) leaves them to be sent between the commands
  of a message; `farHangUp` is left over from a lost carrier (`at_cmd_common_parser.c:642`), and
  `modemToDataModeFlag` from before a dial (line 470); `hangUpCallRetry` is not
  reset; a `noAnswerFlag`, `busyFlag` or `callUnsuccess` that no call has looked at
  ends a later one (`at_cmd_call_parser.c:373-394`).  The model takes all of these steps.
- *Ticks*, `sys_tick.c:79`.  A timer that has run out runs again once the tick has
  come round to its start, after 49.7 days.

## 4. Proofs

For every value of the constants that meets the assumptions:

| module | theorem | argument |
|---|---|---|
| FlashLogProofs | `TypeCorrect`, `HeadApart`, `RoomSafe`, `EvictsWhenFull` | `TypeOK` is inductive once the recovered indices are shown to be slots; the other three follow from it and arithmetic on slots and sectors (`FirstSlotIn(k)` is the first slot at or after sector k) plus, for `HeadApart`, an invariant that relates head and tail while a record is written |
| FlashLogProofs, what is kept | `WriteSafe`, `RestartQuiet` | `RingInv`: at every step of a write, and until the second restart at any time, the tail is not in the sector that the head is about to erase (`ClearInv`), so that an erasure only takes records the ring has already let go; the same holds of the indices in the journal (`SavedClearInv`), and the journal has nothing above the entry being written and a good entry or nothing below it (`JournalInv`).  Nothing above the entry to write next could be recovered (`AboveInv`).  `SavedRingInv`: outside `DB_RingLogSave` the ring that a restart would recover and the ring in RAM hold the same readable records, however the head has moved over bad ones and the tail past erased ones, which is what a restart at rest needs |
| FlashLogProofs, the refinement | `RingIsLogQueue` | `OrderInv`: records are numbered below the next one and no number is in two slots; the cells from the write to the end of its sector are erased, so a record that is written without a fault reads back (`ChunkInv`, `SpillInv`, `FreshInv`); as long as LogQueue promises anything (`Promised`), records get newer from the tail on (`SortedInv`), those outside the ring are older (`OlderInv`), and the ring of the last save is a stretch of all records (`SavedOrderInv`).  Then `MakeRoom` and `ProgramChunk` are `Discard` or `Write`, a good `CheckRecord` is `Append`, `RingLogNext` is `Advance`, `RingLogReset` is `Clear`, `Restart` is `Recover`, and every other step stutters |
| DriverProofs, the UARTs | `FillCorrect`, `OrderCorrect`, `LossCorrect`, `SentOrderCorrect` of the two sides; `Components`, `UartFillCorrect`, `UartOrderCorrect`, `UartLossCorrect`, `UartSentCorrect` of the whole | receive side: `CountInv` (fill, accepted and got agree, whatever access of Get is next) and `BytesInv` (each cell between tail and head holds the number it should); both with `overrun`, which grows by a ringful when a byte fills the last cell in front of a tail that is out of range; nothing is assumed of when bytes come.  Transmit side: `LossInv` (lost characters plus unserved falling edges are at most half the edges, and a store finds room because the handler only takes out) and `OrderInv` (the cells between tail and head hold characters in order, all of them later than what has been sent).  `Components`: each step of `Uart` is a step or a stutter of either side, so what is proved of a side holds of the whole |
| DriverProofs, the ticks | `TickTypeCorrect`, `AlwaysNeverEarly`, `AlwaysExpiredStays` | a running timer's tick is its start plus what has gone by, until the tick comes round (`Started`); `Since` is then that, or one less after the wrap |
| RetentionProofs, the records | `TypeCorrect`, `OldestHeld`, `LossExplained` (a bound by the detours of section 3) | the held record was the least when it was loaded, and the log only drops from its low end or as a whole; what has left the log is accounted for by the state the reporter is in and what its connection has been told |
| RetentionProofs, the single values | `RememberedCorrect` | no entry from the next one on is whole (`Ahead`), a checksum is written after its word (`SumLast`), and the entry that is written holds the value or junk (`WritingInv`): so the last whole entry is the value saved before, or the new one.  It assumes `OwnSector`, a sector for each value, which `powerOfTimeDelay` does not have (section 3) |
| FirmwareProofs, the bootloader | `Invariant`, `TypeCorrect`, `AlwaysRunsWhole`, `AlwaysPending`, `AlwaysNewImage`, `AlwaysBackup` | on whatever an application may leave, with any number of resets.  The invariant has four parts: while an image is in part copied the words still describe it (`WordsInv`); attempts used up are paid for with bad reads, so that with fewer of these one attempt succeeds (`AttemptInv`); what has been summed up is what is in the MCU (`Programmed`), so an equal sum means a complete copy; and a backup's words are written after its cells (`BackupInv`) |
| FirmwareProofs, the update | `UpdateInvariant`, `UpdateTypeCorrect`, `ReadyCorrect`, `ErasedCorrect`, `UpdateRunsWhole`, `UpdateNewImage`, `UpdateBackup`, `UpdateSlot` | `UpdateInv`: the cells from the offset to the end of its sector are erased, wherever a timeout or a read-back has set it (`ErasedAhead`), and the words of a download that is ready are those of its image (`DownloadInv`); as long as only packets that are due have come, the application leaves what the bootloader's invariant expects (`Inv`), through a power cut at any flash operation; after one that was not due the image that is ready may be damaged, and what is left is that the backup is whole and that attempts at a good source are paid for with bad reads (`StrayInv`).  `UpdateSlot`: each step is a step or a stutter of ImageSlot; it assumes `NoneBegins`, that no image is the beginning of another, which is what it takes to tell from the cells of the MCU which image runs |
| ConfigStoreProofs | `Invariant`, `AlwaysRestored`, `AskedCorrect` | a configuration in flash with a right sum was saved (`Intact`); while `CFG_Save` writes, the flash has a prefix of what is saved, and the sum is the last word (`InProgress`): a prefix without its sum never counts as right.  `AskedCorrect`: without reloads and bad words, each step of a handler is on its way to what was asked for (`OnTrack`) |
| SmsInboxProofs | `InboxInvariant`, `LossesCorrect`, `OnceCorrect` | the modem serves its commands in order: the last one that reads is that of the message at hand, with only its own deletion after it, and each earlier one is followed by the deletion of what it reads (`CmdsInOrder`).  `Balance`: messages lost, deletions under way that are not of the message at hand, and the message at hand if its answer was garbled are together no more than the faults; a wait given up pays for the deletion it leaves behind, whichever message that finds.  `NotTwice`: a message that was executed and is still in the modem has its deletion under way before any reading of its location (`Expiring`) |
| PppLinkProofs | `PppInvariant`, `PppCountNeverWraps`, `PppLayersInOrder`, `PppLinkedIsAgreed` | `IInv`: a layer rests until the one below it is open (`Stacked`), in each phase the layers below are open and its own negotiates (`InPhase`), an acknowledged or open layer is one the peer has acknowledged (`Agreed`), and nothing the peer has under way acknowledges anything else (`AllHonest`); the other direction is `Answered`: a layer is in `ackSent` or open only once the tracker has acknowledged the peer's packet for it.  The counter needs one thing more (`Counted`): it is whole while a layer is in `ackRcvd`, which asks again on an answer that is not counted; every other request either sets the counter first or comes from the timer, which asks it.  The table of transitions is sorted by what its actions do (`NegotiatingRows`, `OpenedRow`, ...), one event for one layer is then one of five kinds of step whatever the layer is (`LayerSteps`), each of which keeps the invariant (`StepSound`, `StepAgreed`), also from a phase that is over; what remains for each layer is what it does to the one above it, from IPCP down |
| ModemSharingProofs | `SharingInvariant`, `SharingOwnAnswer`, `SharingHeardOnce` | `IInv`.  While answers cannot be `mixed` and the modem is registered (`Covered`): each task that is not idle holds the lock (`Locked`), so at most one is at work; for each of its phases the command is the one it has sent, or none is under way (`SmsAsks`, `CallAsks`, `CommonAsks`); and in data mode, where `ModemCmd_Task` is not called, no command is under way unless an `ATO` is waited for (`DataMode`), so that `AT` may be sent when the mode is left.  While it is not registered (`Bringing`, whatever is mixed): command mode, and each task was called once since the modem was turned on and is at rest, but for a dial or a return to data mode that has sent nothing yet (`CommonRests`).  `Taken`: a text whose OK was heard counts as such only while its task is in `waitSend` with the modem's OK, or past it, and no other task sends in between; of a text whose OK came late nothing is claimed.  Both properties are void while answers or tasks are mixed up, which a stray answer, work during an answered call, `SMS_Manage` over a command under way and a re-entry of the loop at work each begin, and rest of all tasks ends.  TLC has checked `IInv` on 8.8M states of `ModemSharing`, with smaller bounds than the run has |

The type invariants of UartRx, UartTx and ConfigStore are proved in the same
modules as lemmas to these.  PppLinkProofs uses nothing of the bounds of PppLink
but that the restart counter starts between 1 and 255.  The assumptions are those the modules state
(`SizeAssumption`, `FieldAssumption`, `SizeAtLeastTwo`, `BootloaderAssumption`, `SharingAssumption`,
...); each is evaluated by TLC in a run.  `RingIsLogQueue` also
assumes `RecSize >= 2` (28 chunks in the source): a record of one chunk would erase a
sector and be there in the same step, where `LogQueue` takes two.  Nothing in
FlashLogProofs depends on `MaxRec`, `MaxRestart` or `MaxFault`; what no longer holds
after two restarts is an exception in the properties, with counterexamples in
section 3.  `FillCorrect`, `HeadApart` and
`AlwaysPending` are parts of stronger statements the runs check.

Only model-checked: the liveness properties (`CallsReturn`, `NeverStuck`,
`MessagesExecuted`, `LogDrains`, `SilenceEnds`, `DownloadEnds`, `ModemIsReleased`,
`CommandEnds`); liveness under fairness is out of the prover's reach here.  Every
invariant, action property and refinement of the passing runs is a theorem, within
the assumptions named above.

## 5. Not modelled, and simplifications

- *Alarms*: `alarmFlag` is read, changed and written in the main loop and in the
  TIM2 handler (`alarm_task.c:90`): a flag set in between is lost until the
  accelerometer reports again.  One read-modify-write, and no promise about it.
- *Main loop, sleep, watchdog*: the order of the tasks is in ModemSharing; a reset
  at any time is in each module with a flash.
- *Delivery*: the resolver, the choice between two servers, `tcpIpTryCnt`.
- *SmsInbox*: the early return after a failing `AT+CMGF` (nothing has changed by
  then, the next call starts again), the contents of a message, who sent it.
- *UART*: framing errors and overrun; the receive ring of uart2 (GPS), whose put
  and get share one handler.
- *Modem*: `MODEM_SendCommand`, which waits in a loop, and powering the modem.  In
  `modem_released` a message and a call do not come together, and no stray answers.
- *Bootloader*: programming over the UART (`bootloader/boot/Src/main.c:199-277`).
- *Configuration*: reading settings, the fields' formats; `CFG_CheckSum` has no
  caller.
- *Calendar, GPS and ADC conversions, protocols' encodings*: pure data handling,
  nothing that an order of events could break.
- *Third-party code*: FATFS with its code pages, uIP, USB, CMSIS, the peripheral
  library, and the Windows tool.  These are nearly all of the repository's lines;
  code pages, register definitions and vendored libraries are not behaviour of the
  tracker, and what the models cover is most of what is left.
- The parts marked `not_modelled` in PROJECT.json, with the reasons.

## 6. Plan

- Models: the link manager and the resolver composed with Delivery, so that a link
  that goes down is seen by reporter and resolver in the code's order.
