# Verification of the Telink BLE SDK: dongle, remote control, SPP module and H5 transport

This directory is a TLA+ development of the application code in
`src/ble_sdk_multimode`, the multimode BLE SDK of the 8258, and in it of the
keyboard/mouse/audio dongle `vendor/8258_master_kma_dongle`.  The dongle is a
BLE master: it scans, pairs and connects to one remote control, discovers the
remote's services, forwards its reports to a PC over USB, and can push a new
firmware to it.  Its counterpart, the remote control `vendor/8258_ble_remote`, is
modelled with its key matrix, so is the module `vendor/8258_module`, which an
MCU drives over a UART, and of the tools the three-wire UART transport of the
PC's host stack.  The properties are model-checked with TLC on small
instances, and most of the safety properties are proved with TLAPS for all
instances (section 5).

Paths below are relative to `src/ble_sdk_multimode/vendor/8258_master_kma_dongle`
unless they begin with `src/`.

## 1. The repository and its parts

`src/` holds two SDK trees and tools.  `ble_lt_sdk` is the older one, for the
826x chips; its applications are predecessors of the ones in
`ble_sdk_multimode`, which is the tree modelled here.  Controller, link layer,
L2CAP, ATT server and SMP are not in the repository as source: they come as
static libraries (`proj_lib`), and the models take them from the way the
application uses them.

| part | source | state | operations | modelled |
|------|--------|-------|------------|----------|
| bond table | `blm_pair.c` | RAM table of slaves, log of records in a flash sector, log index | load and clean at power-on, add, search, delete by address, delete all | `BondTable`, `BondStore` |
| dongle host | `blm_host.c`, `blm_att.c`, `blm_pair.c`, `app.c`, `button.c` | current connection, pending discovery, manual pairing, unpair and update requests | callbacks for advertising, establish, disconnect, L2CAP packets; button; pair/unpair and update processes; blocking service discovery | `DongleHost` |
| OTA master | `blm_ota.c` | step 0..9, update pending, address in the image, handle, result | `proc_ota`, three callbacks, button trigger | `MasterOta` |
| dongle audio | `audio_buffer.c` | three pointers of two rings, reset counter | add packet, decode, USB interrupt | `AudioBuffer` |
| reports to USB | `blm_att.c`, `src/ble_sdk_multimode/application/app/usbkb.c`, `usbmouse.c` | endpoints, report FIFO, pressed keys, last key | key and consumer notifications, link loss, USB pass, reset | `UsbReports`, `ReportQueue` |
| FIFO | `src/ble_sdk_multimode/common/utility.c` | write and read pointers | `my_fifo_*` | in `SppModule`, but `my_fifo_push` |
| soft timers | `src/ble_sdk_multimode/vendor/common/blt_soft_timer.c` | sorted table of timers, wake-up time | add, delete, process | `SoftTimer` |
| LED sequences | `src/ble_sdk_multimode/vendor/common/blt_led.c` | current sequence | set, process | in `Remote` |
| remote control | `8258_ble_remote/app.c`, `app_ui.c`, `rc_ir.c` | link, key and microphone state, deep-sleep handshake, IR | main loop, link callbacks, key process, power management | `Remote` (IR is configured out) |
| module (SPP) | `8258_module/app.c`, `spp.c` | command and event FIFOs, DMA address, wake-up pins, sleep mask, restart | UART callbacks and interrupt, events, power management, restart | `SppModule` |
| key matrix | `src/ble_sdk_multimode/application/keyboard/keyboard.c` | matrix history, release counter | scan | in `Remote` |
| UI over USB commands | `app_upperCom.c` | - | - | no: compiled out (`UI_UPPER_COMPUTER_ENABLE` 0) |
| BLE stack, crypto | `proj_lib`, `stack` | - | - | no: binaries and headers, external to every model |
| drivers, boot, USB descriptors | `drivers`, `boot`, `application/usbstd` | registers | - | no: register access and tables |
| beacon, sample, HCI, driver and feature tests | `vendor/8258_*` | - | - | no: demonstrations of stack calls |
| 826x tree | `src/ble_lt_sdk` | - | - | no: earlier version of the same applications |
| H5 transport | `src/tools/btstack/vcsim/btstack/src/hci_transport_h5.cpp` | link state, pending actions, two timers, sequence numbers, the packet under way | open, send, frame received, block sent, timeouts, reset | `H5Link`, `ReliableChannel` |
| other tools | `src/tools` | - | - | no: the rest of BTstack (third-party), PC programs, test scripts |

### How the parts interact

Everything in the dongle runs on one thread, `main_loop`, plus interrupts (link
layer, USB).  `main_idle_loop` calls, in this order, the stack (which calls
`app_event_callback` and `app_l2cap_handler`), USB, the buttons, audio,
`host_pair_unpair_proc`, `proc_ota` and `host_update_conn_proc`; then
`main_loop` calls `main_service` once if it is registered.  The one service is
`app_service_discovery`.  It sends ATT requests and waits for each answer in
`host_att_service_wait_event`, which calls `main_idle_loop` as its idle
function.  So all callbacks run again inside the discovery, with its frame on
the stack.

Shared flags connect the parts: `app_host_smp_sdp_pending` (discovery blocks
pairing and updates), `blm_manPair` (from the advertising report to the
establish event), `dongle_unpair_enable` (button or key to
`host_pair_unpair_proc`), `host_update_conn_param_req` (L2CAP to
`host_update_conn_proc`, and a lock for the OTA), `host_ota_start` and
`host_ota_update_pending` (`proc_ota` and its callbacks).

The remote control has the same shape: `main_loop` runs the stack with its
callbacks, the audio, the battery check, `proc_keyboard`, the LED and
`blt_pm_proc`, which decides from the flags of the others (`scan_pin_need`,
`key_not_released`, `ui_mic_enable`, `ota_is_working`, the LED) how deep the chip
may sleep.  Between passes a retention sleep forgets every variable that is not
marked for it.

The H5 transport is a set of callbacks on a run loop (bytes received, block
written, two timers) between the UART driver and the host stack, which may call
`send_packet` from inside a callback.

The SPP module serves two FIFOs in its main loop: the UART's DMA and its
interrupt fill one, the other is sent by DMA.  MCU and module tell each other by a
pin each that they have data; the module reads the pin that it also pulls up
itself, and sleeps when both sides are quiet.

### What is hard here

* the re-entrant main loop: a connection may be lost and another one made while
  a discovery for the first is on the stack;
* events that lag behind the radio: the link layer has already dropped or made
  a connection when the host's flags still say otherwise;
* one connection handle for all connections, so late answers and requests are
  not told apart by it;
* power loss between any two flash commands of a bond-table operation;
* the OTA transfer, which must not skip, repeat or mix blocks when the FIFO is
  full or the link goes away, and must end;
* the audio pointers, which the main loop and the USB interrupt move without a
  lock, and which differ modulo 256;
* bouncing keys, debouncing and a sleep that forgets the debouncer;
* the handshake before the remote control's deep sleep, against keys and link
  events;
* two processors that each sleep when the other seems quiet, DMA into the slots of a
  FIFO that the main loop reads, and a sleep that keeps a flag and not the pin that
  belongs to it;
* lost and repeated frames on the H5 line, retransmissions that cross their
  acknowledgement, and a restarted controller.

`PROJECT.json` lists each hazard at its line with the properties that cover it.

### What makes each part correct

* bond table: power-on always loads it and never finds too many records; the RAM
  table is what the flash would load; no slave twice; nothing outside the sector;
* host: bonds unique, discovery ends, its results belong to the connected slave,
  unpairing leaves nothing bonded and is served;
* OTA: success means delivered, blocks in order, one connection, termination;
* audio: what USB plays was decoded and not yet overwritten, and the pointers
  resynchronise after an overflow;
* USB reports: a pressed key is released, also after a disconnect or a full queue;
* FIFO, timers, LED: refinement of a bounded queue; every due timer called once;
  a sequence ends;
* remote control: a release is never lost, the microphone only in a connection,
  in the end it sleeps;
* SPP module: no command overwritten, answers in order, no sleep through data of the
  other side, and sleep when there is none;
* H5: each packet once and in order, confirmed only when received; the link comes
  up and packets get through.

## 2. Modules

### `BondTable` (blm_pair.c)

State: `flash` (the areas of the sector, each with mark and address, and those
that follow it), `tbl` (`user_tbl_slaveMac`), `cfgIdx`
(`user_bond_slave_flash_cfg_idx` / 8), and the operation in progress (`pc`, `n`,
`arg`).  Every flash command is a step of its own, so `PowerLoss`, which is
always possible, can strike between any two.  `flash_write_page` clears bits
only: writing a record over one that exists destroys it.  The commands
themselves are atomic.

| actions | code |
|---------|------|
| `ScanArea`, `ScanEnd` | `user_master_host_pairing_flash_init` |
| `CleanErase`, `CleanRewrite`, `CleanEnd` | `user_bond_slave_flash_clean` |
| `Add`, `AddStore` | `user_tbl_slave_mac_add`, with `delete_by_index(0)` when full |
| `DeleteByAdr` | `user_tbl_slave_mac_delete_by_adr` |
| `DeleteAll`, `DeleteAllMark`, `DeleteAllEnd` | `user_tbl_slave_mac_delete_all` |
| `PowerLoss` | reset and power-on |

`BondStore` is the promise to the rest of the dongle: an ordered list of slaves
that is added to at the end and forgets single slaves (the one deleted, or the
oldest when there is no room for a new one), and of which a power loss may lose
only what an interrupted operation, or the compaction at
power-on, was about to write or delete.  `BondTable` ends with the
mapping (`Bonds`: the valid areas of the sector from the lowest on, or the RAM
table while the sector is rewritten); TLC checks the refinement and
`BondTableProofs` proves it.

### `DongleHost` (blm_host.c, blm_att.c, blm_pair.c, app.c, button.c)

`phase` is the position in `main_idle_loop`: callbacks, button, pairing, update
and the end of the pass; `disc` > 0 means that a discovery is on the stack, and
the end of the pass is then its wait loop (`WaitMore`, `WaitNext`,
`WaitSuccess`, `WaitTimeout`), otherwise `main_loop` (`Service`).  The radio is
`ctrl`, `peer` and the queue `evq` through which the host learns of it.
Advertising reports (`AdvReport`) come while scanning, and for a while after a
connection was requested.  `answers` and `tried` are history variables.  The
RAM table is a sequence; that it is stored in flash is `BondTable`'s subject.
`TypeByteMatch` holds the slaves whose address type happens to equal the byte
that `app_service_discovery` saves in its place.

### `MasterOta` (blm_ota.c)

One pass of the loop is a callback followed by `proc_ota`, which is split where
it reads the state of the link (`OtaUpdateConn`, `OtaLeds`, `OtaGuard`,
`OtaStep`), because interrupts work in between.  Sizes and addresses count
16-byte blocks.  `slave` is what the remote received, which the properties
compare with what was to be sent.  The two images and their LEDs are not told
apart.

### `UsbReports` (usbkb.c, usbmouse.c, blm_att.c, usb.c)

`AttKeyboard` and `AttKeyboardMedia` are the notifications; one of them makes up
to three reports, each written to its endpoint if that is free and pushed into
`usb_fifo` otherwise.  `Push`, `HidReport`, `ReportKey` and `UsbkbHidReport` are
functions on the state of the device (`Device`), composed in the order of the
calls.  `FifoProc` and `UsbReset` are the two parts of `usb_handle_irq` that
change it; `Poll` and `Suspend` are the PC.  `held` is what the slave last said,
`pc` what the PC believes.  A key is a member of one of three sets, since the
code tells them apart by range only.  The slave may repeat a notification, as
slaves built with `KB_REPEAT_KEY_ENABLE` do.  Mouse frames are not in the model
because nothing calls `att_mouse`, nor are the release timeouts, which nothing
calls either.

`ReportQueue` is the promise of the FIFO: arrival order, the newest
`USB_FIFO_NUM` reports.

### `SoftTimer` (vendor/common/blt_soft_timer.c)

`timer` is the table as a sequence, `clock` counts modulo `M`, and
`TimeCompareBig` and `IsTimerExpired` are the macros of the header with their
modular differences.  `blt_soft_timer_process` is split at its callbacks
(`ProcessStart`, `CallbackDelete`, `CallbackAgain`, `ProcessSkip`,
`ProcessEnd`), with the clock running in between; the bubble sort is a fold of
its comparisons over the indices of its two loops.

### `AudioBuffer` (audio_buffer.c, blm_att.c)

The three pointers and the reset counter are shared by the main loop
(`AbufMicAdd`, `ProcAudio`, `AbufInit`, `CheckReset`, `SkipMic`, `DecLoad`,
`DecDone`, split where the interrupt may come between an access and the next)
and the interrupt (`AbufDecUsb`).  Samples are counted in units of eight, the
largest step that both the frame (248) and a USB packet (16) are made of.
`unheard` and `hollow` are history: which units were decoded and not sent, and
which slots count as decoded but hold no new frame.  `n_usb_iso` has no effect on
the code and is left out.

### `Remote` (8258_ble_remote, keyboard.c, blt_led.c)

A pass is the BLE entry (one callback, a retention sleep, an early wake-up with
its scan, or nothing), the keys (`ScanKeys` or, within 8 ms, `SkipScan`) and the
LED with the power management (`BltPmProc`, `DeepSleep`).  The link layer
changes state in its interrupt at any time and its callback runs in the next BLE
entry, which is why the code asks `blc_ll_isControllerEventPending`.  A scan
reads the pins twice, and a key that moved reads as anything for `BounceScans`
scans.  `latest_user_event_tick` and `advertise_begin_tick` are one timer,
`"idle"`: the first is read only in a connection and set when it begins, the
second only without one and set when it ends.  `shown` is what the master was
last told.  Notifications are taken to be accepted in a connection: the audio
leaves room in the FIFO, as `task_audio` stops at 9 of 16 packets.

### `SppModule` (8258_module, my_fifo_* of utility.c)

`rx` and `tx` are the two FIFOs with their slots and u8 pointers (modulo
`Modulus`), `dma` the slot that the UART receives into, `sending` what it sends.
`blt_sdk_main_loop` is in the library; it calls `RxFromUartCb` (followed by
`RxPop`), `TxToUartCb`, the event handler (`LinkEvent`) and, when `mask` allows
it, `AppSuspendEnter`, in any order.  `DataSent`, `ManageSleep` and
`SppRestartProc` are the rest of the loop.  `IrqHandler`, `TxDone` and the MCU act
between any two steps; the two halves of `app_power_management` are apart because
the UART may finish between them.  A retention sleep keeps the variables and
loses the outputs, which `gpio_init` sets again (`WakeFromRetention`); whether the
library then reports `BLT_EV_FLAG_SUSPEND_EXIT` is left open.  A command is a
number; what it makes the stack do is not in the model, but that any may be the
restart command is.  `unhandled` and `owed` are history: commands not handled, and
those whose answer was accepted by `spp_tx_fifo`.

Assumed of the MCU: it raises its pin before it sends, waits until the module is
awake, holds the pin until the command has been received, has at most `Window`
commands without an answer, and takes an answer that found the FIFO full for lost.

### `H5Link` (hci_transport_h5.cpp)

Each C function is an operator from the state of an end to the next, composed as
the calls are; an action is one callback.  Both ends run the code, since the
controller is not in the repository.  `wire` holds complete frames; a damaged
one fails the header checksum or the length test and is lost.  The encoder reads
the upper layer's buffer while it writes, so a packet that is handed over while
an old retransmission is on its way tears it (`Torn`).  `ReliableChannel` is the
promise to the upper layer for one direction; a reset gives up the packet under
way.

## 3. Runs

| run | instance | shows |
|-----|----------|-------|
| `bond_table` | 3 slaves, table of 2, sector of 5 areas, cleaned from 3 | all bond-table properties and the refinement |
| `host_safety` | 3 slaves, table of 2, 2 requests per discovery, 2 events queued | safety of the host |
| `host_liveness` | 2 slaves | `PendingEnds`, `UnpairServed` |
| `host_lost_discovery` | 2 slaves | violation of `NewSlaveDiscovered` |
| `ota` | images of 0 and 3 blocks, FIFO of 3, data held back at 2 | the transfer's properties |
| `usb_reports` | a key for each endpoint, FIFO of 2, pointers modulo 8 | `UndisturbedMirror`, refinement of `ReportQueue`, `Drains` |
| `soft_timer` | 4 timers, intervals 1 and 3, clock modulo 24 | `Ordered`, `NeverMissed` |
| `audio` | frames of 3 units, pointers modulo 8, reset of 5, 2 packets and 2 interrupts a pass | `Lag`, `PlaysFresh` |
| `remote` | a consumer key, a keyboard key and the voice key, one bouncing scan | `AtRest`, `MicShown`, `LeftAloneSleeps` |
| `spp_module` | FIFOs of 2 slots, pointers modulo 4, 2 commands under way | `InOrder`, `SleepsClean`, `McuWarned`, `IdleSleeps`, `CommandsAnswered` |
| `h5_link` | 2 packets each way, 1 lost frame, 1 restart, `OnTime` | `TimerRuns`, `InStep`, refinement of `ReliableChannel` |
| `h5_live` | 1 packet each, 1 lost frame, 1 restart, a controller that lets the link sleep | `LinkComesUp`, also after the restart, `PacketResolves` |

Bounds.  Three slaves and a table of two give every relation between a new
slave, the oldest and another one.  A sector of a few areas fills, is cleaned
and fills again within a run.  Two requests per discovery let an answer, a
timeout and a change of connection fall before, between and after them.
`MaxQueue` limits packets only, never establish and disconnect events.  Three
blocks pass a FIFO of three with a threshold of two, so that it is full, partly
drained and empty at each step of the transfer.  A FIFO of two reports overflows
after two notifications, and pointers modulo 8 wrap twice as slowly as the
overflow test does, as u8 pointers do with a FIFO of four.  The timers keep the
proportions that matter: due times spread over less than a quarter of the clock,
and the margin after the due time covers the three calls of `process` that four
timers deleted at once need (4 s in the code, with calls at most a connection
interval times latency apart); with one tick less it does not.
A frame of three units is odd, as 31 is, so USB packets straddle frames; pointers
modulo 8 go around the ring of four twice before they wrap.  `IrqPerPass` says
that few interrupts, one a millisecond, fall into a pass of the main loop, fewer
than half of a reset: what takes longer, writing the flash, disables interrupts.
`ReleaseScans` is as small as the debouncing allows with one bouncing scan (three
more; the code's 6 allows three); with two of the three keys held the third still
moves, so that releases roll over and the case of three keys occurs.  One blink
of the update sequence is on, off and the end.  Sequence numbers modulo 2 are the
hardest case of the alternating acknowledgement, in which an old number is soon
current again; one frame on the line, one lost and one restart suffice for each
retransmission, acknowledgement and handshake frame to be the one that is lost or
left over.  Two slots in `spp_rx_fifo` are the code's number, and as many commands
under way as it can hold; with three the DMA overwrites an unread command
(`InOrder` fails).  `spp_tx_fifo` has two slots instead of eight, so that it fills.

`TypeOK` is a conjunct of `NoDuplicateBond`, `BlocksInFlight`, `UndisturbedMirror`,
`Ordered`, `Lag`, `AtRest`, `InOrder` and `TimerRuns`.

Fairness.  The operation in progress is straight-line code and goes on
(`BondTable`).  The main loop never blocks (`DongleHost`, `MasterOta`: weak
fairness of a pass).  Time-outs are compared with a running clock in every
pass, so one that is enabled again and again is taken in the end (strong
fairness of `WaitTimeout` and `OtaTimeout`).  A link that was terminated goes
down (the supervision timeout of the link layer).  The dongle's main loop passes
many times between two notifications, so it finds a free endpoint again and again
(`FifoProc`, strong), and a PC that is awake polls (`Poll`, weak).  Nothing is assumed of
slaves: they may never answer.  In `Remote` the loop runs, scans again and again
(strong fairness, as a scan needs 8 ms since the last) and time passes; a
link that was told to end does, by its supervision timeout at the latest, and an
update ends by the 15 s that `app_enter_ota_mode` sets.  `LeftAloneSleeps` speaks
of keys that stay up, a microphone that stays off and a master that does not
reconnect for ever.  In `SppModule` the loop runs and calls the UART handlers again
and again, the stack sleeps when the mask lets it and wakes up by its timer, the
UART sends and receives, and 500 us pass; the MCU need not do anything.  In
`H5Link` timers expire, blocks are written and frames
arrive, and only finitely many are lost; both runs assume `OnTime`, that a frame
has been written before the timer asks for it again, as `link_resend_timeout_ms`
(three times the longest packet), the 250 ms of the handshake and the 50 ms of the
wakeup intend.  The host resets the link when its command to restart the controller has
timed out; as the line keeps up, it is writing nothing again and again until then, which
is the strong fairness of `ResetLink`.  Without
`OnTime` the requests of the timer, which have the higher priority, can keep an
acknowledgement or a sync response from being sent for ever.

## 4. What the runs found

`host_lost_discovery`: a slave that connects during the discovery of its
predecessor is not discovered (`app.c:268` clears the new registration).

In the models, and seen with them, without a run of their own:

* USB reports: a press that waits in `usb_fifo` does not set `usbkb_not_released`
  (`src/ble_sdk_multimode/application/app/usbkb.c:241`), so the release after it is
  dropped (line 117) and the key stays pressed at the PC.  `UndisturbedMirror`
  speaks of notifications that found their endpoint free.
* SPP module: if the UART finishes its last message after `app_power_management`
  has looked, and the module then sleeps with retention, `module_uart_data_flg` is
  still set afterwards while `GPIO_WAKEUP_MCU` is low again; for an event in the
  first pass after it the MCU is not woken (`8258_module/spp.c:366`, "Notify MCU that there is
  data here").  `McuWarned` excepts it by `stale`.
* bond table: the log index is not bounded while the dongle works.  The comment
  in `blm_pair.c` relies on the free half of the sector; 256 pairings in one
  power cycle use it up and later records are never found again (`InSector` is
  checked and proved for as many pairings as there is room for);
* host: `blm_host.c:135` saves a byte of a pointer instead of the address type,
  so a known slave is discovered at each connection;
* OTA: `ota_lastData_tick` is never set, so the pause of 50 ms before the end
  command does not take place (`blm_ota.c:390`); any read-by-type response, a
  late one to the service discovery too, is taken for the OTA handle
  (`blm_ota.c:162`), and the transfer then reports a success that is none: the
  exception in `SuccessMeansDelivered`; an image of size 0 ends with index 0xffff;
* USB: the release of a held key at a disconnect is commented out
  (`blm_att.c:359`); consumer keys bypass the repeat filter that the comment at
  `usbkb.c:341` describes; a report that finds its endpoint free overtakes older
  ones in the FIFO (`usbkb.c:192`);
* soft timers: adding one does not set the wake-up, and `process` does not either
  until a timer has expired;
* audio: the exceptions of `PlaysFresh` are audible.  After an overflow of the
  packet ring the decoder works with the count from before and may write the
  frame being sent; the frame passed over is played as it was; a packet that
  straddles the end of the last frame takes eight samples that are not decoded
  yet; when the read pointer wraps at an odd frame, eight samples come twice;
* remote control: with a consumer key held, a keyboard key pressed, and then the
  consumer key released first, only the keyboard key's release is reported
  (`app_ui.c:470-501`): the master sees the consumer key down for good.  Three
  keys at once are taken for a release.  A key pressed after the link ended and
  before the next `blt_pm_proc` does not stop the deep sleep, only one before
  (`app.c:271-280`);
* H5: a retransmission that waits for the line when the acknowledgement comes is
  not withdrawn: `clear_queue` leaves the action, and `link_run` sends `hci_packet`,
  which is NULL (`crashed` in the model, the exception in the liveness
  properties).  A lost wakeup is never repeated: the timeout handler returns
  before `link_run` (line 374), although the constant says "resend wakeup"; hence
  `asleep` in `PacketResolves`.  A packet out of sequence has its acknowledgement
  ignored, and one that carries data takes the place of a pending pure
  acknowledgement, so two ends that retransmit in step may stand still without
  `OnTime`.  `link_init` does not clear the pending actions.

## 5. Proofs

Eight modules hold the proofs, one per component.  Each has an inductive
invariant `IndInv` with `Init => IndInv` and `IndInv /\ [Next]_vars => IndInv'`,
the second with a lemma per action, and the theorems follow from it.  TLC checked
each `IndInv` on small instances before it was proved.  The theorems hold for
every value of the constants that the module's `ASSUME` admits.

| module | theorems | for every |
|--------|----------|-----------|
| `BondTableProofs` | `TypeOK`, `BootAccepts`, `InSector`, `Durable`, `OneRecordEach`; `LogDiscipline`; the refinement of `BondStore` | set of slaves, table size, sector geometry |
| `DongleHostProofs` | `NoDuplicateBond`, `PendingHasService`, `UnpairLeavesNoBond`; `AnswerIntoLiveBuffer`, `DiscoveryCoherent`, `UpdateForRequester` | set of slaves, table size, number of requests, queue |
| `MasterOtaProofs` | `BlocksInFlight`, `OneConnection`; `SuccessMeansDelivered` | image size, FIFO, threshold |
| `UsbReportsProofs` | `UndisturbedMirror`; the refinement of `ReportQueue` | set of keys, FIFO size from 2 on, range of its pointers |
| `H5LinkProofs` | `TimerRuns`; `InStep` and the refinement of `ReliableChannel`, with `OnTime` or without restarts | range of the sequence numbers, number of packets, losses, repetitions and restarts |
| `AudioBufferProofs` | `Lag`, `PlaysFresh` | frame size, range of the pointers, length of a reset |
| `RemoteProofs` | `AtRest`, `MicShown` | set of keys, `release_cnt` |
| `SppModuleProofs` | `InOrder`, `SleepsClean`, `McuWarned` | size of the two FIFOs, range of their pointers, commands under way |

### The arguments

*`BondTable`*.  All theorems assume `PairingBudget`, that one power cycle has no
more pairings than the areas between the threshold and the end of the sector;
without it the runs show `InSector` violated.  That the trap at power-on
is never reached needs the number of valid records in flash to be at most
`MaxNum` after every flash command (`Capacity`); that needs the table to mirror
the flash (`Mirrors`) with exactly `Len(tbl)` valid areas while a record is
being added, which needs the log to be free of holes (`LogShape`, `Frontier`)
so that the traversal, which stops at the first free area, sees all of it.
`InvScan`, `InvSettled`, `InvRewrite` and `InvWipe` say how much of this holds
in each stage of an operation, and `InvBudget` counts the areas used.
`OnceInv` adds that a slave about to be stored has no entry and that a table
being rewritten has no slave twice.
For the refinement (`KeepsBonds`) the list numbers the valid areas by rank (`Nth`), and an
enumeration that ascends and covers a set of areas is that numbering (`ListNth`), so where
the table mirrors the flash the list is the table (`Listing`).  A record written at
`cfgIdx` is then the new last one, because `Frontier` puts it above all valid areas; a record
marked deleted takes out the one of its rank; and `Named`, that valid records and the
entries being rewritten are slaves', makes the result a list of the store.

*`DongleHost`*.  The host lags behind the radio by the queue `evq`, so the
properties hold only because of what may be in it: everything belongs to one
connection and one slave, the establish event is first, the disconnect event last,
and the radio stays off until that is delivered (`QueueShape`, `QueueOneSlave`).
An answer can only come while the request's own connection lasts, and while
`SDP_PENDING` would have it copied the discovery is still on the stack
(`RequestOnLink`); from the copy to the next step of the discovery no event is
delivered (`AnswersFromCurrent`), so the answers of a discovery that succeeds
are from one slave although all connections share a handle.

*`MasterOta`*.  `LostLinkStops`: once the connection of a transfer is lost, the
guard of `proc_ota` stops the transfer before its next step or the next
connection.  `BlocksInFlight` compares the blocks the slave has, followed by what
is behind the last start command in the FIFO, with `0 .. ota_adr - 1`; `EndLast`
carries the end command from the FIFO to the slave.  An index has 16 bits
(`IndexMod`), so the end command names the last block only because an image has
at most `IndexMod` blocks (`FW_SIZE_MAX` is 8192), which is assumed.

*`UsbReports`*.  A notification makes up to three reports, so the lemmas are about
one report function and about what up to three of them in a row add up to
(`Kept`).  While nothing had to wait, what the PC sees, the bits of
`usbkb_not_released` and `last_data` all follow the slave (`Mirrors`).  For the
refinement the FIFO's content is the sequence between the two pointers; a push
appends, and drops the first when it is full.  `FifoNum` is at least 2: the
overflow test compares the pointers modulo `2 * FifoNum`, and for a FIFO of one slot it
would never fire.

*`H5Link`*.  Each C function maps an end to the next, so there is a lemma per function,
with three relations: on the numbers of the sender, on those of the receiver and on
the frame being written.  `TimerRuns` is not inductive because an end that gets
active stops its timer without a look at the queue; `NoPacketYet` says that
there is nothing in it then.  The refinement needs `RunInv`, the order of
what is under way (`Direction`): of the frames on the line and the one being written, first
those of the packet before, then those of this one, and acknowledge numbers likewise.
Over restarts three things come on top.

* While both ends are at one link or on the way to it (`Joined`), each line may begin
  with frames of an earlier link (`Parts`).  There is no SYNC_RESPONSE among them, and
  the end that reads them is uninitialized, so it passes over them.  `Direction` holds of the rest,
  with the numbers 0 for an end that is not active (`Zeroed`): it has older ones, but uses
  none until it sets them to 0.  That it does not needs `Calm`, that it has no
  acknowledgement pending.
* The handshake keeps an order (`Shake`): an end's SYNC goes before its CONFIG, and so do
  the answers.  Hence when an end is active nothing of the first half of the
  handshake is left that could start its peer, once that has restarted, before the host resets the link.
* After a restart of the controller (`Parted`) the host goes on with the controller it
  knew, `g`, a record that writes nothing more; the new controller cannot begin,
  because an active host answers no SYNC.

`OnTime` is used in one place: `ResetLink` then finds the host writing nothing, and an
end that writes nothing has nothing pending but a wakeup (`Idle`), so nothing of the
old link is sent on the new one.  Without restarts (`MaxResets = 0`) it is not needed.
With restarts and without `OnTime` the refinement is false:
`hci_transport_h5_reset_link` and `link_init`
(`src/tools/btstack/vcsim/btstack/src/hci_transport_h5.cpp:752-764`) leave pending
actions, so an acknowledgement requested before the restart can be sent after it
and confirm a packet that was never received.

*`AudioBuffer`*.  During a reset, and while `abuf_init` stores its variables, the
pointers may be anything.  The interrupt that ends the reset makes them equal, but
the main loop may have decided before to skip to `abuf_mic_wptr`.  What it skips
then is only what the pass received, because the pass before skipped too: `Caught` keeps
account of how long ago a reset began (`reset + irqs`) for each step of the pass.
This is where `ResetCount > 2 * IrqPerPass` is needed.  The skip jumps over
at most `AddPerPass` packets, so `AddPerPass` is at most `Slots + 1` (with more,
`Lag` does not hold), and a frame has at least two units, so that a packet does not
cross two frames.  `PlaysFresh` looks only at the next packet; `Fresh` says it of all that
is left to read: each unit of a frame between the reader and the decoder, from the read
pointer on, is unheard, or its slot is hollow, or it is the first unit after the wrap.
Five frames share four slots, so with the packet dropped from a full `abuf_mic` the first
and the last are in one slot, which is hollow.

*`Remote`*.  `AtRest` is about the moment `release_cnt` runs out; `Counting` says what
holds on the way there: after a scan without a contact nothing is down but a key that
has just moved, and after `BounceScans + 2` such scans the filter has let go.
`BounceScans` is 0 or 1: `key_debounce_filter` takes two equal samples 8 ms apart, and a
contact that bounces for two scans can give it two equal wrong ones.

*`SppModule`*.  The slots between the pointers of `spp_rx_fifo` hold the commands not handled,
in order, and the slot under DMA is beyond them because at most `Window <= RxNum`
commands are under way; likewise for `spp_tx_fifo` and the answers.  The pointers count
modulo a multiple of the sizes that is larger than the slots, so a difference of
them is never ambiguous (`Modulus > RxNum + 1` as the commands are numbered
modulo it too).  `Quiet` and `Warned` relate the two halves of `app_power_management` to the UART
and the pins.

### Only model-checked

* Liveness (`BootCompletes`, `PendingEnds`, `UnpairServed`, `TransferEnds`, `Drains`,
  `LinkComesUp`, `PacketResolves`, `LeftAloneSleeps`, `IdleSleeps`,
  `CommandsAnswered`): the proof system does not reason about fairness and ENABLED.
* `Ordered` and `NeverMissed` of `SoftTimer`: that the bubble sort, a fold, sorts is
  induction over data.

## 6. Plan

1. done: `BondTable`, `DongleHost`, `MasterOta`, `UsbReports`, `SoftTimer`,
   `AudioBuffer`, `Remote`, `SppModule`, `H5Link`, and the proofs of section 5.
2. open: `Ordered` and `NeverMissed` of `SoftTimer` for every table, if the prover gets
   induction over data.

## 7. Not modelled

* `my_fifo_push` (`src/ble_sdk_multimode/common/utility.c`), which nothing in
  the sources calls.  It accepts `n < size` but writes two bytes of
  header before them, so `n = size - 1` would run into the next entry (line 177).
* The arithmetic of connection parameters (`blm_host.c:628`): `interval_us *
  (latency + 1)` is 32 bits wide and may wrap for values that a slave sends; the
  model takes a request as acceptable or not.
* Of the SPP module: what the commands ask of the library, the battery check and
  the LED that shows the result of an update.
* Of the remote control: infrared, fast scan after a deep sleep, stuck keys, key
  repeat and the PHY test, which the configuration leaves out; the encoder; MTU
  and parameter requests, which change no state of the application.
* Of the H5 transport: `close` and a second `open`, `set_baudrate`, the parity
  detection, the UART's sleep mode, damage inside a payload (the code checks only
  the header and the length).
* The rest of BTstack under `src/tools`: a third-party stack that the PC tools
  link; most of the lines of the repository outside the SDK are its.
* BLE stack and crypto (binary), drivers, boot code, descriptors, demonstrations,
  the 826x tree: see section 1.
