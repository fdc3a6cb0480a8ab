----------------------------- MODULE SppModule -------------------------------
(* The BLE module that an MCU drives over a UART (8258_module: app.c, spp.c,   *)
(* main.c; my_fifo_* of utility.c).  DMA puts each command of the MCU into     *)
(* spp_rx_fifo, from which rx_from_uart_cb takes it; answers and events go      *)
(* through spp_tx_fifo.  Two pins wake the other side up, and the module sleeps *)
(* only when both sides are quiet.                                              *)
(*                                                                             *)
(* The handlers run inside blt_sdk_main_loop, in any order; the UART, its       *)
(* interrupt and the MCU act between any two steps.  About the MCU it is        *)
(* assumed that it has at most Window commands without an answer, sends while   *)
(* it holds its pin high and the module has woken up, and takes an answer for   *)
(* lost when spp_tx_fifo had no room for it.                                    *)
EXTENDS Integers, Sequences, FiniteSets

CONSTANTS
    RxNum,      \* SPP_RXFIFO_NUM
    TxNum,      \* SPP_TXFIFO_NUM
    Modulus,    \* the pointers of a my_fifo count modulo this (256)
    Window      \* bound: commands of the MCU without an answer

ASSUME SppAssumption ==
    /\ RxNum \in Nat \ {0} /\ TxNum \in Nat \ {0} /\ Window \in 1 .. RxNum
    /\ Modulus \in Nat \ {0} /\ Modulus % RxNum = 0 /\ Modulus % TxNum = 0
    /\ Modulus > RxNum + 1 /\ Modulus > TxNum

Command == 0 .. Modulus - 1 \* commands, numbered by the MCU since the last restart
Event == Modulus        \* an event or data of the link, in spp_tx_fifo
Empty == -1                 \* a slot that was never written, a UART that is idle
Torn == -2                  \* a slot that DMA is writing

VARIABLES
    rx, tx,     \* spp_rx_fifo, spp_tx_fifo
    dma,        \* slot of spp_rx_fifo that reg_dma_uart_rx_addr points to
    sending,    \* what the UART sends
    pc,         \* where the main loop is
    mask,       \* bls_pm_setSuspendMask: sleep is allowed
    tick,       \* tick_wakeup is not 0
    pull,       \* the module's resistor at GPIO_WAKEUP_MODULE
    flag,       \* module_uart_data_flg
    wakeMcu,    \* GPIO_WAKEUP_MCU
    restart,    \* spp_cmd_restart_flag
    sleep,      \* "awake", "suspend" or "retention"
    mcuPin,     \* what the MCU does at GPIO_WAKEUP_MODULE
    next,       \* the next command of the MCU
    writing,    \* the MCU is sending a command
    unhandled,  \* commands that arrived and were not handled yet
    owed,       \* commands whose answer is on its way
    stale       \* module_uart_data_flg is left from before a retention sleep

fifos == <<rx, tx, dma, sending>>
power == <<mask, tick, pull, flag, wakeMcu, sleep>>
mcu == <<mcuPin, next, writing>>
ghost == <<unhandled, owed, stale>>
vars == <<fifos, pc, power, restart, mcu, ghost>>

-----------------------------------------------------------------------------
\* my_fifo_*
FifoInit(num) == [w |-> 0, r |-> 0, slot |-> [k \in 0 .. num - 1 |-> Empty]]
FifoNum(f) == Cardinality(DOMAIN f.slot)
FifoCount(f) == (f.w - f.r) % Modulus
FifoWptr(f) == f.w % FifoNum(f)
FifoRptr(f) == f.r % FifoNum(f)
FifoHasRoom(f) == FifoCount(f) < FifoNum(f)
FifoNext(f) == [f EXCEPT !.w = (f.w + 1) % Modulus]
FifoPop(f) == [f EXCEPT !.r = (f.r + 1) % Modulus]
FifoIsEmpty(f) == f.r = f.w

\* Faulty variant: what the UART is still sending is forgotten.
UartTxBusyFifo == ~FifoIsEmpty(tx)

\* app_module_busy
UartTxBusy == ~FifoIsEmpty(tx) \/ sending # Empty
UartRxBusy == ~FifoIsEmpty(rx)
PinHigh == mcuPin = "high" \/ (mcuPin = "float" /\ pull = "up")
AppModuleBusy == PinHigh \/ UartTxBusy \/ UartRxBusy

\* spp_send_data; without room the message is dropped.
SppSendData(m) ==
    IF FifoHasRoom(tx)
    THEN /\ tx' = FifoNext([tx EXCEPT !.slot[FifoWptr(tx)] = m])
         /\ wakeMcu' = (wakeMcu \/ ~flag)
         /\ flag' = TRUE
    ELSE UNCHANGED <<tx, wakeMcu, flag>>

AppSuspendExit == pull' = "up" /\ mask' = FALSE /\ tick' = TRUE

Init ==
    /\ rx = FifoInit(RxNum) /\ tx = FifoInit(TxNum) /\ dma = 0 /\ sending = Empty
    /\ pc = "stack" /\ sleep = "awake" /\ restart = FALSE
    /\ mask = TRUE /\ tick = FALSE /\ pull = "down" /\ flag = FALSE /\ wakeMcu = FALSE
    /\ mcuPin = "low" /\ next = 0 /\ writing = FALSE
    /\ unhandled = <<>> /\ owed = <<>> /\ stale = FALSE

-----------------------------------------------------------------------------
\* The handlers inside blt_sdk_main_loop.

\* rx_from_uart_cb and bls_uart_handler: the command stays in its slot while it is
\* handled.  It may be the restart command; the answer bears the command.
RxFromUartCb ==
    /\ sleep = "awake" /\ pc = "stack"
    /\ ~FifoIsEmpty(rx) /\ rx.slot[FifoRptr(rx)] # Empty
    /\ SppSendData(rx.slot[FifoRptr(rx)])
    /\ restart' \in {restart, TRUE}
    /\ unhandled' = Tail(unhandled)
    /\ owed' = IF FifoHasRoom(tx) THEN Append(owed, Head(unhandled)) ELSE owed
    /\ pc' = "pop"
    /\ UNCHANGED <<rx, dma, sending, mask, tick, pull, sleep, mcu, stale>>

\* rx_from_uart_cb: my_fifo_pop
RxPop ==
    /\ pc = "pop"
    /\ rx' = FifoPop(rx)
    /\ pc' = "stack"
    /\ UNCHANGED <<tx, dma, sending, power, restart, mcu, ghost>>

\* tx_to_uart_cb; the wait of 100 us after the MCU was woken changes nothing.  (What
\* is left in a slot of spp_tx_fifo is not read again; the model forgets it.)
TxToUartCb ==
    /\ sleep = "awake" /\ pc = "stack"
    /\ ~FifoIsEmpty(tx) /\ sending = Empty
    /\ sending' = tx.slot[FifoRptr(tx)]
    /\ tx' = FifoPop([tx EXCEPT !.slot[FifoRptr(tx)] = Empty])
    /\ UNCHANGED <<rx, dma, pc, power, restart, mcu, ghost>>

\* event_handler and module_onReceiveData: an event or data of the link
LinkEvent ==
    /\ sleep = "awake" /\ pc = "stack"
    /\ SppSendData(Event)
    /\ UNCHANGED <<rx, dma, sending, pc, mask, tick, pull, sleep, restart, mcu, ghost>>

\* The stack would sleep and asks app_suspend_enter.
AppSuspendEnter ==
    /\ sleep = "awake" /\ pc = "stack" /\ mask
    /\ IF AppModuleBusy
       THEN AppSuspendExit /\ UNCHANGED <<sleep, stale>>
       ELSE /\ sleep' \in {"suspend", "retention"}
            /\ stale' = (stale \/ (sleep' = "retention" /\ flag))
            /\ UNCHANGED <<pull, mask, tick>>
    /\ UNCHANGED <<fifos, pc, flag, wakeMcu, restart, mcu, unhandled, owed>>

\* A timer or GPIO_WAKEUP_MODULE ends the suspend: BLT_EV_FLAG_SUSPEND_EXIT.
WakeFromSuspend ==
    /\ sleep = "suspend"
    /\ sleep' = "awake"
    /\ AppSuspendExit
    /\ UNCHANGED <<fifos, pc, flag, wakeMcu, restart, mcu, ghost>>

\* main and user_init_deepRetn: gpio_init sets the outputs as at power-on, the UART
\* starts again at the slot of wptr.  Whether the stack reports this end of sleep as
\* it does that of a suspend, and when, is open.
WakeFromRetention ==
    /\ sleep = "retention"
    /\ sleep' = "awake" /\ pc' = "stack"
    /\ dma' = FifoWptr(rx) /\ sending' = Empty /\ wakeMcu' = FALSE
    /\ \/ pull' = "down" /\ UNCHANGED <<mask, tick>>
       \/ pull' = "down" /\ mask' = FALSE /\ tick' = TRUE
       \/ AppSuspendExit
    /\ UNCHANGED <<rx, tx, flag, restart, mcu, ghost>>

-----------------------------------------------------------------------------
\* The rest of main_loop: app_power_management and spp_restart_proc.

\* Faulty variant: the last message is still being sent.
DataSentEarly ==
    /\ sleep = "awake" /\ pc = "stack"
    /\ IF flag /\ FifoIsEmpty(tx)
       THEN flag' = FALSE /\ wakeMcu' = FALSE /\ stale' = FALSE
       ELSE UNCHANGED <<flag, wakeMcu, stale>>
    /\ pc' = "mask"
    /\ UNCHANGED <<fifos, mask, tick, pull, sleep, restart, mcu, unhandled, owed>>

\* app_power_management: all data sent, the MCU may sleep.
DataSent ==
    /\ sleep = "awake" /\ pc = "stack"
    /\ IF flag /\ ~UartTxBusy /\ ~UartRxBusy
       THEN flag' = FALSE /\ wakeMcu' = FALSE /\ stale' = FALSE
       ELSE UNCHANGED <<flag, wakeMcu, stale>>
    /\ pc' = "mask"
    /\ UNCHANGED <<fifos, mask, tick, pull, sleep, restart, mcu, unhandled, owed>>

\* Faulty variant: GPIO_WAKEUP_MODULE stays pulled up.
ManageSleepPulled ==
    /\ pc = "mask"
    /\ mask' = (mask \/ (~AppModuleBusy /\ ~tick))
    /\ tick' \in {tick, FALSE}
    /\ pc' = "restart"
    /\ UNCHANGED <<fifos, pull, flag, wakeMcu, sleep, restart, mcu, ghost>>

\* ... 500 us after app_suspend_exit, at some pass, tick_wakeup is cleared and the pin
\* left to the MCU; sleep is allowed again in the pass after that.
ManageSleep ==
    /\ pc = "mask"
    /\ mask' = (mask \/ (~AppModuleBusy /\ ~tick))
    /\ \/ tick /\ pull' = "down" /\ tick' = FALSE
       \/ UNCHANGED <<pull, tick>>
    /\ pc' = "restart"
    /\ UNCHANGED <<fifos, flag, wakeMcu, sleep, restart, mcu, ghost>>

\* spp_restart_proc: 500 ms after the command the module starts again, whatever it
\* does; commands and answers under way are lost.
SppRestartProc ==
    /\ pc = "restart" /\ pc' = "stack"
    /\ \/ UNCHANGED <<fifos, power, restart, mcu, ghost>>
       \/ /\ restart /\ restart' = FALSE
          /\ rx' = FifoInit(RxNum) /\ tx' = FifoInit(TxNum) /\ dma' = 0 /\ sending' = Empty
          /\ mask' = TRUE /\ tick' = FALSE /\ pull' = "down" /\ flag' = FALSE /\ wakeMcu' = FALSE
          /\ next' = 0 /\ writing' = FALSE /\ unhandled' = <<>> /\ owed' = <<>> /\ stale' = FALSE
          /\ UNCHANGED <<sleep, mcuPin>>

-----------------------------------------------------------------------------
\* The hardware

\* The UART has sent a message (the TX part of irq_handler only clears the interrupt); the MCU has its answer.
TxDone ==
    /\ sending # Empty
    /\ sending' = Empty
    /\ owed' = IF sending \in Command THEN Tail(owed) ELSE owed
    /\ UNCHANGED <<rx, tx, dma, pc, power, restart, mcu, unhandled, stale>>

\* Faulty variant: the DMA address stays.
IrqHandlerNoSwitch ==
    /\ writing /\ writing' = FALSE
    /\ LET stored == [rx EXCEPT !.slot[dma] = next]
       IN  rx' = IF stored.slot[FifoWptr(rx)] # Empty THEN FifoNext(stored) ELSE stored
    /\ unhandled' = Append(unhandled, next)
    /\ next' = (next + 1) % Modulus
    /\ UNCHANGED <<tx, dma, sending, pc, power, restart, mcuPin, owed, stale>>

\* Faulty variant: the last free slot is not used.
IrqHandlerOneSlot ==
    /\ writing /\ writing' = FALSE
    /\ LET stored == [rx EXCEPT !.slot[dma] = next]
       IN  IF FifoCount(rx) + 1 < RxNum
           THEN rx' = FifoNext(stored) /\ dma' = FifoWptr(rx')
           ELSE rx' = stored /\ UNCHANGED dma
    /\ unhandled' = Append(unhandled, next)
    /\ next' = (next + 1) % Modulus
    /\ UNCHANGED <<tx, sending, pc, power, restart, mcuPin, owed, stale>>

\* DMA has stored a command; irq_handler goes on to the next slot.
IrqHandler ==
    /\ writing /\ writing' = FALSE
    /\ LET stored == [rx EXCEPT !.slot[dma] = next]
       IN  IF stored.slot[FifoWptr(rx)] # Empty
           THEN rx' = FifoNext(stored) /\ dma' = FifoWptr(rx')
           ELSE rx' = stored /\ UNCHANGED dma
    /\ unhandled' = Append(unhandled, next)
    /\ next' = (next + 1) % Modulus
    /\ UNCHANGED <<tx, sending, pc, power, restart, mcuPin, owed, stale>>

\* The MCU
McuRaisesPin ==
    /\ mcuPin # "high" /\ mcuPin' = "high"
    /\ UNCHANGED <<fifos, pc, power, restart, next, writing, ghost>>

McuReleasesPin ==
    /\ mcuPin = "high" /\ ~writing
    /\ mcuPin' \in {"low", "float"}
    /\ UNCHANGED <<fifos, pc, power, restart, next, writing, ghost>>

McuSends ==
    /\ mcuPin = "high" /\ sleep = "awake" /\ ~writing
    /\ Len(unhandled) + Len(owed) < Window
    /\ writing' = TRUE
    /\ rx' = [rx EXCEPT !.slot[dma] = Torn]
    /\ UNCHANGED <<tx, dma, sending, pc, power, restart, mcuPin, next, ghost>>

Next ==
    \/ RxFromUartCb \/ RxPop \/ TxToUartCb \/ LinkEvent
    \/ AppSuspendEnter \/ WakeFromSuspend \/ WakeFromRetention
    \/ DataSent \/ ManageSleep \/ SppRestartProc
    \/ TxDone \/ IrqHandler \/ McuRaisesPin \/ McuReleasesPin \/ McuSends

\* The main loop goes on and calls the handlers again and again, the stack sleeps
\* when it may and wakes up by its timer, the UART keeps its speed, and time passes.
MainLoop == RxPop \/ DataSent \/ ManageSleep \/ SppRestartProc

Fairness ==
    /\ WF_vars(MainLoop) /\ SF_vars(RxFromUartCb) /\ SF_vars(TxToUartCb)
    /\ SF_vars(AppSuspendEnter) /\ WF_vars(WakeFromSuspend \/ WakeFromRetention)
    /\ SF_vars(ManageSleep /\ tick /\ ~tick')
    /\ WF_vars(TxDone) /\ WF_vars(IrqHandler)

Spec == Init /\ [][Next]_vars /\ Fairness

-----------------------------------------------------------------------------
Fifo(num, content) ==
    [w : 0 .. Modulus - 1, r : 0 .. Modulus - 1, slot : [0 .. num - 1 -> content]]

TypeOK ==
    /\ rx \in Fifo(RxNum, Command \cup {Empty, Torn})
    /\ tx \in Fifo(TxNum, Command \cup {Event, Empty})
    /\ dma \in 0 .. RxNum - 1 /\ sending \in Command \cup {Event, Empty}
    /\ pc \in {"stack", "pop", "mask", "restart"}
    /\ mask \in BOOLEAN /\ tick \in BOOLEAN /\ pull \in {"up", "down"}
    /\ flag \in BOOLEAN /\ wakeMcu \in BOOLEAN /\ restart \in BOOLEAN
    /\ sleep \in {"awake", "suspend", "retention"} /\ mcuPin \in {"high", "low", "float"}
    /\ next \in Command /\ writing \in BOOLEAN /\ stale \in BOOLEAN
    /\ unhandled \in Seq(Command) /\ owed \in Seq(Command)

Content(f) == [k \in 1 .. FifoCount(f) |-> f.slot[(f.r + k - 1) % FifoNum(f)]]

\* The messages for the MCU: the one in the UART, then those in spp_tx_fifo.
Message(k) == IF k = 0 THEN sending ELSE tx.slot[(tx.r + k - 1) % FifoNum(tx)]

\* What is in the FIFOs and in the UART is what was sent: the commands in the order
\* of the MCU, none overwritten by the DMA before it is popped, and the answers that
\* the MCU waits for in the same order, at the places pos among the messages.
InOrder ==
    /\ TypeOK
    /\ Content(rx) = (IF pc = "pop" THEN <<rx.slot[FifoRptr(rx)]>> ELSE <<>>) \o unhandled
    /\ \E pos \in [1 .. Len(owed) -> 0 .. FifoCount(tx)] :
         /\ \A i \in 1 .. Len(owed) : Message(pos[i]) = owed[i]
         /\ \A i, j \in 1 .. Len(owed) : i < j => pos[i] < pos[j]
         /\ \A k \in 0 .. FifoCount(tx) :
              Message(k) \in Command => \E i \in 1 .. Len(owed) : pos[i] = k

\* The module sleeps only when it has nothing to handle or to send and the MCU is
\* not sending (app_suspend_enter).
SleepsClean ==
    sleep # "awake" => unhandled = <<>> /\ owed = <<>> /\ ~writing
                        /\ sending = Empty /\ tx.r = tx.w /\ rx.r = rx.w

\* While there is something for it the MCU is told so by GPIO_WAKEUP_MCU, unless the
\* flag says so since before a retention sleep, which resets the pin only.
McuWarned == sending # Empty \/ tx.r # tx.w => flag /\ (wakeMcu \/ stale)

\* If the MCU leaves its pin alone and nothing comes from the link, the module
\* sleeps again and again.
IdleSleeps == <>[](mcuPin # "high") /\ <>[][~LinkEvent]_vars => []<>(sleep # "awake")

\* Once the MCU is done, all of its commands are handled, and answered unless the
\* answer found spp_tx_fifo full or the module restarted, however busy the link is.
CommandsAnswered == <>[](mcuPin # "high") => <>[](unhandled = <<>> /\ owed = <<>>)
=============================================================================
