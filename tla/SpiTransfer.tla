------------------------------ MODULE SpiTransfer ------------------------------
(***************************************************************************)
(* hal_spi_transfer and dma2_stream0_isr of HAL/Src/hal_spi.c: a task arms *)
(* the two DMA streams of the SPI bus and sleeps in ulTaskNotifyTake until *)
(* the receive-complete interrupt wakes it.                                *)
(*                                                                         *)
(* Task steps, the interrupt and the DMA hardware interleave.  The part of *)
(* ulTaskNotifyTake that decides to sleep is three steps, since it matters *)
(* whether the interrupt can run between them: the kernel brackets them    *)
(* with a critical section, which only holds back interrupts whose         *)
(* priority value is at least configMAX_SYSCALL_INTERRUPT_PRIORITY.        *)
(***************************************************************************)
EXTENDS Integers

CONSTANTS Task,                 \* the tasks that call hal_spi_transfer
          NULL,                 \* not a task
          MaxLen,               \* bound: bytes in one transfer
          RxIrqPriorities,      \* NVIC priorities of the interrupt to look at
          MaxSyscallPriority    \* configMAX_SYSCALL_INTERRUPT_PRIORITY (0xB0)

ASSUME SpiAssumption == /\ NULL \notin Task
                        /\ MaxLen \in Nat \ {0}
                        /\ RxIrqPriorities \subseteq 0 .. 255
                        /\ MaxSyscallPriority \in 0 .. 255

VARIABLES
  pc,            \* each task's next step
  notify_task,   \* handle->_notify_task
  value,         \* each task's ulNotifiedValue
  waiting,       \* each task: ucNotifyState = taskWAITING_NOTIFICATION
  critical,      \* the task inside a kernel critical section, or NULL
  txOn, txLeft,  \* transmit stream: enabled, bytes still to hand to the SPI
  rxOn, rxLeft,  \* receive stream: enabled, bytes still to store
  inFlight,      \* bytes handed to the SPI and not yet shifted in
  rxne,          \* the SPI data register holds a received byte
  overrun,       \* a received byte was overwritten before it was stored
  tcif,          \* receive-complete interrupt pending
  rxIrqPriority  \* the interrupt's priority in the NVIC

taskVars == <<pc, notify_task>>
kernelVars == <<value, waiting, critical>>
dmaVars == <<txOn, txLeft, rxOn, rxLeft>>
spiVars == <<inFlight, rxne, overrun>>
irqVars == <<tcif, rxIrqPriority>>
vars == <<taskVars, kernelVars, dmaVars, spiVars, irqVars>>

Step == {"idle", "arm_rx", "arm_tx", "take", "check", "mark", "enlist", "blocked",
         "collect"}

Bit(b) == IF b THEN 1 ELSE 0

TypeOK ==
  /\ pc \in [Task -> Step]
  /\ notify_task \in Task \cup {NULL}
  /\ value \in [Task -> Nat]
  /\ waiting \in [Task -> BOOLEAN]
  /\ critical \in Task \cup {NULL}
  /\ txOn \in BOOLEAN /\ txLeft \in 0 .. MaxLen
  /\ rxOn \in BOOLEAN /\ rxLeft \in 0 .. MaxLen
  /\ inFlight \in 0 .. 2
  /\ rxne \in BOOLEAN /\ overrun \in BOOLEAN /\ tcif \in BOOLEAN
  /\ rxIrqPriority \in RxIrqPriorities

\* After hal_spi_init: streams idle, interrupt enabled in the NVIC.  The code leaves
\* its priority at 0; its comment means it to be within the syscall ceiling.
Init ==
  /\ pc = [t \in Task |-> "idle"]
  /\ notify_task = NULL
  /\ value = [t \in Task |-> 0]
  /\ waiting = [t \in Task |-> FALSE]
  /\ critical = NULL
  /\ txOn = FALSE /\ txLeft = 0
  /\ rxOn = FALSE /\ rxLeft = 0
  /\ inFlight = 0
  /\ rxne = FALSE /\ overrun = FALSE /\ tcif = FALSE
  /\ rxIrqPriority \in RxIrqPriorities

--------------------------------------------------------------------------------
\* hal_spi_transfer.  A task in a critical section cannot be switched out.
At(t, step) == pc[t] = step /\ critical \in {NULL, t}

Goto(t, step) == pc' = [pc EXCEPT ![t] = step]

\* handle->_notify_task = xTaskGetCurrentTaskHandle().
Begin(t) ==
  /\ At(t, "idle")
  /\ notify_task' = t
  /\ Goto(t, "arm_rx")
  /\ UNCHANGED <<kernelVars, dmaVars, spiVars, irqVars>>

\* dma_stream_reset clears the stream's flags; then set up and enable.
ArmRxDisabled(t) ==   \* mutant: dma_enable_stream is missing
  /\ At(t, "arm_rx")
  /\ rxOn' = FALSE
  /\ rxLeft' \in 1 .. MaxLen
  /\ tcif' = FALSE
  /\ Goto(t, "arm_tx")
  /\ UNCHANGED <<notify_task, kernelVars, txOn, txLeft, spiVars, rxIrqPriority>>

ArmRx(t) ==
  /\ At(t, "arm_rx")
  /\ rxOn' = TRUE
  /\ rxLeft' \in 1 .. MaxLen
  /\ tcif' = FALSE
  /\ Goto(t, "arm_tx")
  /\ UNCHANGED <<notify_task, kernelVars, txOn, txLeft, spiVars, rxIrqPriority>>

\* The same length as the receive stream.
ArmTxOneMore(t) ==   \* mutant: an off-by-one length
  /\ At(t, "arm_tx")
  /\ txOn' = TRUE
  /\ txLeft' = rxLeft + 1
  /\ Goto(t, "take")
  /\ UNCHANGED <<notify_task, kernelVars, rxOn, rxLeft, spiVars, irqVars>>

ArmTx(t) ==
  /\ At(t, "arm_tx")
  /\ txOn' = TRUE
  /\ txLeft' = rxLeft
  /\ Goto(t, "take")
  /\ UNCHANGED <<notify_task, kernelVars, rxOn, rxLeft, spiVars, irqVars>>

\* ulTaskNotifyTake(pdTRUE, portMAX_DELAY).
TakeEnter(t) ==
  /\ At(t, "take")
  /\ critical' = t
  /\ Goto(t, "check")
  /\ UNCHANGED <<notify_task, value, waiting, dmaVars, spiVars, irqVars>>

TakeCheck(t) ==
  /\ At(t, "check")
  /\ \/ value[t] = 0 /\ Goto(t, "mark") /\ UNCHANGED critical
     \/ value[t] > 0 /\ Goto(t, "collect") /\ critical' = NULL
  /\ UNCHANGED <<notify_task, value, waiting, dmaVars, spiVars, irqVars>>

TakeMark(t) ==
  /\ At(t, "mark")
  /\ waiting' = [waiting EXCEPT ![t] = TRUE]
  /\ Goto(t, "enlist")
  /\ UNCHANGED <<notify_task, value, critical, dmaVars, spiVars, irqVars>>

\* Off the ready list, onto the list of suspended tasks.
TakeEnlist(t) ==
  /\ At(t, "enlist")
  /\ critical' = NULL
  /\ Goto(t, "blocked")
  /\ UNCHANGED <<notify_task, value, waiting, dmaVars, spiVars, irqVars>>

\* pdTRUE: the count goes back to 0.  hal_spi_transfer returns.
TakeCollect(t) ==
  /\ At(t, "collect")
  /\ value' = [value EXCEPT ![t] = 0]
  /\ waiting' = [waiting EXCEPT ![t] = FALSE]
  /\ Goto(t, "idle")
  /\ UNCHANGED <<notify_task, critical, dmaVars, spiVars, irqVars>>

Rest(t) == \/ ArmRx(t) \/ ArmTx(t)
           \/ TakeEnter(t) \/ TakeCheck(t) \/ TakeMark(t) \/ TakeEnlist(t)
           \/ TakeCollect(t)

--------------------------------------------------------------------------------
\* The SPI and its DMA requests.

\* The transmit buffer and the shift register take one byte each.
Transmit ==
  /\ txOn /\ txLeft > 0 /\ inFlight < 2
  /\ txLeft' = txLeft - 1
  /\ inFlight' = inFlight + 1
  /\ UNCHANGED <<taskVars, kernelVars, txOn, rxOn, rxLeft, rxne, overrun, irqVars>>

\* A byte has been shifted in; an unread one is lost.  Shifting takes longer than
\* an enabled receive stream needs to fetch the byte before.
ShiftIn ==
  /\ inFlight > 0
  /\ ~(rxOn /\ rxne)
  /\ inFlight' = inFlight - 1
  /\ rxne' = TRUE
  /\ overrun' = (overrun \/ rxne)
  /\ UNCHANGED <<taskVars, kernelVars, dmaVars, irqVars>>

\* The last byte disables the stream and raises the interrupt.
Store ==
  /\ rxOn /\ rxne
  /\ rxne' = FALSE
  /\ rxLeft' = rxLeft - 1
  /\ rxOn' = (rxLeft > 1)
  /\ tcif' = (rxLeft = 1)
  /\ UNCHANGED <<taskVars, kernelVars, txOn, txLeft, inFlight, overrun, rxIrqPriority>>

--------------------------------------------------------------------------------
\* A critical section holds the interrupt back only up to the syscall ceiling.
WithinCeiling == rxIrqPriority >= MaxSyscallPriority

Masked == critical # NULL /\ WithinCeiling

\* vTaskNotifyGiveFromISR: a task that waits is put on the ready list.  One that
\* is still on its way to the suspended list goes on to enlist itself.
GiveFromISR(t) ==
  /\ value' = [value EXCEPT ![t] = @ + 1]
  /\ waiting' = [waiting EXCEPT ![t] = FALSE]
  /\ IF waiting[t] /\ pc[t] = "blocked" THEN Goto(t, "collect") ELSE UNCHANGED pc

isr_without_give ==   \* mutant: the task is not notified
  /\ tcif
  /\ ~Masked
  /\ tcif' = FALSE
  /\ rxOn' = FALSE
  /\ txOn' = FALSE
  /\ UNCHANGED <<taskVars, kernelVars, txLeft, rxLeft, spiVars, rxIrqPriority>>

isr_half_transfer ==   \* mutant: the half-transfer interrupt is enabled too and notifies
  /\ tcif \/ (rxOn /\ rxLeft = 1)
  /\ ~Masked
  /\ tcif' = FALSE
  /\ rxOn' = FALSE
  /\ txOn' = FALSE
  /\ GiveFromISR(notify_task)
  /\ UNCHANGED <<notify_task, critical, txLeft, rxLeft, spiVars, rxIrqPriority>>

dma2_stream0_isr ==
  /\ tcif
  /\ ~Masked
  /\ tcif' = FALSE
  /\ rxOn' = FALSE
  /\ txOn' = FALSE
  /\ GiveFromISR(notify_task)
  /\ UNCHANGED <<notify_task, critical, txLeft, rxLeft, spiVars, rxIrqPriority>>

--------------------------------------------------------------------------------
Next == \/ \E t \in Task : Begin(t) \/ Rest(t)
        \/ Transmit \/ ShiftIn \/ Store
        \/ dma2_stream0_isr

\* A transfer that has begun goes on, the hardware moves bytes, a pending
\* interrupt that is not masked is taken.  Nobody has to start a transfer.
Fairness == /\ \A t \in Task : WF_vars(Rest(t))
            /\ WF_vars(Transmit) /\ WF_vars(ShiftIn) /\ WF_vars(Store)
            /\ WF_vars(dma2_stream0_isr)

Spec == Init /\ [][Next]_vars /\ Fairness

--------------------------------------------------------------------------------
\* hal_spi_transfer returns only when all bytes have gone out and come in, with
\* both streams off: the caller may use its buffers again and deassert CS.
TransferComplete ==
  /\ ~rxOn /\ rxLeft = 0
  /\ ~txOn /\ txLeft = 0
  /\ inFlight = 0 /\ ~rxne

ReturnsOnlyWhenDone ==
  [][\A t \in Task : pc[t] = "collect" /\ pc'[t] = "idle" => TransferComplete]_pc

\* "RX DMA is set up first ... if RX isn't armed first, the first incoming byte is
\* lost" (docs/SPI_NOTES.md): no received byte is ever overwritten.
NoByteLost == ~overrun

\* A sleeping task is going to be woken: the interrupt that will notify it is
\* pending, or the bytes that will raise it are on their way.  It takes an interrupt
\* that the kernel's critical sections hold back.
NoLostWakeup ==
  \A t \in Task :
    pc[t] = "blocked" /\ WithinCeiling =>
      /\ notify_task = t
      /\ \/ tcif
         \/ rxOn /\ rxLeft > 0 /\ txLeft + inFlight + Bit(rxne) >= rxLeft

\* With the interrupt within the ceiling, every transfer that begins returns.
TransfersReturnWithinCeiling ==
  \A t \in Task : pc[t] # "idle" /\ WithinCeiling ~> pc[t] = "idle"

\* "Suspends the calling FreeRTOS task until done" (hal_spi.h): every transfer
\* that begins returns, at the priority the code leaves the interrupt with.
EveryTransferReturns == \A t \in Task : pc[t] # "idle" ~> pc[t] = "idle"
================================================================================
