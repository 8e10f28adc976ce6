-------------------------------- MODULE CircBuf --------------------------------
(***************************************************************************)
(* The circular buffer of Core/Src/cbuf.c and the two tasks that share it, *)
(* Core/Src/tasks/producer_task.c and Core/Src/tasks/consumer_task.c.      *)
(*                                                                         *)
(* The two tasks can be preempted between any two of the statements below, *)
(* so each access to a field the other task depends on is a step of its    *)
(* own: taking a semaphore, touching a slot, advancing an index, giving a  *)
(* semaphore.  A task's program counter names the step it takes next.      *)
(***************************************************************************)
EXTENDS Integers, Sequences

CONSTANTS CBUF_SIZE, \* slots in the buffer (8 in the firmware)
          Byte       \* what an uninitialised or a written slot can hold

ASSUME CBufAssumption == /\ CBUF_SIZE \in Nat \ {0}
                         /\ {0, 1} \subseteq Byte

VARIABLES
  data, head, tail,   \* CircBuf_t
  sem_free, sem_used, \* the counts of its two counting semaphores
  producer, cmd,      \* producer_task: next step, local cmd
  consumer, val,      \* consumer_task: next step, the byte cbuf_read returns
  led                 \* output bit of LED_GREEN (PA5)

bufVars == <<data, head, tail, sem_free, sem_used>>
prodVars == <<producer, cmd>>
consVars == <<consumer, val, led>>
vars == <<bufVars, prodVars, consVars>>

Slot == 0 .. CBUF_SIZE - 1

ProducerStep == {"take", "store", "advance", "give", "delay"}
ConsumerStep == {"take", "load", "advance", "give", "drive", "delay"}

TypeOK ==
  /\ data \in [Slot -> Byte]
  /\ head \in Slot
  /\ tail \in Slot
  /\ sem_free \in 0 .. CBUF_SIZE
  /\ sem_used \in 0 .. CBUF_SIZE
  /\ producer \in ProducerStep
  /\ cmd \in {0, 1}
  /\ consumer \in ConsumerStep
  /\ val \in Byte
  /\ led \in BOOLEAN

--------------------------------------------------------------------------------
\* FreeRTOS: giving a counting semaphore that is at its maximum count fails, and
\* cbuf.c does not look at the result.
Given(count) == IF count < CBUF_SIZE THEN count + 1 ELSE count

\* Mutants of Advanced: an index that never wraps, and one that wraps a slot early.
AdvancedUnwrapped(index) == index + 1
AdvancedShort(index) == (index + 1) % (CBUF_SIZE - 1)

\* Both indices wrap with % CBUF_SIZE.
Wrapped(position) == position % CBUF_SIZE

Advanced(index) == Wrapped(index + 1)

\* cbuf_init: nothing clears the slots; the port's output bit is 0 after reset.
Init ==
  /\ data \in [Slot -> Byte]
  /\ head = 0
  /\ tail = 0
  /\ sem_free = CBUF_SIZE
  /\ sem_used = 0
  /\ producer = "take"
  /\ cmd = 1
  /\ consumer = "take"
  /\ val = 0
  /\ led = FALSE

--------------------------------------------------------------------------------
\* cbuf_write(cbuf, cmd), run by the producer task.

\* Mutant of WriteTake: a take with a timeout whose failure is not looked at.
WriteTakeNoWait ==
  /\ producer = "take"
  /\ sem_free' = IF sem_free > 0 THEN sem_free - 1 ELSE 0
  /\ producer' = "store"
  /\ UNCHANGED <<data, head, tail, sem_used, cmd, consVars>>

\* xSemaphoreTake(sem_free, portMAX_DELAY): blocked while the count is 0.
WriteTake ==
  /\ producer = "take"
  /\ sem_free > 0
  /\ sem_free' = sem_free - 1
  /\ producer' = "store"
  /\ UNCHANGED <<data, head, tail, sem_used, cmd, consVars>>

\* Mutant of WriteStore: the byte goes to the reader's index.
WriteStoreAtTail ==
  /\ producer = "store"
  /\ data' = [data EXCEPT ![tail] = cmd]
  /\ producer' = "advance"
  /\ UNCHANGED <<head, tail, sem_free, sem_used, cmd, consVars>>

WriteStore ==
  /\ producer = "store"
  /\ data' = [data EXCEPT ![head] = cmd]
  /\ producer' = "advance"
  /\ UNCHANGED <<head, tail, sem_free, sem_used, cmd, consVars>>

WriteAdvance ==
  /\ producer = "advance"
  /\ head' = Advanced(head)
  /\ producer' = "give"
  /\ UNCHANGED <<data, tail, sem_free, sem_used, cmd, consVars>>

WriteGive ==
  /\ producer = "give"
  /\ sem_used' = Given(sem_used)
  /\ producer' = "delay"
  /\ UNCHANGED <<data, head, tail, sem_free, cmd, consVars>>

\* cmd ^= 1u; vTaskDelay(100 ms), back to the top of the loop.
ProducerDelay ==
  /\ producer = "delay"
  /\ cmd' = 1 - cmd
  /\ producer' = "take"
  /\ UNCHANGED <<bufVars, consVars>>

--------------------------------------------------------------------------------
\* cbuf_read(cbuf), run by the consumer task.

ReadTake ==
  /\ consumer = "take"
  /\ sem_used > 0
  /\ sem_used' = sem_used - 1
  /\ consumer' = "load"
  /\ UNCHANGED <<data, head, tail, sem_free, val, led, prodVars>>

ReadLoad ==
  /\ consumer = "load"
  /\ val' = data[tail]
  /\ consumer' = "advance"
  /\ UNCHANGED <<bufVars, led, prodVars>>

ReadAdvance ==
  /\ consumer = "advance"
  /\ tail' = Advanced(tail)
  /\ consumer' = "give"
  /\ UNCHANGED <<data, head, sem_free, sem_used, val, led, prodVars>>

ReadGive ==
  /\ consumer = "give"
  /\ sem_free' = Given(sem_free)
  /\ consumer' = "drive"
  /\ UNCHANGED <<data, head, tail, sem_used, val, led, prodVars>>

\* if (cmd) led_on(LED_GREEN) else led_off(LED_GREEN).
DriveLed ==
  /\ consumer = "drive"
  /\ led' = (val # 0)
  /\ consumer' = "delay"
  /\ UNCHANGED <<bufVars, val, prodVars>>

\* vTaskDelay(500 ms), back to the top of the loop.
ConsumerDelay ==
  /\ consumer = "delay"
  /\ consumer' = "take"
  /\ UNCHANGED <<bufVars, val, led, prodVars>>

--------------------------------------------------------------------------------
Producer == WriteTake \/ WriteStore \/ WriteAdvance \/ WriteGive \/ ProducerDelay

Consumer == \/ ReadTake \/ ReadLoad \/ ReadAdvance \/ ReadGive
            \/ DriveLed \/ ConsumerDelay

Next == Producer \/ Consumer

\* Preemption and time slicing are on (FreeRTOSConfig.h), and both tasks sleep in
\* every iteration, so a task that is ready to run does run.
Fairness == WF_vars(Producer) /\ WF_vars(Consumer)

Spec == Init /\ [][Next]_vars /\ Fairness

--------------------------------------------------------------------------------
\* Refinement mapping.  A byte is in the queue from the moment it is stored until
\* the moment it is loaded.
Bit(b) == IF b THEN 1 ELSE 0

Stored == CBUF_SIZE - sem_free - Bit(producer = "store")
                    - Bit(consumer \in {"advance", "give"})

Oldest == IF consumer = "advance" THEN Advanced(tail) ELSE tail

Contents == [i \in 1 .. Stored |-> data[Wrapped(Oldest + i - 1)]]

Fifo == INSTANCE BoundedFifo
          WITH Capacity <- CBUF_SIZE, Value <- Byte, q <- Contents, got <- val

--------------------------------------------------------------------------------
\* The buffer is a bounded FIFO: what cbuf_read returns is the oldest byte that
\* cbuf_write stored, nothing is overwritten before it is read or read twice, and
\* neither side stays blocked while it could proceed.
FifoSpec == Fifo!Spec

\* The producer never stores into the slot the consumer is about to load from:
\* the two semaphores alone keep the unlocked slot accesses of cbuf_write and
\* cbuf_read apart.
NoSlotRace ==
  ~(producer = "store" /\ consumer = "load" /\ head = tail)

\* No xSemaphoreGive of cbuf.c hits the semaphore's maximum count, where the give
\* fails unnoticed and a slot or an item would be lost for good.
GivesNeverSaturate ==
  /\ producer = "give" => sem_used < CBUF_SIZE
  /\ consumer = "give" => sem_free < CBUF_SIZE

\* "Toggles the onboard green LED on each successful read" (consumer_task.h):
\* the consumer only sets the LED to the byte it read, so this rests on the
\* producer alternating and on no byte being lost, repeated or reordered.
LedTogglesOnEachRead == consumer = "drive" => (val # 0) # led
================================================================================
