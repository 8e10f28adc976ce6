# Verification of the STM32F411 FreeRTOS firmware

TLA+ models of the firmware in `src/`, the TLC runs that check them, and TLAPS
proofs. The firmware runs two tasks on a Nucleo-F411RE: `logger_task` takes
log entries from a queue and appends them to a file on an SD card (FatFS over a
hand-written SD driver over SPI with DMA); `oled_task` redraws an SSD1306 panel
every 500 ms over polled I2C. A producer/consumer demo around a circular buffer
and a one-shot SD demo are built but not started by `main`.

## 1. Inventory

| Component | State | Operations | Talks to |
|---|---|---|---|
| Circular buffer, `Core/Src/cbuf.c` | `data`, `head`, `tail`, two counting semaphores | `cbuf_init`, `cbuf_write`, `cbuf_read` | `producer_task`, `consumer_task` share it, no lock |
| Logger, `Core/Src/logger.c` | `s_log_queue` (16 entries), `s_dropped` | `logger_init`, `logger_log` (any task), `logger_task` | FatFS; every logging task writes `s_dropped` |
| FatFS, `ThirdParty/FatFS/ff.c` | `FIL` (buffer, size, flags, sticky `err`), `FATFS` (sector window, allocation hint and count), the volume on the card | `f_mount`, `f_mkdir`, `f_open`, `f_puts`, `f_sync`, `f_close` | `diskio.c` |
| SD sample task, `Core/Src/tasks/sd_task.c` | one file, `HELLO.TXT` | mount, append, sync, close, unmount, once | FatFS; `main` does not start it |
| SD card, `Drivers/sd_card/Src/{diskio,sd_card}.c` | `disk_state`, `sd_initialized`, `sd_is_sdhc` | `disk_initialize/read/write/ioctl`, `sd_init`, `sd_read_block`, `sd_write_block` | SPI HAL, tick counter, the card |
| SPI HAL, `HAL/Src/hal_spi.c` | `_notify_task`, two DMA streams | `hal_spi_init`, `hal_spi_transfer`, `dma2_stream0_isr` | kernel notifications, DMA, NVIC |
| I2C HAL, `HAL/Src/hal_i2c.c` | registers of the peripheral | `hal_i2c_init`, `hal_i2c_write` | the panel |
| OLED, `Drivers/oled/Src/ssd1306.c` with `oled_task.c` | frame buffer; the controller's pointer, mode and memory | init, clear, draw, flush | I2C HAL |

`PROJECT.json` also lists the parts that are not modelled: board support, pin
tables, start-up code, newlib stubs and code-page tables have no state that anything
later depends on.

What is hard to get right, and to test:

* **Interleavings without locks.** The buffer's slots and indices; `s_dropped`,
  a plain `volatile uint32_t` that every task increments and the logger
  subtracts from; the receive interrupt against the task that is about to sleep.
* **Results that nobody looks at.** `f_puts`, `f_sync`, `f_close`, the write of the second
  FAT and of FSInfo, `hal_i2c_write`, the end of the BTF countdown, the CRC of a block, a
  give on a full semaphore.
* **Time.** Deadlines that are absolute tick counts; writes that time out while
  the card goes on programming; bus waits that count down.
* **State that survives a failure.** `disk_state` and `sd_is_sdhc` after a failed
  `sd_init`; `fp->err`; the sector window after a failed `f_sync`; the AF bit of
  the I2C peripheral after a NACK; a panel that missed its initialisation.
* **Order on the card.** One window serves FAT, directory and FSInfo sectors; which of
  them is on the card when the power goes decides whether chains, sizes and directories
  still fit each other.
* **Power.** A reset between any two sector writes of one call; a supply glitch of the
  card alone.

Correct means, per component: the buffer is a bounded FIFO; the log on the card
is always a prefix of what was accepted, and a dropped entry does not go unreported; the volume is
sound at every moment, also between two sector writes; a disk
call that says `RES_OK` has done it; an SPI transfer returns when it is complete,
and does return; an I2C write delivers a prefix, in order, and returns; the panel
shows what was drawn as soon as writes get through.

## 2. Modules

| Module | Models | State and actions |
|---|---|---|
| `BoundedFifo` | what the buffer promises | a sequence; `Put`, `Get` |
| `CircBuf` | `cbuf.c`, `producer_task.c`, `consumer_task.c` | one action per access to shared data: take, store or load, advance, give, and the tasks' own steps |
| `CircBuf_proofs` | theorems about `CircBuf` | |
| `DurableLog` | what the logger promises | accepted entries and those on the card; `Accept`, `Persist`, `Reset` |
| `Logger` | `logger.c`; EXTENDS `FatFile` | queue, `s_dropped` with each load and store a step, clients, `logger_task`, resets |
| `Logger_proofs` | theorems about `Logger` | |
| `FatFile` | what `f_open`, `f_puts`, `f_sync`, `f_close` do to one appended file, line by line | lines of the file, how many the directory entry on the card and in the window covers, the modified and error flags; each call in its successful and failing forms |
| `FatFs` | `ff.c` for the calls made, as configured | no variables: each function is an operator from the volume to the set of its outcomes, one for each answer of the card at each sector read or written |
| `FatVolume` | `logger_task` or `sd_task` on a card through `FatFs` | the card's sectors, the `FATFS` and `FIL` objects; one action per call, which may end in a power cut at any sector write inside it |
| `MCFatVolume` | the cards for TLC | |
| `FatVolume_proofs` | theorems about `FatVolume`, lemmas about every operator of `FatFs` | |
| `Induction` | no code: induction over the natural numbers, for the two modules of proofs that recursive functions occur in | |
| `BlockDevice` | what the disk functions promise to `FatFs` | contents, the one write that may still land, the call in progress |
| `SdCard` | `diskio.c` over `sd_card.c`, the card, the tick counter | one action per exchange with the card, plus `Tick`, `Program`, `Glitch` |
| `SdCard_proofs` | theorems about `SdCard` | |
| `SpiTransfer` | `hal_spi.c` with DMA, NVIC and the kernel's notify protocol | one action per register phase of `hal_spi_transfer`, the parts of `ulTaskNotifyTake`, byte movement, the interrupt |
| `SpiTransfer_proofs` | theorems about `SpiTransfer` | |
| `I2cWrite` | `hal_i2c_write` and the peripheral | one action per end of a wait (success, refusal, countdown), the peripheral's own steps, a device that holds the bus |
| `I2cWrite_proofs` | theorems about `I2cWrite` | |
| `OledDisplay` | `oled_task`, `ssd1306.c`, the SSD1306 | one action per I2C write, which delivers any prefix; one per character drawn |
| `OledDisplay_proofs` | theorems about `OledDisplay` | |

How the layers are put together, from the card up:

    SdCard   implements  BlockDevice   (TLC and TLAPS)
    FatFs    is written over BlockDevice: a sector write works, or fails with the sector
             old or new from then on
    FatVolume implements FatFile       (TLC)
    Logger   is written over FatFile
    Logger   implements  DurableLog    (TLC and TLAPS)
    CircBuf  implements  BoundedFifo   (TLC and TLAPS)

`SdCard` takes an SPI exchange to be one step, which is `ReturnsOnlyWhenDone` of
`SpiTransfer`; `OledDisplay` takes a write to deliver a prefix and perhaps to leave the
bus dead, which is `DeliveredInOrder` and `EveryWriteReturns` of `I2cWrite`.

`BlockDevice` has to cover the write that times out while the card goes on programming:
it lands later, or never, but before the next call that succeeds. No layer above can
tell that from a write that landed or was lost at once, which is what `FatFs` has.

Definitions whose comment says "mutant" are not part of any specification. Each is
the form a definition would take with a plausible mistake in the code; putting
it in place must break the property `PROJECT.json` names.

### Correspondence worth knowing

* A poll that neither succeeds nor expires changes nothing and is no step. The
  rest of a wait is: its success, its other exits, its timeout.
* `SdCard` keeps real time in `now` and compares deadlines modulo `TickRange`, as
  the C code does with `TickType_t`. Time passes between any two steps.
  The model's CSD, OCR voltage bits and command CRCs are left out.
* A card that programs ignores commands and holds its output low, which `read_r1`
  takes for `0x00`. A card whose chip select rises gives up a block that it is
  sending or waiting for.
* In `SpiTransfer` the interrupt's priority is picked at start from
  `RxIrqPriorities`. The code leaves it at 0; 176 (`0xB0`) is
  `configMAX_SYSCALL_INTERRUPT_PRIORITY`.
* In `FatFs` a cell stands for a group of bytes, and sectors, FAT entries and directory
  entries are typed, so that a sector read as what it is not shows. Every function keeps
  its order of sector accesses, its early returns, and what it leaves in the window.
  `Then`, `Regardless` and `OnFailure` are the three ways in which ff.c treats a result.
  A failed or interrupted write leaves its sector old or new. A loop of ff.c is a `Loop`
  over its body, which ends a round with a result or with `Again`; the bound `Loop` takes
  is one that the loop of ff.c meets on no sound volume, and behind it there is no outcome.
* Old data that is read as a directory, after a crash between the link and the clearing
  of a new directory cluster (`dir_next` links it first), is entries of no use to anyone.
* In `OledDisplay` what memory holds before it is written is `Noise`, equal to nothing
  that is drawn; no step looks at it.
* In `Logger` a reset keeps `accepted` equal to what is on the card, so
  the properties speak of the whole life of the log.

### Assumptions about what is outside `src/`

* FreeRTOS queue, semaphore and delay calls are atomic. The part of
  `ulTaskNotifyTake` that matters to the interrupt is modelled in three steps.
* The card writes a sector entirely or not at all, also when its power goes.
* The card was formatted elsewhere, as FAT16 or FAT32, and is sound to begin with.
* An enabled receive stream fetches a byte before the next has been shifted in.
* A countdown of 100000 polls outlasts any step the I2C peripheral can still take.
* AF in `I2C_SR1` stays set until software clears it (STM32F4 reference manual).
* A STOP makes the SSD1306 forget an incomplete command.
* `logger_log` callers and `logger_task` may run in any order; `main`'s four `LOG_*`
  calls before the scheduler starts are calls of a client.

## 3. Runs

| Run | Expect | Shows |
|---|---|---|
| `circ_buf` | pass | At the real size, 8: no slot is stored and loaded at once, the LED toggles on each read, and the whole implements `BoundedFifo`, progress included. |
| `logger` | pass | With card faults and a reset anywhere: implements `DurableLog`; while no write has failed nothing is lost between queue and file; each client's entries are in the log in the order of its calls, none twice; with all races on `s_dropped` no drop is silent; when the logger waits everything before is on the card; every call returns; accepted entries become durable. |
| `logger_recovery` | violation | "a recovery message is written to the log as soon as space becomes available" (docs/LOGGER.md): a drop counted after the last entry stays unreported. |
| `spi` | pass | At both priorities no byte is lost and the call returns only when complete; at the one the comment asks for no wake-up is lost. |
| `spi_lost_wakeup` | violation | At the priority the code leaves, the interrupt runs between the kernel's check and the suspension of the task, which sleeps for ever. |
| `fat_volume` | pass | On sixteen cards, with a disk call that fails and a power cut at any sector write: the card always holds a prefix of the file with everything that `f_sync` confirmed; chains and directories stay sound on the card and in the library's view; a line is cut short only on a full volume; the free count never hides room; lost clusters are bounded; line by line it implements `FatFile`. |
| `sd_card` | pass | Three disk calls on cards of both kinds, with late programming, timeouts, and two faults: `RES_OK` is right unless a fault left no trace on the bus, addressing fits, every exit deselects, windows are waited out, every call returns, and the whole implements `BlockDevice`. |
| `sd_tick_wrap` | violation | With the tick counter about to wrap, a wait is given up at its first poll. |
| `i2c_write` | pass | Three writes with three refusals or bus holds: delivery in order, every byte delivered behind `true` when no wait has timed out, every write returns. |
| `i2c_sticky` | violation | "false on NACK or timeout" (hal_i2c.h): after one NACK a later write that nobody refuses returns false, because AF is still set. |
| `i2c_btf` | violation | "Every wait step (bus idle, SB, ADDR, TxE, BTF) has a countdown timeout and returns `false` on failure or NACK" (docs/OLED_I2C_NOTES.md): when the last byte is refused, or the bus held behind it, the BTF wait times out and the write returns true. |
| `oled` | pass | Every text of up to three characters, two broken writes anywhere: a line shows just the characters that fit whole, the pages before the first failed write are right, and the picture recovers. |

### Bounds, and why they are enough

* `CircBuf` needs none: it is finite at the firmware's own `CBUF_SIZE`. Two byte
  values are all the producer writes.
* `Logger`: two clients and the logger are three parties to each race on
  `s_dropped`; a queue of one is full as soon as one entry waits. Two calls each let
  one entry fill the queue and two increments overlap a subtraction, which then goes
  below zero; it shows as 7, `CounterRange` being 8. The wrap that `DropsNeverSilent`
  excepts takes a fifth call. Run by hand, without faults and resets: four calls each,
  with wraps, 5 million states, no error. `MaxFaults` 2 and `MaxResets` 1 allow a failed
  `f_sync` followed by a failed write and a reset after either.
* `SpiTransfer`: up to six bytes, more than the pipeline (buffer, shift register,
  data register) holds; the number of transfers is unbounded.
* `SdCard`: two sectors, so that a call can fail at its second one and an address
  can be wrong; windows of 1 and 2 ticks, so that they differ; `TickRange` 64 does
  not wrap within the bound, 4 in `sd_tick_wrap` does. The bound on `now` never stops
  the clock during a wait. Three calls: an initialisation, a call that fails, and one
  that meets what it left behind; two faults.
* `I2cWrite`: four bytes, three in `i2c_sticky` and `i2c_btf`, are more than the data and the
  shift register hold; three
  calls and three faults let a call meet what two before it left behind.
* `OledDisplay`: three pages of three columns with one-column characters, so that a write
  can break inside a page, a page can be first, last or neither, two characters fit and a
  third does not; two failures. Run by hand as well with four columns, two-column
  characters and texts of two: 1.7 million states, no error.
* `FatVolume`: five clusters of two sectors of four cells, five FAT entries or two
  directory entries to a sector. So the FAT has two sectors, a directory and the FAT16
  root can be full, a file crosses sectors and clusters, a line crosses a sector, and the
  volume fills up. `MCCards` has both kinds of FAT, one and two copies, a partition or
  none, an empty and a full volume and root, a log that ends inside a sector or at the end
  of one or of a cluster, one with clusters behind its end, and free clusters on either
  side of the hint. One fault and one power cut, so that each meets what the other left;
  three lines of one cell or of five, more than a sector. Run by hand as well with lines
  of one or three cells, without error: four lines (117 thousand states), three lines and
  `MaxFaults` 2 (158 thousand), three lines and `MaxResets` 2 (286 thousand).

`CHECK_DEADLOCK FALSE` stands where the bound on calls lets the system come to rest, in
`FatVolume.cfg`, where the task parks or is done, and in `SpiTransfer.cfg`, where at
priority 0 the lost wake-up does.

### Fairness, and what justifies it

`configUSE_PREEMPTION` and equal priorities with time slicing run every ready
task (`Core/Inc/FreeRTOSConfig.h`, `main.c`), hence weak fairness of each task's
steps; nobody is obliged to *begin* a log call, a transfer or a disk call. Hardware
that can move does (DMA, I2C peripheral, clock, an unmasked interrupt). What may
fail to happen has no fairness: the card need never answer or finish programming,
a device need never let go of the bus, no fault need occur.

## 4. Proofs

The theorems hold for every value of the constants, the bounds included: any number of
clients, calls, faults and resets, any size of queue, transfer, card and panel. The runs
check the same properties on small instances, but for five that only proofs establish (`GivesNeverSaturate`,
`DeliversWhenNothingFails`, `EveryDropShows`, `LitOnlyIfConfigured`, `VolumeInv`). The assumptions are the `ASSUME` of each
module, which give the constants their types, and those named here.

### `CircBuf_proofs`

For every `CBUF_SIZE` and every set `Byte` that contains 0 and 1 (`CBufAssumption`):
`TypeCorrect`; `SlotsAccountedFor`, the inductive invariant `IInv`, the conjunction of
`TypeOK`, `SemAccounting` and `IndexDistance`; `SlotsNeverShared` (`NoSlotRace`);
`GivesAlwaysCount` (`GivesNeverSaturate`); `LedAlwaysToggles` (`LedTogglesOnEachRead`);
`ImplementsFifo`, the safety part of `BoundedFifo`.

`NoSlotRace` is not inductive: whether `head = tail` while both tasks are in their
slots depends on how many slots are in use. `SemAccounting` adds up the two counts
and the tasks' positions (a slot is free, used, being filled or being emptied) to
`CBUF_SIZE`; `IndexDistance` says that `head` is ahead of `tail`, modulo
`CBUF_SIZE`, by exactly the slots in use. A store and a load at the same index
would then need 0 or `CBUF_SIZE` slots in use, which leaves none for
the taking. The refinement maps the queue to the slots from `tail` on, adjusted for the
task that has stored or loaded and not yet advanced. Modular arithmetic is kept behind
the operator `Wrapped`, with a lemma for each fact about it, because the provers do
not reason about `%` by a variable.

### `Logger_proofs`

`TasksStayInOrder` (`EachTaskInOrder`): one client's entries are numbered by its calls, so
the invariant `InOrder` says of the file, the queue and the entry in hand that each is in
order, and that each precedes the next, and that every number is one its client has
used. A reset cuts the file, which keeps order; the queue and the entry in hand it
empties. `NothingAtRiskWhenIdle` (`OnlyCurrentEntryAtRisk`), from `Synced`: while no
fault has occurred, a line that is not on the card means that `logger_task` is on its way
to an `f_sync` that has something to do. `TornAssumption`: a torn line is not an entry.

`EntriesAccountedFor` (`NothingLost`): file, entry in hand and queue, one after the other,
are the accepted entries. That is all `NothingLost` says, and only for as long as no write
has failed; its invariant `Accounted` adds that the entries of the file are a prefix of
the accepted ones afterwards too, and that those on the card are all of them after a reset.
The entries of a file are a `SelectSeq`, that is a recursive function; the lemmas about
`EntriesUpTo` say by `Induction` what one more line, or a cut, does to it.
`LoggerImplementsDurableLog` (`ImplementsDurableLog`): every step is `Accept`, `Persist`,
`Reset` or a stutter of `DurableLog`; an entry becomes durable when `f_sync` confirms its
line, and `Accounted` is what makes those a prefix. `TypeCorrect` (`TypeOK`), from `Flagged`.

`DropsLeaveTrace` (`DropsNeverSilent`) is about every drop, not only the first, and about
any number of tasks. The history variables tell a drop that no subtraction has taken
(`untaken`) from one that has been taken and whose report is not in the file
(`unwritten`): the second exists only while `logger_task` is about to write the report,
the first shows in `s_dropped`, in an increment under way, or in a subtraction under way.
An `f_puts` that writes nothing does not count as a report. The invariant `Traced` adds
that the file that is about to be opened takes writes. The property ends where an increment
has wrapped the counter to 0, which with two tasks does not take 2^32 drops (section 5).
`OneTaskDropsLeaveTrace` says that with one task it does: `Exact` bounds the counter by the
task's calls and keeps the subtraction from going below zero, so the property
(`EveryDropShows`) then holds without exception. Today `main` alone logs.

### `FatVolume_proofs`

`VolumeSound`, for sectors, clusters, FATs and directories of every size, every card of
`CardsAssumption` (a sound formatted FAT16 or FAT32 volume: any clusters taken and any
allocation hint, but no cluster in two chains), and any number of refused disk calls and
losses of power, each at any sector. The invariant `VolumeInv` has, for a layout `L`
that never changes:

* `Contents`: each sector holds what belongs at its place, and so does the window; what
  the window may write back belongs to the FAT or behind it; a clean window on a FAT
  sector is what the card has. The second keeps a volume from being lost by a write that
  goes astray, the third lets the window stand for the FAT in what follows.
* `FpFits`: the `FIL` object is at the end of its file, and any sector it may write, the
  buffered one and that of the directory entry, is behind the FATs.
* `Covered`: there is a set `F`, the clusters that were free when FSInfo was last written,
  which has every cluster that is free now, on the card or in the library's FAT, and every
  link from one of its clusters stays in it; FSInfo's count is at least its size. The set
  is needed because `f_sync` leaves FSInfo behind the FAT: a count that is only compared
  with the FAT of the moment is not inductive, since the window may be lost and clusters
  that have been allocated become free again. Chains that were begun since the last FSInfo
  lie in `F` as a whole, so also a chain that `remove_chain` gives back does.
* `Counted`: the count in `FATFS` is at least the number of clusters free in the
  library's FAT.
* `Linked`: who owns each chain. `Links`: in the library's FAT and in the card's a link
  leads to a cluster in use, no two to the same one. `Held` is every entry with a cluster
  in any sector behind the FATs, as the card has the sector and as the window has it,
  whether or not a directory leads there yet. In both FATs each is the head of a chain to
  which no link leads, and no two hold the same one (`HeadsIn`, `Apart`). `OwnFile`: the
  open file's chain is held by its own entry at most, whose place keeps the file's name
  (`NameKept`). `Faithful`: a clean window on a directory sector is what the card has,
  unless the cluster is being cleared.

Ownership is claimed of both FATs and of old and new versions of every sector at once, so
sectors may reach the card in any order: a sector written adds no version, and the card's FAT
only becomes one that the library had. What a new link or a new entry needs is
that the cluster is an `Orphan`, the head of a chain that nothing holds; `create_chain`
returns one, an entry or the `FIL` object takes it over, or `remove_chain` gives it back.
`CardLinked` is where it all begins: on a card of `CardsAssumption` each chain sits in one
entry of one directory.

`TypeCorrect` (`TypeOK`), `FreeCountCorrect` (`FreeCountNeverShort`) and `FullCorrect`
(`FullOnlyWhenFull`) and `ChainsCorrect` (`ChainsSound`) follow. For the third,
`CutShort` carries the failure from `f_write` through the rest of the call and to the
next `f_mount`: either `fp->err` is set or no cluster is free. It rests on the search of
`create_chain`, of which `Seen` describes the part done: all clusters from the one
behind the hint on, around the end of the FAT or not.

`ChainsCorrect` is about what a reader of the card, or of the library's view, finds by
following links, as the property does. With `Links` a path from a head meets neither itself
nor a path from another head (`PathsApart`), so it is no longer than the number of clusters
(`PathLength`) and the reader comes to a cluster without a link (`PathEnds`, `ChainIs`,
by induction over its steps). The entries found in the sectors of the two directories are
`Held`, so each is at a head of its own (`ObjectsOwn`).

There is a lemma for each operator of `FatFs`, of the form "from a volume that fits, every
outcome fits, and changes no more than this": `Quiet` (FAT and counts stay), `Keeps` (`F`
stays), `Settled` (`sync_fs` may have chosen a new `F`). A loop is shown by induction over
its rounds, and a step of `Next` is then one lemma for its API function.

### `Induction`

The library's induction theorems take an operator as a parameter, which no installed prover
can instantiate. Here the step of a recursive function and the claim about it are
CONSTANTS, so that each use is an `INSTANCE ... WITH` of its own (`Remove`, for instance, is
the loop of `remove_chain`). `NatSetInduction` comes from the well-foundedness of `<`;
`RecursionDef` says that the function a recursive definition names exists and satisfies it;
`RecursionInduction` is the induction over its values.

### `SpiTransfer_proofs`

All four are stated for one calling task (`OneCaller`), which is what `main` starts, and
for every length and every pair of priority and ceiling: `TypeCorrect`; `BytesAllStored`
(`NoByteLost`); `WakeupsReach` (`NoLostWakeup`); `ReturnMeansDone`
(`ReturnsOnlyWhenDone`). The invariant has a part for each owner. `Phase` ties the task's
position to the hardware: while the transfer runs, what the receive stream still waits for
is in the transmit stream, in the shift register or in the data register; then the flag
is up; then the notification is there, once. `Kernel` says what the kernel
remembers of the task. `NotYet` is what masking below the ceiling is for: between the
check of the count and the suspension the count stays 0.

### `I2cWrite_proofs`

`TypeCorrect`; `BytesInOrder` (`DeliveredInOrder`); `TrueIsDelivered`
(`TrueMeansDelivered`); `UndisturbedWritesSucceed` (`DeliversWhenNothingFails`). `Pipeline`
counts bytes along data register, shift register and device, and names the order they
are in; `Undisturbed` describes registers and bus in a run without faults, at each wait;
`Results` carries what is known at the exits to the return.

### `SdCard_proofs`

`TypeCorrect`; `AddressingAgrees` (`AddressingMatchesCard`); `CallsEndDeselected`
(`NothingLeftOpen`); `WritesAreDone` (`WrittenIsOnCard`); `ReadsAreRight`
(`ReadIsWhatIsOnCard`); `ImplementsDevice` (`ImplementsBlockDevice`); and, as long as the
tick counter does not wrap (`NoWrap`), `NoEarlyTimeout` (`WaitsLastTheirWindow`), whose
premise `sd_tick_wrap` shows to be needed. `Work` says which call is at which step;
`Bus` that the card is in the middle of a block only when the driver waits for that block;
`Done` that the sectors already done are in the buffer or on the card, and that a write
still being programmed is the current sector's, or was left by an earlier call, in which
case this one has done nothing yet. The last is what makes the late write harmless, and
the step that the refinement turns on.

### `OledDisplay_proofs`

`TypeCorrect`; `LitIsConfigured` (`LitOnlyIfConfigured`); `IntactPagesShown`
(`PagesBeforeFailureShown`), from `InPlace`: until a write of the flush fails, the
controller's pointer is at the start of the page that is sent next; `LinesAreClipped`
(`LinesClippedAtEdge`), for displays less than 255 columns wide (`WidthFits`, as the
column counter is 8 bits wide), from `Drawn`: within a line there is an `n` such that the
column counter is at the start of character `n`, the text left is the line without its
first `n` characters, and the page shows these.

### Only model-checked

* Liveness, everywhere: fairness and ENABLED are out of the prover's reach. So
  `FifoSpec`'s progress, `CallsReturn`, `AcceptedBecomesDurable`,
  `TransfersReturnWithinCeiling`, `EveryCallReturns`, `EveryWriteReturns`, `PictureRecovers`.
* `CardHoldsPrefix`: it needs, besides the chains, which cell of the file is in which
  sector, on the card and in the two buffers.
* `LeaksBounded`: it needs a count of the clusters that no entry leads to. Which entries
  can be reached from the root directory is not part of `Linked`, which takes the entry of
  a cluster not linked yet for one that holds its chain.
* `FatVolume`'s refinement of `FatFile`, which needs `CardHoldsPrefix`.

## 5. Disagreements between the code and its documentation

With a run (`findings` in `PROJECT.json`): the unset interrupt priority, the
wrapping deadline, the AF bit, the end of the BTF wait, the late recovery message. Met
while modelling, not turned into runs:

* `producer_task.h` says "incrementing bytes"; the task alternates between 1 and 0.
* A drop can be silent once two tasks log, although docs/LOGGER.md says of a drop that
  "the event is no longer silent". Task B finds the queue full, loads 0 and is preempted;
  task A drops two entries, so `s_dropped` is 2; `logger_task` loads `dropped` = 2; B
  stores 1; the subtraction makes it 1 - 2, that is 2^32 - 1; two drops are reported; the
  next drop increments to 0, and `logger_task` sees nothing to report, ever. Without that
  drop the next report names almost 2^32 entries. docs/LOGGER.md calls the count
  imprecise and that acceptable. `DropsNeverSilent` is what survives: it holds up to the
  increment that wraps. TLC finds these steps, with four calls each, when the exception
  `~wrapped` is taken out. With one task that logs they cannot happen.
* `sd_card.h` promises `SD_ERROR` on a CRC failure; `sd_read_block` discards the CRC.
  A card that restarts while it programs makes `sd_write_block` return `SD_OK`. In
  `SdCard` both set `unseen`, the excuse in the two data properties.
* `disk_initialize` returns 0 when a second `sd_init` fails; docs/SD_CARD_NOTES.md says
  `STA_NOINIT`. diskio.c calls writes synchronous; one that times out is not.
* A START of `hal_i2c_write` that times out stays requested and can block the bus for good.
* `ffconf.h` says the driver has its own mutex; none of the drivers has. With one
  task on the bus nothing goes wrong, and `main` starts one.
* `f_mkdir` that finds no room for the entry gives its cluster back in the window only;
  `logger_task` unmounts, so on the card the cluster stays in use (`LeaksBounded`).
* `f_sync` clears `FA_MODIFIED` although the directory sector was refused. The next
  `f_sync` or `f_close` then says `FR_OK` and writes nothing, and `sd_task`'s `f_unmount`
  drops the window; sd_task.c says that `f_close` does the same flush. In `logger_task`
  the entry stays in the window until the next line.

## 6. Not modelled

* Formatting of log lines and level strings; the font; pin, clock and register set-up;
  `led_init_all` and `ssd1306_draw_pixel`, which nothing calls.
* In FatFS: FAT12 (a card of that size is smaller than any SD card sold), damaged or
  blank cards, conversion of names to their 8.3 form, the functions that nothing calls
  (reading, seeking, truncating, removing, renaming, listing), and what `ffconf.h` leaves
  out of the build: exFAT, GPT, long names, locks, `f_mkfs`.
* Transfer lengths of 0 or above 65535 and command sequences above 31 bytes, which no caller
  uses; DMA transfer errors, which the code does not handle.
* Two tasks on the card at once. `sd_task` would share FatFS, the card and the SPI
  notification target with `logger_task` without any lock; `main` starts one of them.

Nearly all of the lines that no definition stands for are not part of the program.
`ThirdParty/FatFS/CMakeLists.txt` compiles `ff.c` alone, so the 15600 lines of code pages in
`ffunicode.c` and `ffsystem.c` are never built, and with the options of `ffconf.h` about
2000 of the 7249 lines of `ff.c` are left after preprocessing, those of functions nothing
calls included. What remains besides is start-up code, pin tables and configuration.

## 7. Plan

Done: buffer, logger, SPI, SD card, I2C and OLED, with their proofs; FatFS down to the
sector, its types, free counts and chains proved; the abstract block device under it. What
could follow:

1. `CardHoldsPrefix` proved. With `Linked` a data sector has one owner, so what is missing
   is what it holds: the cells at its offset, from the last `f_sync` on or before it. Then
   the refinement of `FatFile`.
2. `LeaksBounded` proved, from a set of the orphans that each loss of power may leave.
3. `sd_task` and `logger_task` together, once the firmware has the lock that would take.

## 8. Running

    tlc -workers 2 -config CircBuf.cfg CircBuf      (and so on, see PROJECT.json)
    tlapm CircBuf_proofs.tla                         (FatVolume_proofs takes 20 minutes)
