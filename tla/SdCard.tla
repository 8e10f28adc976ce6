--------------------------------- MODULE SdCard ---------------------------------
(***************************************************************************)
(* The SD card driver, Drivers/sd_card/Src/sd_card.c, under the disk       *)
(* functions that FatFS calls, Drivers/sd_card/Src/diskio.c, with the card *)
(* at the other end of the SPI bus.                                        *)
(*                                                                         *)
(* A step is one exchange with the card: a command with its response, a    *)
(* data block, the poll that ends a wait.  Time passes between any two     *)
(* steps, and a card that is programming its flash goes on by itself.      *)
(* A poll that neither succeeds nor expires changes nothing: it is no step.*)
(***************************************************************************)
EXTENDS Integers, FiniteSetsExt

CONSTANTS Blocks,       \* sectors of the card
          Data,         \* what a sector can hold
          TickRange,    \* xTaskGetTickCount counts modulo this (2^32)
          InitWindow, ReadWindow, WriteWindow, \* timeouts in ticks (1000, 200, 500)
          MaxTime,      \* bound: the clock stops here between two waits
          MaxCalls,     \* bound: calls of the disk functions
          MaxCount,     \* bound: sectors in one call
          MaxFaults     \* bound: failed exchanges, damaged blocks, supply glitches

ASSUME SdAssumption ==
  /\ {Blocks, TickRange} \subseteq Nat \ {0}
  /\ {InitWindow, ReadWindow, WriteWindow} \subseteq 1 .. TickRange - 1
  /\ {MaxTime, MaxCalls, MaxCount, MaxFaults} \subseteq Nat

VARIABLES
  disk_state,     \* diskio.c: "STA_NOINIT", or "0"
  sd_initialized, sd_is_sdhc, \* sd_card.c's variables of the same names
  call,           \* the disk function in progress, or the last one
  buff, i,        \* its buffer, and the sectors done
  step,           \* the exchange the driver does next; "idle" outside a call
  cs,             \* chip select is asserted
  now,            \* ticks since start-up
  since,          \* when the wait in progress, or the last one, began
  sd, result,     \* what the last sd_* and disk_* function returned
  card,           \* the card's state
  job,            \* the data block the card has to send, to receive or to program
  flash,          \* the contents of its sectors
  calls, faults,  \* calls and faults so far
  unseen          \* history: one of the faults leaves no trace on the bus

diskVars == <<disk_state, sd_initialized, sd_is_sdhc>>
callVars == <<call, calls>>
driverVars == <<buff, i, step, cs, since, sd, result>>
cardVars == <<card, job, flash>>
faultVars == <<faults, unseen>>
vars == <<diskVars, callVars, driverVars, cardVars, now, faultVars>>

Sector == 0 .. Blocks - 1
BLOCK_SIZE == 512

NoCall == [op |-> "none", sector |-> 0, count |-> 0]
NoJob == [kind |-> "none"]

\* "native" until the card's first CMD0, then "spi", and "ready" after ACMD41; app:
\* the next command is an application command.
Card == [state : {"native", "spi", "ready"}, sdhc : BOOLEAN, app : BOOLEAN]
Job == {NoJob} \cup [kind : {"send", "receive"}, sector : Sector]
               \cup [kind : {"program"}, sector : Sector, data : Data]

TypeOK ==
  /\ disk_state \in {"STA_NOINIT", "0"}
  /\ sd_initialized \in BOOLEAN /\ sd_is_sdhc \in BOOLEAN
  /\ call \in [op : {"none", "initialize", "read", "write"}, sector : Sector,
               count : 0 .. MaxCount]
  /\ buff \in [0 .. call.count - 1 -> Data]
  /\ i \in 0 .. call.count
  /\ step \in {"idle", "wake", "cmd0", "cmd8", "cmd55", "acmd41", "delay", "cmd58",
               "command", "token", "block", "busy"}
  /\ cs \in BOOLEAN
  /\ now \in Nat /\ since \in 0 .. now
  /\ sd \in {"SD_OK", "SD_ERROR", "SD_TIMEOUT"}
  /\ result \in {"STA_NOINIT", "0", "RES_OK", "RES_ERROR", "RES_NOTRDY"}
  /\ card \in Card /\ job \in Job
  /\ flash \in [Sector -> Data]
  /\ calls \in 0 .. MaxCalls /\ faults \in 0 .. MaxFaults /\ unseen \in BOOLEAN

Init ==
  /\ disk_state = "STA_NOINIT"
  /\ sd_initialized = FALSE /\ sd_is_sdhc = FALSE
  /\ call = NoCall /\ buff = <<>> /\ i = 0
  /\ step = "idle"
  /\ cs = FALSE
  /\ now = 0 /\ since = 0
  /\ sd = "SD_OK" /\ result = "RES_OK"
  /\ card \in [state : {"native"}, sdhc : BOOLEAN, app : {FALSE}] /\ job = NoJob
  /\ flash \in [Sector -> Data]
  /\ calls = 0 /\ faults = 0 /\ unseen = FALSE

--------------------------------------------------------------------------------
\* Time passes.  The bound does not stop the clock in the middle of a wait.
InWait == step \in {"cmd55", "acmd41", "delay", "token", "busy"}

LongestWindow == Max({InitWindow, ReadWindow, WriteWindow})

ClockRuns == \/ now < MaxTime
             \/ InWait /\ now < since + LongestWindow

Tick ==
  /\ ClockRuns
  /\ now' = now + 1
  /\ UNCHANGED <<diskVars, callVars, driverVars, cardVars, faultVars>>

\* Deadlines are tick counts, and are compared as such.
Ticks(time) == time % TickRange

Deadline(window) == Ticks(since + window)

ExpiredSwapped(time, window) ==   \* mutant: the comparison the wrong way round
  Ticks(time) < Deadline(window)

Expired(time, window) == ~(Ticks(time) < Deadline(window))

--------------------------------------------------------------------------------
\* The card.  Its R1 response is 0x00 "ready", 0x01 "idle", or something else, no
\* response included, "bad".
Fault == faults < MaxFaults /\ faults' = faults + 1

Status == [native |-> "bad", spi |-> "idle", ready |-> "ready"][card.state]

\* A card that programs ignores commands and holds the line low, which read_r1
\* takes for 0x00; a card in native mode knows nothing but CMD0.
Deaf(r1) ==
  /\ r1 = IF job.kind = "program" THEN "ready" ELSE "bad"
  /\ UNCHANGED <<card, job>>

Hears(cmd) == job.kind # "program" /\ (cmd = "CMD0" \/ card.state # "native")

\* The commands without a data block, in a card that hears them.
Obeys(cmd, r1) ==
  /\ UNCHANGED job
  /\ \/ /\ cmd = "CMD0"
        /\ card' = [card EXCEPT !.state = "spi", !.app = FALSE]
        /\ r1 = "idle"
     \/ /\ cmd \in {"CMD8", "CMD58"}
        /\ card' = [card EXCEPT !.app = FALSE]
        /\ r1 = Status
     \/ /\ cmd = "CMD55"
        /\ card' = [card EXCEPT !.app = TRUE]
        /\ r1 = Status
     \/ /\ cmd = "CMD41" /\ card.app
        /\ card' \in [state : {card.state, "ready"}, sdhc : {card.sdhc}, app : {FALSE}]
        /\ r1 = IF card'.state = "ready" THEN "ready" ELSE "idle"
     \/ /\ cmd = "CMD41" /\ ~card.app
        /\ UNCHANGED card
        /\ r1 = "bad"

\* CMD17 and CMD24 take a sector number in SDHC cards, a byte address in others.
Addresses(arg, sector) == arg = IF card.sdhc THEN sector ELSE sector * BLOCK_SIZE

Transfers(kind, arg, r1) ==
  /\ card' = [card EXCEPT !.app = FALSE]
  /\ \/ /\ card.state = "ready"
        /\ \E s \in Sector : Addresses(arg, s) /\ job' = [kind |-> kind, sector |-> s]
        /\ r1 = "ready"
     \/ /\ card.state # "ready" \/ ~\E s \in Sector : Addresses(arg, s)
        /\ UNCHANGED job
        /\ r1 = "bad"

\* send_cmd, read_r1.  An exchange that fails may have got through to the card.
Command(cmd, r1) ==
  \/ Hears(cmd) /\ Obeys(cmd, r1) /\ UNCHANGED faultVars
  \/ ~Hears(cmd) /\ Deaf(r1) /\ UNCHANGED faultVars
  \/ /\ Fault /\ UNCHANGED unseen
     /\ r1 = "bad"
     /\ \/ UNCHANGED <<card, job>>
        \/ Hears(cmd) /\ \E heard \in {"ready", "idle", "bad"} : Obeys(cmd, heard)

DataCommand(kind, arg, r1) ==
  \/ Hears("CMD") /\ Transfers(kind, arg, r1) /\ UNCHANGED faultVars
  \/ ~Hears("CMD") /\ Deaf(r1) /\ UNCHANGED faultVars
  \/ Fault /\ r1 = "bad" /\ UNCHANGED <<card, job, unseen>>

\* Programming ends.
Programmed == job.kind = "program" /\ flash' = [flash EXCEPT ![job.sector] = job.data]

Program ==
  /\ Programmed
  /\ job' = NoJob
  /\ UNCHANGED <<diskVars, callVars, driverVars, card, now, faultVars>>

\* The card's supply glitches: it starts afresh, the sector it programs old or new.
Glitch ==
  /\ Fault
  /\ unseen' = (unseen \/ job.kind = "program")
  /\ card' = [card EXCEPT !.state = "native", !.app = FALSE]
  /\ job' = NoJob
  /\ UNCHANGED flash \/ Programmed
  /\ UNCHANGED <<diskVars, callVars, driverVars, now>>

--------------------------------------------------------------------------------
\* The end of a step of sd_init: on to the next one, or back to disk_initialize,
\* which returns disk_state.
Goto(next) ==
  /\ step' = next
  /\ UNCHANGED <<disk_state, sd, result>>

InitializedRaw(r) ==   \* mutant: disk_state = sd_init()
  /\ step' = "idle"
  /\ sd' = r
  /\ disk_state' = r
  /\ result' = disk_state'

Initialized(r) ==
  /\ step' = "idle"
  /\ sd' = r
  /\ disk_state' = IF r = "SD_OK" THEN "0" ELSE disk_state
  /\ result' = disk_state'

\* disk_initialize(0).
DiskInitialize ==
  /\ step = "idle" /\ calls < MaxCalls
  /\ calls' = calls + 1
  /\ call' = [NoCall EXCEPT !.op = "initialize"]
  /\ buff' = <<>> /\ i' = 0
  /\ Goto("wake")
  /\ UNCHANGED <<sd_initialized, sd_is_sdhc, cs, since, cardVars, now, faultVars>>

\* hal_spi_init at the slow clock and ten bytes with the card deselected.
Wake ==
  /\ step = "wake"
  /\ cs' = FALSE
  /\ Goto("cmd0")
  /\ UNCHANGED <<sd_initialized, sd_is_sdhc, callVars, buff, i, since, cardVars, now,
                 faultVars>>

\* The commands of sd_init select the card for themselves and deselect it again.
Cmd0 ==
  /\ step = "cmd0"
  /\ \E r1 \in {"ready", "idle", "bad"} :
       /\ Command("CMD0", r1)
       /\ IF r1 = "idle" THEN Goto("cmd8") ELSE Initialized("SD_ERROR")
  /\ UNCHANGED <<sd_initialized, sd_is_sdhc, callVars, buff, i, cs, since, flash, now>>

\* An echo other than the one expected is among the failed exchanges.
Cmd8 ==
  /\ step = "cmd8"
  /\ since' = now
  /\ \E r1 \in {"ready", "idle", "bad"} :
       /\ Command("CMD8", r1)
       /\ IF r1 = "idle" THEN Goto("cmd55") ELSE Initialized("SD_ERROR")
  /\ UNCHANGED <<sd_initialized, sd_is_sdhc, callVars, buff, i, cs, flash, now>>

\* The response is not looked at.
Cmd55 ==
  /\ step = "cmd55"
  /\ \E r1 \in {"ready", "idle", "bad"} : Command("CMD55", r1)
  /\ Goto("acmd41")
  /\ UNCHANGED <<sd_initialized, sd_is_sdhc, callVars, buff, i, cs, since, flash, now>>

Acmd41 ==
  /\ step = "acmd41"
  /\ \E r1 \in {"ready", "idle", "bad"} :
       /\ Command("CMD41", r1)
       /\ Goto(IF r1 = "ready" THEN "cmd58" ELSE "delay")
  /\ UNCHANGED <<sd_initialized, sd_is_sdhc, callVars, buff, i, cs, since, flash, now>>

\* vTaskDelay(1 ms), then the loop's condition.
Delay ==
  /\ step = "delay"
  /\ now' = now + 1
  /\ IF Expired(now', InitWindow) THEN Initialized("SD_TIMEOUT") ELSE Goto("cmd55")
  /\ UNCHANGED <<sd_initialized, sd_is_sdhc, callVars, buff, i, cs, since, cardVars,
                 faultVars>>

\* The OCR's CCS bit tells how sectors are addressed.
Cmd58IgnoringCcs ==   \* mutant: the bit is not looked at
  /\ step = "cmd58"
  /\ \E r1 \in {"ready", "idle", "bad"} :
       /\ Command("CMD58", r1)
       /\ \/ r1 # "ready" /\ Initialized("SD_ERROR") /\ UNCHANGED sd_initialized
          \/ r1 = "ready" /\ Initialized("SD_OK") /\ sd_initialized' = TRUE
  /\ UNCHANGED <<sd_is_sdhc, callVars, buff, i, cs, since, flash, now>>

Cmd58 ==
  /\ step = "cmd58"
  /\ \E r1 \in {"ready", "idle", "bad"} :
       /\ Command("CMD58", r1)
       /\ \/ /\ r1 # "ready"
             /\ Initialized("SD_ERROR")
             /\ UNCHANGED <<sd_initialized, sd_is_sdhc>>
          \/ /\ r1 = "ready"
             /\ sd_is_sdhc' = card.sdhc
             /\ sd_initialized' = TRUE
             /\ Initialized("SD_OK")
  /\ UNCHANGED <<callVars, buff, i, cs, since, flash, now>>

--------------------------------------------------------------------------------
\* disk_read and disk_write: one sd_read_block or sd_write_block for each sector.
\* The buffer of a read holds anything before it is filled.
DiskTransfer ==
  /\ step = "idle" /\ calls < MaxCalls
  /\ calls' = calls + 1
  /\ \E op \in {"read", "write"}, sector \in Sector, count \in 1 .. MaxCount :
       /\ sector + count <= Blocks
       /\ call' = [op |-> op, sector |-> sector, count |-> count]
       /\ buff' \in [0 .. count - 1 -> Data]
  /\ i' = 0
  /\ IF disk_state = "STA_NOINIT"
     THEN result' = "RES_NOTRDY" /\ UNCHANGED step
     ELSE step' = "command" /\ UNCHANGED result
  /\ UNCHANGED <<diskVars, cs, since, sd, cardVars, now, faultVars>>

\* CS is deasserted and the dummy byte sent: the card gives up a block that it has
\* not sent or received yet.
Released(current) == IF current.kind = "program" THEN current ELSE NoJob

\* sd_*_block returns r, and the loop of disk_* goes on or returns.
BlockReturns(r) ==
  /\ cs' = FALSE
  /\ sd' = r
  /\ i' = IF r = "SD_OK" THEN i + 1 ELSE i
  /\ \/ /\ r = "SD_OK" /\ i' < call.count
        /\ step' = "command"
        /\ UNCHANGED result
     \/ /\ r = "SD_OK" /\ i' = call.count
        /\ step' = "idle"
        /\ result' = "RES_OK"
     \/ /\ r # "SD_OK"
        /\ step' = "idle"
        /\ result' = "RES_ERROR"

Address == IF sd_is_sdhc THEN call.sector + i ELSE (call.sector + i) * BLOCK_SIZE

\* CMD17 or CMD24; chip select stays asserted for the block.  diskio.c gets here only
\* once sd_init has succeeded, so the test of sd_initialized never fails.
TransferCommand ==
  /\ step = "command"
  /\ sd_initialized
  /\ \E r1 \in {"ready", "bad"} :
       /\ DataCommand(IF call.op = "read" THEN "send" ELSE "receive", Address, r1)
       /\ \/ /\ r1 = "ready"
             /\ cs' = TRUE
             /\ since' = now
             /\ step' = IF call.op = "read" THEN "token" ELSE "block"
             /\ UNCHANGED <<i, sd, result>>
          \/ /\ r1 = "bad"
             /\ BlockReturns("SD_ERROR")
             /\ UNCHANGED since
  /\ UNCHANGED <<diskVars, callVars, buff, flash, now>>

\* The data token, the block and its CRC arrive; the CRC is not looked at.
ReadBlockAtStart ==   \* mutant: every sector goes to the start of the buffer
  /\ step = "token"
  /\ job.kind = "send"
  /\ buff' = [buff EXCEPT ![0] = flash[job.sector]]
  /\ job' = Released(job)
  /\ BlockReturns("SD_OK")
  /\ UNCHANGED <<diskVars, callVars, since, card, flash, now, faultVars>>

ReadBlock ==
  /\ step = "token"
  /\ job.kind = "send"
  /\ \/ /\ buff' = [buff EXCEPT ![i] = flash[job.sector]]
        /\ UNCHANGED faultVars
     \/ /\ \E damaged \in Data : buff' = [buff EXCEPT ![i] = damaged]
        /\ Fault /\ unseen' = TRUE
  /\ job' = Released(job)
  /\ BlockReturns("SD_OK")
  /\ UNCHANGED <<diskVars, callVars, since, card, flash, now>>

TokenTimesOutSelected ==   \* mutant: the card stays selected
  /\ step = "token"
  /\ Expired(now, ReadWindow)
  /\ sd' = "SD_TIMEOUT" /\ result' = "RES_ERROR" /\ step' = "idle"
  /\ UNCHANGED <<diskVars, callVars, buff, i, cs, since, cardVars, now, faultVars>>

TokenTimesOutLate ==   \* mutant: the deadline is taken anew at each poll
  /\ step = "token"
  /\ ~(Ticks(now) < Ticks(now + ReadWindow))
  /\ job' = Released(job)
  /\ BlockReturns("SD_TIMEOUT")
  /\ UNCHANGED <<diskVars, callVars, buff, since, card, flash, now, faultVars>>

TokenTimesOut ==
  /\ step = "token"
  /\ Expired(now, ReadWindow)
  /\ job' = Released(job)
  /\ BlockReturns("SD_TIMEOUT")
  /\ UNCHANGED <<diskVars, callVars, buff, since, card, flash, now, faultVars>>

\* The block goes out and the card's data response comes in.  Only a card that took
\* the command accepts it, and it may still refuse.
BlockAccepted ==
  /\ step = "block"
  /\ job.kind = "receive"
  /\ job' = [kind |-> "program", sector |-> job.sector, data |-> buff[i]]
  /\ step' = "busy"
  /\ since' = now
  /\ UNCHANGED <<diskVars, callVars, buff, i, cs, sd, result, card, flash, now, faultVars>>

BlockRefused ==
  /\ step = "block"
  /\ IF job.kind = "receive" THEN Fault ELSE UNCHANGED faults
  /\ UNCHANGED unseen
  /\ job' = Released(job)
  /\ BlockReturns("SD_ERROR")
  /\ UNCHANGED <<diskVars, callVars, buff, since, card, flash, now>>

\* wait_for_byte(0xFF): the card is no longer busy.
BlockWrittenUnchecked ==   \* mutant: the wait for the card is missing
  /\ step = "busy"
  /\ BlockReturns("SD_OK")
  /\ UNCHANGED <<diskVars, callVars, buff, since, cardVars, now, faultVars>>

BlockWritten ==
  /\ step = "busy"
  /\ job.kind # "program"
  /\ BlockReturns("SD_OK")
  /\ UNCHANGED <<diskVars, callVars, buff, since, cardVars, now, faultVars>>

BusyTimesOut ==
  /\ step = "busy"
  /\ job.kind = "program"
  /\ Expired(now, WriteWindow)
  /\ BlockReturns("SD_TIMEOUT")
  /\ UNCHANGED <<diskVars, callVars, buff, since, cardVars, now, faultVars>>

--------------------------------------------------------------------------------
\* The rest of a call that has begun.
Driver == \/ Wake \/ Cmd0 \/ Cmd8 \/ Cmd55 \/ Acmd41 \/ Delay \/ Cmd58
          \/ TransferCommand \/ ReadBlock \/ TokenTimesOut
          \/ BlockAccepted \/ BlockRefused \/ BlockWritten \/ BusyTimesOut

Next == \/ DiskInitialize \/ DiskTransfer \/ Driver
        \/ Tick \/ Program \/ Glitch

\* The driver and the clock go on; the card need not.
Fairness == WF_vars(Driver) /\ WF_vars(Tick)

Spec == Init /\ [][Next]_vars /\ Fairness

--------------------------------------------------------------------------------
\* A sector that disk_write counts as done is on the card and stays there, also if
\* a later sector of the call fails or an earlier write that timed out ends late,
\* unless the card restarted while it programmed: sd_write_block asks for no status.
WrittenIsOnCard ==
  call.op = "write" /\ ~unseen =>
    \A k \in 0 .. call.count - 1 :
      k < i \/ (step = "idle" /\ result = "RES_OK") => flash[call.sector + k] = buff[k]

\* disk_read that returns RES_OK has filled the buffer with what is on the card,
\* unless the bus damaged a block: sd_read_block discards the CRC.
ReadIsWhatIsOnCard ==
  call.op = "read" /\ ~unseen /\ step = "idle" /\ result = "RES_OK" =>
    \A k \in 0 .. call.count - 1 : buff[k] = flash[call.sector + k]

\* The addressing the driver uses once it is initialised is the card's.
AddressingMatchesCard == disk_state = "0" => sd_initialized /\ sd_is_sdhc = card.sdhc

\* Whatever way a call ends, the card is deselected and not left in the middle of a
\* block, so that the next call finds it ready for a command.
NothingLeftOpen == step = "idle" => ~cs /\ job.kind \notin {"send", "receive"}

\* "Times out after 1 second" (docs/SD_CARD_NOTES.md), "up to 200 ms", "up to 500 ms"
\* (sd_card.c): a wait is given up only when its window has passed.
WaitsLastTheirWindow ==
  [][sd' = "SD_TIMEOUT" /\ step # "idle" /\ step' = "idle" =>
       now' >= since + (CASE step = "delay" -> InitWindow
                          [] step = "token" -> ReadWindow
                          [] step = "busy" -> WriteWindow)]_vars

\* Every disk function returns, whatever the card does or fails to do.
EveryCallReturns == step # "idle" ~> step = "idle"

\* The driver and the card are the block device that FatFs is written for: a call that
\* returns RES_OK leaves no write of an earlier call behind that could still land.
Device == INSTANCE BlockDevice WITH
            contents <- flash,
            late <- IF job.kind = "program" THEN [sector |-> job.sector, data |-> job.data]
                    ELSE NoJob,
            NoWrite <- NoJob,
            running <- step # "idle",
            done <- i,
            excused <- unseen

ImplementsBlockDevice == Device!Init /\ [][Device!Next]_(Device!vars)
================================================================================
