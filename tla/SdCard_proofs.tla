----------------------------- MODULE SdCard_proofs -----------------------------
(***************************************************************************)
(* Proofs about SdCard for cards of every size, every data, all windows    *)
(* and any number of calls and faults: types, addressing, what a failed    *)
(* call leaves behind, what RES_OK means, and that driver and card         *)
(* implement BlockDevice.                                                  *)
(***************************************************************************)
EXTENDS SdCard, SequenceTheorems, TLAPS

--------------------------------------------------------------------------------
\* The inductive invariant.

InitStep == {"wake", "cmd0", "cmd8", "cmd55", "acmd41", "delay", "cmd58"}
BlockStep == {"command", "token", "block", "busy"}
Transferring == call.op \in {"read", "write"}

\* Which call is at which step, and what it has left to do.
Work ==
  /\ step \in InitStep => call.op = "initialize"
  /\ step \in BlockStep => Transferring /\ i < call.count /\ disk_state = "0"
  /\ step = "token" => call.op = "read"
  /\ step \in {"block", "busy"} => call.op = "write"
  /\ Transferring => call.sector + call.count <= Blocks /\ call.count > 0

\* Only the step that the driver waits in has the card in the middle of a block, which
\* is the one the driver means.
Bus ==
  /\ cs = TRUE => step \in {"token", "block", "busy"}
  /\ job.kind = "send" => step = "token"
  /\ job.kind = "receive" => step = "block"
  /\ job.kind \in {"send", "receive"} => job.sector = call.sector + i

\* The sectors that are done, and the one that the card may still be programming: it is
\* the current one, or is left from a call before and then nothing is done yet.
Done ==
  Transferring =>
    /\ unseen = FALSE => \A k \in 0 .. i - 1 : flash[call.sector + k] = buff[k]
    /\ job.kind = "program" =>
         i = 0 \/ (call.op = "write" /\ job.sector = call.sector + i)
    /\ step = "idle" /\ result = "RES_OK" => i = call.count /\ job.kind # "program"
    /\ step = "busy" /\ unseen = FALSE =>
         IF job.kind = "program" THEN job.sector = call.sector + i /\ job.data = buff[i]
                                 ELSE flash[call.sector + i] = buff[i]

IInv == TypeOK /\ Work /\ AddressingMatchesCard /\ Bus /\ Done

--------------------------------------------------------------------------------
\* TypeOK in two halves.

Steps == {"idle"} \cup InitStep \cup BlockStep
SdResult == {"SD_OK", "SD_ERROR", "SD_TIMEOUT"}
DiskResult == {"STA_NOINIT", "0", "RES_OK", "RES_ERROR", "RES_NOTRDY"}
Call == [op : {"none", "initialize", "read", "write"}, sector : Sector,
         count : 0 .. MaxCount]

Bits == /\ sd_initialized \in BOOLEAN /\ sd_is_sdhc \in BOOLEAN
        /\ cs \in BOOLEAN /\ unseen \in BOOLEAN

\* The data of a transfer.
Buffers == /\ call \in Call
           /\ buff \in [0 .. call.count - 1 -> Data]
           /\ i \in 0 .. call.count

Ranges ==
  /\ disk_state \in {"STA_NOINIT", "0"}
  /\ step \in Steps
  /\ now \in Nat /\ since \in 0 .. now
  /\ sd \in SdResult /\ result \in DiskResult
  /\ card \in Card /\ job \in Job
  /\ flash \in [Sector -> Data]
  /\ calls \in 0 .. MaxCalls /\ faults \in 0 .. MaxFaults

\* TypeOK is the three together.
LEMMA Parts == /\ TypeOK <=> Bits /\ Buffers /\ Ranges
               /\ TypeOK' <=> Bits' /\ Buffers' /\ Ranges'
<1>1. Steps = {"idle", "wake", "cmd0", "cmd8", "cmd55", "acmd41", "delay", "cmd58",
               "command", "token", "block", "busy"}
  BY DEF Steps, InitStep, BlockStep
<1> QED
  BY Zenon, <1>1 DEF TypeOK, Bits, Buffers, Ranges, SdResult, DiskResult, Call

\* The buffer of a call without data.
LEMMA NoBuffer == <<>> \in [0 .. 0 - 1 -> Data]
<1>1. <<>> \in [1 .. 0 -> Data]
  BY LenProperties, EmptySeq
<1>2. 1 .. 0 = 0 .. 0 - 1
  OBVIOUS
<1> QED
  BY <1>1, <1>2

\* A command without data may change the card's state, never its kind.
LEMMA CommandOutcome ==
  ASSUME TypeOK, NEW cmd, NEW r1, Command(cmd, r1)
  PROVE  /\ card' \in Card /\ card'.sdhc = card.sdhc
         /\ UNCHANGED <<job, unseen>>
         /\ faults' \in 0 .. MaxFaults
<1> USE SdAssumption
<1>1. card \in Card /\ faults \in 0 .. MaxFaults
  BY DEF TypeOK
<1>2. ASSUME NEW heard, Obeys(cmd, heard)
      PROVE  card' \in Card /\ card'.sdhc = card.sdhc /\ job' = job
  BY <1>1, <1>2 DEF Obeys, Card
<1>3. CASE Hears(cmd) /\ Obeys(cmd, r1) /\ UNCHANGED faultVars
  BY <1>1, <1>2, <1>3 DEF faultVars
<1>4. CASE ~Hears(cmd) /\ Deaf(r1) /\ UNCHANGED faultVars
  BY <1>1, <1>4 DEF Deaf, faultVars
<1>5. CASE /\ Fault /\ UNCHANGED unseen
           /\ \/ UNCHANGED <<card, job>>
              \/ Hears(cmd) /\ \E heard \in {"ready", "idle", "bad"} : Obeys(cmd, heard)
  <2>1. faults' \in 0 .. MaxFaults
    BY <1>1, <1>5 DEF Fault
  <2> QED
    BY <1>1, <1>2, <1>5, <2>1
<1> QED
  BY <1>3, <1>4, <1>5 DEF Command

\* A read or write command starts a block of one of the card's sectors, or none.
LEMMA DataCommandOutcome ==
  ASSUME TypeOK, NEW kind \in {"send", "receive"}, NEW arg, NEW r1,
         DataCommand(kind, arg, r1)
  PROVE  /\ card' \in Card /\ card'.sdhc = card.sdhc /\ job' \in Job
         /\ UNCHANGED unseen /\ faults' \in 0 .. MaxFaults
         /\ \/ job' = job /\ (r1 = "ready" => job.kind = "program")
            \/ /\ r1 = "ready" /\ job.kind # "program"
               /\ \E s \in Sector : /\ Addresses(arg, s)
                                    /\ job' = [kind |-> kind, sector |-> s]
<1> USE SdAssumption
<1>1. card \in Card /\ job \in Job /\ faults \in 0 .. MaxFaults
  BY DEF TypeOK
<1>2. CASE Hears("CMD") /\ Transfers(kind, arg, r1) /\ UNCHANGED faultVars
  <2>1. card' \in Card /\ card'.sdhc = card.sdhc
    BY <1>1, <1>2 DEF Transfers, Card
  <2>2. job.kind # "program" /\ UNCHANGED <<faults, unseen>>
    BY <1>2 DEF Hears, faultVars
  <2>3. CASE /\ r1 = "ready"
             /\ \E s \in Sector : /\ Addresses(arg, s)
                                  /\ job' = [kind |-> kind, sector |-> s]
    <3>1. job' \in Job
      BY <2>3 DEF Job
    <3> QED
      BY <1>1, <2>1, <2>2, <2>3, <3>1
  <2>4. CASE job' = job /\ r1 = "bad"
    BY <1>1, <2>1, <2>2, <2>4
  <2> QED
    BY <1>2, <2>3, <2>4 DEF Transfers
<1>3. CASE ~Hears("CMD") /\ Deaf(r1) /\ UNCHANGED faultVars
  BY <1>1, <1>3 DEF Deaf, faultVars
<1>4. CASE Fault /\ r1 = "bad" /\ UNCHANGED <<card, job, unseen>>
  <2>1. faults' \in 0 .. MaxFaults
    BY <1>1, <1>4 DEF Fault
  <2> QED
    BY <1>1, <1>4, <2>1
<1> QED
  BY <1>2, <1>3, <1>4 DEF DataCommand

\* A block that is given up, or done, leaves a sector that is being programmed or nothing.
LEMMA ReleasedType ==
  ASSUME job \in Job
  PROVE  /\ Released(job) \in Job /\ Released(job).kind \notin {"send", "receive"}
         /\ Released(job).kind = "program" => Released(job) = job
  BY DEF Released, Job, NoJob

\* A card that takes the driver's address means the driver's sector.
LEMMA SectorMeant ==
  ASSUME TypeOK, AddressingMatchesCard, disk_state = "0",
         NEW s \in Sector, Addresses(Address, s)
  PROVE  s = call.sector + i
<1>1. call.sector + i \in Int /\ s \in Int
  BY SdAssumption DEF TypeOK, Sector
<1>2. CASE sd_is_sdhc
  BY <1>1, <1>2 DEF Address, Addresses, AddressingMatchesCard
<1>3. CASE ~sd_is_sdhc
  BY <1>1, <1>3 DEF Address, Addresses, AddressingMatchesCard, BLOCK_SIZE
<1> QED
  BY <1>2, <1>3

\* The end of a block: where the call goes on and what it returns.
LEMMA BlockOutcome ==
  ASSUME TypeOK, Work, step \in BlockStep, NEW r \in SdResult, BlockReturns(r),
         UNCHANGED call
  PROVE  /\ cs' = FALSE /\ sd' \in SdResult /\ result' \in DiskResult
         /\ step' \in {"idle", "command"}
         /\ i' \in 0 .. call.count
         /\ step' = "command" => i' < call.count
         /\ \/ r = "SD_OK" /\ i' = i + 1
            \/ r # "SD_OK" /\ i' = i /\ step' = "idle" /\ result' = "RES_ERROR"
         /\ step' = "idle" /\ result' = "RES_OK" => i' = call.count
<1>1. /\ i \in 0 .. call.count /\ i < call.count /\ call.count \in Nat
      /\ result \in DiskResult
  BY SdAssumption DEF TypeOK, Work, Call, DiskResult
<1>2. cs' = FALSE /\ sd' \in SdResult
  BY Zenon DEF BlockReturns
<1>0. "RES_OK" \in DiskResult
  BY DEF DiskResult
<1>3. CASE r = "SD_OK" /\ i' < call.count
  <2>1. i' = i + 1 /\ step' = "command" /\ result' = result
    BY <1>1, <1>3 DEF BlockReturns
  <2> QED
    BY <1>1, <1>2, <1>3, <2>1
<1>4. CASE r = "SD_OK" /\ ~(i' < call.count)
  <2>1. i' = i + 1 /\ i' = call.count /\ step' = "idle" /\ result' = "RES_OK"
    BY <1>1, <1>4 DEF BlockReturns
  <2> QED
    BY <1>1, <1>2, <1>4, <2>1, <1>0
<1>5. CASE r # "SD_OK"
  BY <1>1, <1>2, <1>5 DEF BlockReturns, DiskResult
<1> QED
  BY <1>3, <1>4, <1>5

\* The end of a step of sd_init.
LEMMA InitOutcome ==
  ASSUME TypeOK, NEW next \in InitStep, NEW r \in SdResult, Goto(next) \/ Initialized(r)
  PROVE  /\ step' \in {"idle"} \cup InitStep
         /\ sd' \in SdResult /\ result' \in DiskResult
         /\ disk_state' \in {"STA_NOINIT", "0"}
         /\ disk_state' = disk_state \/ (r = "SD_OK" /\ disk_state' = "0")
         /\ step' = "idle" => result' \in {"STA_NOINIT", "0"}
<1>1. /\ sd \in SdResult /\ result \in DiskResult /\ disk_state \in {"STA_NOINIT", "0"}
  BY DEF TypeOK, SdResult, DiskResult
<1>2. CASE Goto(next)
  BY <1>1, <1>2 DEF Goto, InitStep
<1>3. CASE Initialized(r)
  BY <1>1, <1>3 DEF Initialized, DiskResult
<1> QED
  BY <1>2, <1>3

SdInit == Wake \/ Cmd0 \/ Cmd8 \/ Cmd55 \/ Acmd41 \/ Delay \/ Cmd58

\* What the steps of sd_init have in common, in three parts.
LEMMA SdInitLeaves ==
  ASSUME TypeOK, SdInit
  PROVE  /\ step \in InitStep
         /\ UNCHANGED <<call, calls, buff, i, flash, job, unseen>>
         /\ card' \in Card /\ card'.sdhc = card.sdhc
         /\ faults' \in 0 .. MaxFaults
         /\ now' \in Nat /\ since' \in 0 .. now'
         /\ cs' = cs \/ cs' = FALSE
<1> USE SdAssumption DEF callVars, cardVars, faultVars, InitStep
<1>1. card \in Card /\ now \in Nat /\ since \in 0 .. now /\ faults \in 0 .. MaxFaults
  BY DEF TypeOK
<1>2. CASE Wake
  BY <1>1, <1>2 DEF Wake
<1>3. CASE Cmd0
  BY <1>1, <1>3, CommandOutcome DEF Cmd0
<1>4. CASE Cmd8
  BY <1>1, <1>4, CommandOutcome DEF Cmd8
<1>5. CASE Cmd55
  BY <1>1, <1>5, CommandOutcome DEF Cmd55
<1>6. CASE Acmd41
  BY <1>1, <1>6, CommandOutcome DEF Acmd41
<1>7. CASE Delay
  BY <1>1, <1>7 DEF Delay
<1>8. CASE Cmd58
  BY <1>1, <1>8, CommandOutcome DEF Cmd58
<1> QED
  BY <1>2, <1>3, <1>4, <1>5, <1>6, <1>7, <1>8 DEF SdInit

\* A step of sd_init goes on within it, or returns and leaves disk_state accordingly.
LEMMA SdInitReturns ==
  ASSUME TypeOK, SdInit
  PROVE  /\ step' \in {"idle"} \cup InitStep
         /\ sd' \in SdResult /\ result' \in DiskResult
         /\ disk_state' \in {"STA_NOINIT", "0"}
         /\ step' = "idle" => result' \in {"STA_NOINIT", "0"}
<1>1. ASSUME NEW next \in InitStep, NEW r \in SdResult, Goto(next) \/ Initialized(r)
      PROVE  /\ step' \in {"idle"} \cup InitStep
             /\ sd' \in SdResult /\ result' \in DiskResult
             /\ disk_state' \in {"STA_NOINIT", "0"}
             /\ step' = "idle" => result' \in {"STA_NOINIT", "0"}
  BY <1>1, InitOutcome
<1>2. \E next \in InitStep, r \in SdResult : Goto(next) \/ Initialized(r)
  BY DEF SdInit, Wake, Cmd0, Cmd8, Cmd55, Acmd41, Delay, Cmd58, InitStep, SdResult
<1> QED
  BY <1>1, <1>2

\* Only a CMD58 that succeeds changes what the driver knows of the card.
LEMMA SdInitLearns ==
  ASSUME TypeOK, SdInit
  PROVE  \/ UNCHANGED <<disk_state, sd_initialized, sd_is_sdhc>>
         \/ sd_initialized' = TRUE /\ sd_is_sdhc' = card.sdhc
<1>1. CASE Wake
  BY <1>1 DEF Wake, Goto
<1>2. CASE Cmd0
  BY <1>2 DEF Cmd0, Goto, Initialized
<1>3. CASE Cmd8
  BY <1>3 DEF Cmd8, Goto, Initialized
<1>4. CASE Cmd55
  BY <1>4 DEF Cmd55, Goto
<1>5. CASE Acmd41
  BY <1>5 DEF Acmd41, Goto
<1>6. CASE Delay
  BY <1>6 DEF Delay, Goto, Initialized
<1>7. CASE Cmd58
  BY <1>7 DEF Cmd58, Initialized
<1> QED
  BY <1>1, <1>2, <1>3, <1>4, <1>5, <1>6, <1>7 DEF SdInit

--------------------------------------------------------------------------------
\* The steps keep the invariant, part by part.

\* Truth values.
LEMMA NextBits == IInv /\ [Next]_vars => Bits'
<1> SUFFICES ASSUME IInv, [Next]_vars PROVE Bits'
  OBVIOUS
<1> USE DEF diskVars, callVars, driverVars, cardVars, faultVars
<1>a. TypeOK /\ Bits
  BY Parts DEF IInv
<1> USE DEF Bits
<1>1. CASE DiskInitialize
  BY <1>a, <1>1, Zenon DEF DiskInitialize
<1>2. CASE DiskTransfer
  BY <1>a, <1>2, Zenon DEF DiskTransfer
<1>3. CASE SdInit
  <2>1. UNCHANGED unseen /\ cs' \in BOOLEAN
    <3>1. unseen' = unseen /\ (cs' = cs \/ cs' = FALSE)
      BY <1>a, <1>3, SdInitLeaves
    <3> QED
      BY <1>a, <3>1, Zenon
  <2>2. sd_initialized' \in BOOLEAN /\ sd_is_sdhc' \in BOOLEAN
    <3>1. card.sdhc \in BOOLEAN
      BY <1>a DEF TypeOK, Card
    <3> QED
      BY <1>a, <1>3, <3>1, SdInitLearns, Zenon
  <2> QED
    BY <1>a, <2>1, <2>2, Zenon
<1>4. CASE TransferCommand
  <2>1. unseen' = unseen
    BY <1>a, <1>4, DataCommandOutcome DEF TransferCommand
  <2>2. cs' \in BOOLEAN
    BY <1>4, Zenon DEF TransferCommand, BlockReturns
  <2> QED
    BY <1>a, <1>4, <2>1, <2>2, Zenon DEF TransferCommand
<1>5. CASE ReadBlock
  BY <1>a, <1>5, Zenon DEF ReadBlock, BlockReturns
<1>6. CASE TokenTimesOut
  BY <1>a, <1>6, Zenon DEF TokenTimesOut, BlockReturns
<1>7. CASE BlockAccepted
  BY <1>a, <1>7, Zenon DEF BlockAccepted, BlockReturns
<1>8. CASE BlockRefused
  BY <1>a, <1>8, Zenon DEF BlockRefused, BlockReturns
<1>9. CASE BlockWritten
  BY <1>a, <1>9, Zenon DEF BlockWritten, BlockReturns
<1>10. CASE BusyTimesOut
  BY <1>a, <1>10, Zenon DEF BusyTimesOut, BlockReturns
<1>11. CASE Tick
  BY <1>a, <1>11, Zenon DEF Tick
<1>12. CASE Program
  BY <1>a, <1>12, Zenon DEF Program
<1>13. CASE Glitch
  BY <1>a, <1>13, Zenon DEF Glitch
<1>14. CASE UNCHANGED vars
  BY <1>a, <1>14, Zenon DEF vars
<1> QED
  BY <1>1, <1>2, <1>3, <1>4, <1>5, <1>6, <1>7, <1>8, <1>9, <1>10,
     <1>11, <1>12, <1>13, <1>14
  DEF Next, Driver, SdInit

\* The buffer is as long as the call's count, and i does not pass it.
LEMMA NextBuffers == IInv /\ [Next]_vars => Buffers'
<1> SUFFICES ASSUME IInv, [Next]_vars PROVE Buffers'
  OBVIOUS
<1> USE SdAssumption DEF diskVars, callVars, driverVars, cardVars, faultVars
<1>a. TypeOK /\ Work /\ Buffers
  BY Parts DEF IInv
<1> USE DEF Buffers
<1>1. CASE DiskInitialize
  <2>1. call' \in Call /\ call'.count = 0
    BY <1>1 DEF DiskInitialize, NoCall, Call, Sector
  <2>2. buff' = <<>> /\ i' = 0
    BY <1>1 DEF DiskInitialize
  <2> QED
    BY <2>1, <2>2, NoBuffer
<1>2. CASE DiskTransfer
  <2>1. PICK op \in {"read", "write"}, sector \in Sector, count \in 1 .. MaxCount :
              /\ call' = [op |-> op, sector |-> sector, count |-> count]
              /\ buff' \in [0 .. count - 1 -> Data]
    BY <1>2 DEF DiskTransfer
  <2>2. call' \in Call /\ call'.count = count
    BY <2>1 DEF Call
  <2>3. i' = 0
    BY <1>2 DEF DiskTransfer
  <2> QED
    BY <2>1, <2>2, <2>3
<1>3. CASE SdInit
  BY <1>a, <1>3, SdInitLeaves
<1>4. CASE TransferCommand
  <2>1. UNCHANGED <<call, buff>> /\ step \in BlockStep
    BY <1>4 DEF TransferCommand, BlockStep
  <2>2. UNCHANGED i \/ BlockReturns("SD_ERROR")
    BY <1>4 DEF TransferCommand
  <2>3. i' \in 0 .. call.count
    BY <1>a, <2>1, <2>2, BlockOutcome DEF SdResult
  <2> QED
    BY <1>a, <2>1, <2>3
<1>5. CASE ReadBlock
  <2>0. step = "token" /\ BlockReturns("SD_OK") /\ UNCHANGED call
    BY <1>5, Zenon DEF ReadBlock
  <2>1. i' \in 0 .. call.count /\ i \in DOMAIN buff
    <3>1. step \in BlockStep
      BY <2>0 DEF BlockStep
    <3>2. i' \in 0 .. call.count
      BY <1>a, <2>0, <3>1, BlockOutcome DEF SdResult
    <3>3. i < call.count /\ call.count \in Nat
      BY <1>a, <3>1 DEF Work, Call
    <3> QED
      BY <1>a, <3>2, <3>3
  <2>2. job.kind = "send" /\ job \in Job /\ flash \in [Sector -> Data]
    BY <1>a, <1>5 DEF ReadBlock, TypeOK
  <2>3. flash[job.sector] \in Data
    BY <2>2 DEF Job, NoJob
  <2>4. \E byte \in Data : buff' = [buff EXCEPT ![i] = byte]
    BY <1>5, <2>3 DEF ReadBlock
  <2> QED
    BY <1>a, <2>0, <2>1, <2>4
<1>6. CASE TokenTimesOut
  <2>1. i' \in 0 .. call.count /\ UNCHANGED <<call, buff>>
    BY <1>a, <1>6, BlockOutcome DEF TokenTimesOut, SdResult, BlockStep
  <2> QED
    BY <1>a, <2>1
<1>7. CASE BlockAccepted
  BY <1>a, <1>7 DEF BlockAccepted
<1>8. CASE BlockRefused
  <2>1. i' \in 0 .. call.count /\ UNCHANGED <<call, buff>>
    BY <1>a, <1>8, BlockOutcome DEF BlockRefused, SdResult, BlockStep
  <2> QED
    BY <1>a, <2>1
<1>9. CASE BlockWritten
  <2>1. step = "busy" /\ BlockReturns("SD_OK") /\ UNCHANGED <<call, buff>>
    BY <1>9, Zenon DEF BlockWritten
  <2>2. step \in BlockStep
    BY <2>1 DEF BlockStep
  <2>3. i' \in 0 .. call.count
    BY <1>a, <2>1, <2>2, BlockOutcome DEF SdResult
  <2> QED
    BY <1>a, <2>1, <2>3
<1>10. CASE BusyTimesOut
  <2>1. i' \in 0 .. call.count /\ UNCHANGED <<call, buff>>
    BY <1>a, <1>10, BlockOutcome DEF BusyTimesOut, SdResult, BlockStep
  <2> QED
    BY <1>a, <2>1
<1>11. CASE Tick
  BY <1>a, <1>11 DEF Tick
<1>12. CASE Program
  BY <1>a, <1>12 DEF Program
<1>13. CASE Glitch
  BY <1>a, <1>13 DEF Glitch
<1>14. CASE UNCHANGED vars
  BY <1>a, <1>14 DEF vars
<1> QED
  BY <1>1, <1>2, <1>3, <1>4, <1>5, <1>6, <1>7, <1>8, <1>9, <1>10,
     <1>11, <1>12, <1>13, <1>14
  DEF Next, Driver, SdInit

\* The rest of TypeOK.
LEMMA NextRanges == IInv /\ [Next]_vars => Ranges'
<1> SUFFICES ASSUME IInv, [Next]_vars PROVE Ranges'
  OBVIOUS
<1> USE SdAssumption DEF diskVars, callVars, driverVars, cardVars, faultVars
<1>a. TypeOK /\ Work /\ Ranges
  BY Parts DEF IInv
<1> USE DEF Ranges
<1>1. CASE DiskInitialize
  BY <1>a, <1>1 DEF DiskInitialize, Goto, Steps, InitStep
<1>2. CASE DiskTransfer
  <2>1. step' \in Steps /\ result' \in DiskResult
    BY <1>a, <1>2 DEF DiskTransfer, Steps, BlockStep, DiskResult
  <2>2. calls' \in 0 .. MaxCalls
    BY <1>a, <1>2 DEF DiskTransfer
  <2> QED
    BY <1>a, <1>2, <2>1, <2>2 DEF DiskTransfer
<1>3. CASE SdInit
  <2>1. UNCHANGED <<calls, flash, job>> /\ faults' \in 0 .. MaxFaults
        /\ card' \in Card /\ now' \in Nat /\ since' \in 0 .. now'
    BY <1>a, <1>3, SdInitLeaves
  <2>2. step' \in Steps
    BY <1>a, <1>3, SdInitReturns DEF Steps
  <2>3. sd' \in SdResult /\ result' \in DiskResult /\ disk_state' \in {"STA_NOINIT", "0"}
    BY <1>a, <1>3, SdInitReturns
  <2> QED
    BY <1>a, <2>1, <2>2, <2>3
<1>4. CASE TransferCommand
  <2>1. PICK kind \in {"send", "receive"}, r1 \in {"ready", "bad"} :
              DataCommand(kind, Address, r1)
    BY <1>4 DEF TransferCommand
  <2>2. card' \in Card /\ job' \in Job /\ faults' \in 0 .. MaxFaults
    BY <1>a, <2>1, DataCommandOutcome
  <2>3. step \in BlockStep /\ UNCHANGED <<disk_state, call, calls, flash, now>>
    BY <1>4 DEF TransferCommand, BlockStep
  <2>4. CASE BlockReturns("SD_ERROR") /\ UNCHANGED since
    <3>1. step' \in Steps /\ sd' \in SdResult /\ result' \in DiskResult
      BY <1>a, <2>3, <2>4, BlockOutcome DEF SdResult, Steps, BlockStep
    <3> QED
      BY <1>a, <2>2, <2>3, <2>4, <3>1
  <2>5. CASE /\ since' = now /\ UNCHANGED <<i, sd, result>>
             /\ step' = IF call.op = "read" THEN "token" ELSE "block"
    <3>1. step' \in Steps
      BY <2>5 DEF Steps, BlockStep
    <3> QED
      BY <1>a, <2>2, <2>3, <2>5, <3>1
  <2> QED
    BY <1>4, <2>4, <2>5 DEF TransferCommand
<1>5. CASE ReadBlock
  <2>1. step' \in Steps /\ sd' \in SdResult /\ result' \in DiskResult
    BY <1>a, <1>5, BlockOutcome DEF ReadBlock, SdResult, BlockStep, Steps
  <2>2. job' \in Job
    BY <1>a, <1>5, ReleasedType DEF ReadBlock
  <2> QED
    BY <1>a, <1>5, <2>1, <2>2 DEF ReadBlock, Fault
<1>6. CASE TokenTimesOut
  <2>1. step' \in Steps /\ sd' \in SdResult /\ result' \in DiskResult
    BY <1>a, <1>6, BlockOutcome DEF TokenTimesOut, SdResult, BlockStep, Steps
  <2>2. job' \in Job
    BY <1>a, <1>6, ReleasedType DEF TokenTimesOut
  <2> QED
    BY <1>a, <1>6, <2>1, <2>2 DEF TokenTimesOut, Fault
<1>7. CASE BlockAccepted
  <2>1. job.sector \in Sector /\ buff[i] \in Data
    BY <1>a, <1>7 DEF BlockAccepted, Job, NoJob, TypeOK, Work, BlockStep, Call
  <2>2. job' \in Job
    BY <1>7, <2>1 DEF BlockAccepted, Job
  <2>3. step' \in Steps
    BY <1>7 DEF BlockAccepted, Steps, BlockStep
  <2> QED
    BY <1>a, <1>7, <2>2, <2>3 DEF BlockAccepted
<1>8. CASE BlockRefused
  <2>1. step' \in Steps /\ sd' \in SdResult /\ result' \in DiskResult
    BY <1>a, <1>8, BlockOutcome DEF BlockRefused, SdResult, BlockStep, Steps
  <2>2. job' \in Job
    BY <1>a, <1>8, ReleasedType DEF BlockRefused
  <2> QED
    BY <1>a, <1>8, <2>1, <2>2 DEF BlockRefused, Fault
<1>9. CASE BlockWritten
  <2>1. step' \in Steps /\ sd' \in SdResult /\ result' \in DiskResult
    BY <1>a, <1>9, BlockOutcome DEF BlockWritten, SdResult, BlockStep, Steps
  <2>2. job' \in Job
    BY <1>a, <1>9, ReleasedType DEF BlockWritten
  <2> QED
    BY <1>a, <1>9, <2>1, <2>2 DEF BlockWritten, Fault
<1>10. CASE BusyTimesOut
  <2>1. step' \in Steps /\ sd' \in SdResult /\ result' \in DiskResult
    BY <1>a, <1>10, BlockOutcome DEF BusyTimesOut, SdResult, BlockStep, Steps
  <2>2. job' \in Job
    BY <1>a, <1>10, ReleasedType DEF BusyTimesOut
  <2> QED
    BY <1>a, <1>10, <2>1, <2>2 DEF BusyTimesOut, Fault
<1>11. CASE Tick
  BY <1>a, <1>11 DEF Tick
<1>12. CASE Program
  <2>1. job.sector \in Sector /\ job.data \in Data
    BY <1>a, <1>12 DEF Program, Programmed, Job, NoJob
  <2> QED
    BY <1>a, <1>12, <2>1 DEF Program, Programmed, Job
<1>13. CASE Glitch
  <2>1. flash' \in [Sector -> Data]
    <3>1. job.kind = "program" => job.sector \in Sector /\ job.data \in Data
      BY <1>a DEF Job, NoJob
    <3> QED
      BY <1>a, <1>13, <3>1 DEF Glitch, Programmed
  <2>2. card' \in Card /\ job' \in Job /\ faults' \in 0 .. MaxFaults
    <3>1. /\ card' = [card EXCEPT !.state = "native", !.app = FALSE]
          /\ job' = NoJob /\ Fault
      BY <1>13, Zenon DEF Glitch
    <3>2. card' \in Card
      BY <1>a, <3>1 DEF Card
    <3>3. job' \in Job
      BY <3>1 DEF Job
    <3>4. faults' \in 0 .. MaxFaults
      BY <1>a, <3>1 DEF Fault
    <3> QED
      BY <3>2, <3>3, <3>4
  <2> QED
    BY <1>a, <1>13, <2>1, <2>2 DEF Glitch
<1>14. CASE UNCHANGED vars
  BY <1>a, <1>14 DEF vars
<1> QED
  BY <1>1, <1>2, <1>3, <1>4, <1>5, <1>6, <1>7, <1>8, <1>9, <1>10,
     <1>11, <1>12, <1>13, <1>14
  DEF Next, Driver, SdInit

\* Each call keeps to its own steps.
LEMMA NextWork == IInv /\ [Next]_vars => Work'
<1> SUFFICES ASSUME IInv, [Next]_vars PROVE Work'
  OBVIOUS
<1> USE SdAssumption DEF diskVars, callVars, driverVars, cardVars, faultVars, Work
<1>a. TypeOK /\ Work
  BY DEF IInv
<1>1. CASE DiskInitialize
  BY <1>1 DEF DiskInitialize, Goto, NoCall, Transferring, InitStep, BlockStep
<1>2. CASE DiskTransfer
  <2>1. PICK op \in {"read", "write"}, sector \in Sector, count \in 1 .. MaxCount :
              /\ sector + count <= Blocks
              /\ call' = [op |-> op, sector |-> sector, count |-> count]
    BY <1>2 DEF DiskTransfer
  <2>2. Transferring' /\ call'.sector + call'.count <= Blocks /\ call'.count > 0
    BY <2>1 DEF Transferring
  <2>3. i' = 0 /\ UNCHANGED disk_state
    BY <1>2 DEF DiskTransfer
  <2>4. step' = "idle" \/ (step' = "command" /\ disk_state = "0")
    BY <1>a, <1>2 DEF DiskTransfer, TypeOK
  <2> QED
    BY <2>1, <2>2, <2>3, <2>4 DEF InitStep, BlockStep
<1>3. CASE SdInit
  <2>1. step \in InitStep /\ UNCHANGED call /\ step' \in {"idle"} \cup InitStep
    BY <1>a, <1>3, SdInitLeaves, SdInitReturns
  <2> QED
    BY <1>a, <2>1 DEF Transferring, InitStep, BlockStep
<1>4. CASE TransferCommand
  <2>1. step = "command" /\ step \in BlockStep /\ UNCHANGED <<call, disk_state>>
    BY <1>4 DEF TransferCommand, BlockStep
  <2>2. CASE BlockReturns("SD_ERROR")
    <3>1. /\ step' \in {"idle", "command"}
          /\ step' = "command" => i' < call.count
      BY <1>a, <2>1, <2>2, BlockOutcome DEF SdResult
    <3> QED
      BY <1>a, <2>1, <3>1 DEF Transferring, InitStep, BlockStep
  <2>3. CASE step' = (IF call.op = "read" THEN "token" ELSE "block") /\ UNCHANGED i
    BY <1>a, <2>1, <2>3 DEF Transferring, InitStep, BlockStep
  <2> QED
    BY <1>4, <2>2, <2>3 DEF TransferCommand
<1>5. CASE ReadBlock
  <2>1. /\ step \in BlockStep /\ BlockReturns("SD_OK")
        /\ UNCHANGED <<call, disk_state>>
    BY <1>5 DEF ReadBlock, BlockStep
  <2>2. /\ step' \in {"idle", "command"}
        /\ step' = "command" => i' < call.count
    BY <1>a, <2>1, BlockOutcome DEF SdResult
  <2> QED
    BY <1>a, <2>1, <2>2 DEF Transferring, InitStep, BlockStep
<1>6. CASE TokenTimesOut
  <2>1. /\ step \in BlockStep /\ BlockReturns("SD_TIMEOUT")
        /\ UNCHANGED <<call, disk_state>>
    BY <1>6 DEF TokenTimesOut, BlockStep
  <2>2. /\ step' \in {"idle", "command"}
        /\ step' = "command" => i' < call.count
    BY <1>a, <2>1, BlockOutcome DEF SdResult
  <2> QED
    BY <1>a, <2>1, <2>2 DEF Transferring, InitStep, BlockStep
<1>7. CASE BlockAccepted
  BY <1>a, <1>7 DEF BlockAccepted, Transferring, InitStep, BlockStep
<1>8. CASE BlockRefused
  <2>1. /\ step \in BlockStep /\ BlockReturns("SD_ERROR")
        /\ UNCHANGED <<call, disk_state>>
    BY <1>8 DEF BlockRefused, BlockStep
  <2>2. /\ step' \in {"idle", "command"}
        /\ step' = "command" => i' < call.count
    BY <1>a, <2>1, BlockOutcome DEF SdResult
  <2> QED
    BY <1>a, <2>1, <2>2 DEF Transferring, InitStep, BlockStep
<1>9. CASE BlockWritten
  <2>1. /\ step \in BlockStep /\ BlockReturns("SD_OK")
        /\ UNCHANGED <<call, disk_state>>
    BY <1>9 DEF BlockWritten, BlockStep
  <2>2. /\ step' \in {"idle", "command"}
        /\ step' = "command" => i' < call.count
    BY <1>a, <2>1, BlockOutcome DEF SdResult
  <2> QED
    BY <1>a, <2>1, <2>2 DEF Transferring, InitStep, BlockStep
<1>10. CASE BusyTimesOut
  <2>1. /\ step \in BlockStep /\ BlockReturns("SD_TIMEOUT")
        /\ UNCHANGED <<call, disk_state>>
    BY <1>10 DEF BusyTimesOut, BlockStep
  <2>2. /\ step' \in {"idle", "command"}
        /\ step' = "command" => i' < call.count
    BY <1>a, <2>1, BlockOutcome DEF SdResult
  <2> QED
    BY <1>a, <2>1, <2>2 DEF Transferring, InitStep, BlockStep
<1>11. CASE Tick
  BY <1>a, <1>11 DEF Tick, Transferring
<1>12. CASE Program
  BY <1>a, <1>12 DEF Program, Transferring
<1>13. CASE Glitch
  BY <1>a, <1>13 DEF Glitch, Transferring
<1>14. CASE UNCHANGED vars
  BY <1>a, <1>14 DEF vars, Transferring
<1> QED
  BY <1>1, <1>2, <1>3, <1>4, <1>5, <1>6, <1>7, <1>8, <1>9, <1>10,
     <1>11, <1>12, <1>13, <1>14
  DEF Next, Driver, SdInit

\* What the driver knows of the card stays true: a card does not change its kind.
LEMMA NextAddressing == IInv /\ [Next]_vars => AddressingMatchesCard'
<1> SUFFICES ASSUME IInv, [Next]_vars PROVE AddressingMatchesCard'
  OBVIOUS
<1> USE DEF diskVars, callVars, driverVars, cardVars, faultVars, AddressingMatchesCard
<1>a. TypeOK /\ AddressingMatchesCard
  BY DEF IInv
<1>1. CASE DiskInitialize
  BY <1>a, <1>1, Zenon DEF DiskInitialize, Goto
<1>2. CASE DiskTransfer
  BY <1>a, <1>2, Zenon DEF DiskTransfer
<1>3. CASE SdInit
  <2>1. card'.sdhc = card.sdhc
    BY <1>a, <1>3, SdInitLeaves
  <2> QED
    BY <1>a, <1>3, <2>1, SdInitLearns, Zenon
<1>4. CASE TransferCommand
  <2>1. \E kind \in {"send", "receive"}, r1 \in {"ready", "bad"} :
          DataCommand(kind, Address, r1)
    BY <1>4 DEF TransferCommand
  <2>2. card'.sdhc = card.sdhc
    BY <1>a, <2>1, DataCommandOutcome
  <2> QED
    BY <1>a, <1>4, <2>2, Zenon DEF TransferCommand
<1>5. CASE ReadBlock
  BY <1>a, <1>5, Zenon DEF ReadBlock
<1>6. CASE TokenTimesOut
  BY <1>a, <1>6, Zenon DEF TokenTimesOut
<1>7. CASE BlockAccepted
  BY <1>a, <1>7, Zenon DEF BlockAccepted
<1>8. CASE BlockRefused
  BY <1>a, <1>8, Zenon DEF BlockRefused
<1>9. CASE BlockWritten
  BY <1>a, <1>9, Zenon DEF BlockWritten
<1>10. CASE BusyTimesOut
  BY <1>a, <1>10, Zenon DEF BusyTimesOut
<1>11. CASE Tick
  BY <1>a, <1>11, Zenon DEF Tick
<1>12. CASE Program
  BY <1>a, <1>12, Zenon DEF Program
<1>13. CASE Glitch
  <2>1. card' = [card EXCEPT !.state = "native", !.app = FALSE]
    BY <1>13, Zenon DEF Glitch
  <2>2. card'.sdhc = card.sdhc
    BY <1>a, <2>1 DEF TypeOK, Card
  <2> QED
    BY <1>a, <1>13, <2>2, Zenon DEF Glitch
<1>14. CASE UNCHANGED vars
  BY <1>a, <1>14, Zenon DEF vars
<1> QED
  BY <1>1, <1>2, <1>3, <1>4, <1>5, <1>6, <1>7, <1>8, <1>9, <1>10,
     <1>11, <1>12, <1>13, <1>14
  DEF Next, Driver, SdInit

\* A block that is on the way is the driver's current one.
LEMMA NextBus == IInv /\ [Next]_vars => Bus'
<1> SUFFICES ASSUME IInv, [Next]_vars PROVE Bus'
  OBVIOUS
<1> USE DEF diskVars, callVars, driverVars, cardVars, faultVars
<1>a. TypeOK /\ Work /\ AddressingMatchesCard /\ Bus
  BY DEF IInv
<1>b. job \in Job
  BY <1>a DEF TypeOK
<1>1. CASE DiskInitialize
  BY <1>a, <1>1 DEF DiskInitialize, Goto, Bus
<1>2. CASE DiskTransfer
  <2>1. UNCHANGED <<cs, job>> /\ step = "idle"
    BY <1>2 DEF DiskTransfer
  <2> QED
    BY <1>a, <2>1 DEF Bus
<1>3. CASE SdInit
  <2>1. step \in InitStep /\ UNCHANGED job /\ (cs' = cs \/ cs' = FALSE)
    BY <1>a, <1>3, SdInitLeaves
  <2> QED
    BY <1>a, <2>1 DEF Bus, InitStep
<1>4. CASE TransferCommand
  <2>1. /\ step = "command" /\ step \in BlockStep /\ UNCHANGED call
        /\ job.kind \notin {"send", "receive"} /\ disk_state = "0"
    BY <1>a, <1>4 DEF TransferCommand, Bus, BlockStep, Work
  <2>2. PICK kind \in {"send", "receive"}, r1 \in {"ready", "bad"} :
          /\ kind = IF call.op = "read" THEN "send" ELSE "receive"
          /\ DataCommand(kind, Address, r1)
          /\ \/ r1 = "bad" /\ BlockReturns("SD_ERROR")
             \/ /\ r1 = "ready" /\ cs' = TRUE /\ UNCHANGED i
                /\ step' = IF call.op = "read" THEN "token" ELSE "block"
    BY <1>4 DEF TransferCommand
  <2>3. \/ job' = job
        \/ /\ r1 = "ready"
           /\ \E s \in Sector : /\ Addresses(Address, s)
                                /\ job' = [kind |-> kind, sector |-> s]
    BY <1>a, <2>2, DataCommandOutcome
  <2>4. CASE r1 = "bad"
    <3>1. cs' = FALSE /\ job' = job
      BY <1>a, <2>1, <2>2, <2>3, <2>4, BlockOutcome DEF SdResult
    <3> QED
      BY <2>1, <3>1 DEF Bus
  <2>5. CASE r1 = "ready" /\ job' = job
    BY <2>1, <2>2, <2>5 DEF Bus
  <2>6. CASE /\ r1 = "ready"
             /\ \E s \in Sector : /\ Addresses(Address, s)
                                  /\ job' = [kind |-> kind, sector |-> s]
    <3>1. job'.kind = kind /\ job'.sector = call.sector + i
      BY <1>a, <2>1, <2>6, SectorMeant
    <3> QED
      BY <2>1, <2>2, <2>6, <3>1 DEF Bus
  <2> QED
    BY <2>2, <2>3, <2>4, <2>5, <2>6
<1>5. CASE ReadBlock
  <2>1. step \in BlockStep /\ BlockReturns("SD_OK") /\ UNCHANGED call
    BY <1>5 DEF ReadBlock, BlockStep
  <2>2. cs' = FALSE
    BY <1>a, <2>1, BlockOutcome DEF SdResult
  <2>3. job'.kind \notin {"send", "receive"}
    BY <1>a, <1>5, <1>b, ReleasedType DEF ReadBlock
  <2> QED
    BY <2>2, <2>3 DEF Bus
<1>6. CASE TokenTimesOut
  <2>1. step \in BlockStep /\ BlockReturns("SD_TIMEOUT") /\ UNCHANGED call
    BY <1>6 DEF TokenTimesOut, BlockStep
  <2>2. cs' = FALSE
    BY <1>a, <2>1, BlockOutcome DEF SdResult
  <2>3. job'.kind \notin {"send", "receive"}
    BY <1>a, <1>6, <1>b, ReleasedType DEF TokenTimesOut
  <2> QED
    BY <2>2, <2>3 DEF Bus
<1>7. CASE BlockAccepted
  BY <1>a, <1>7 DEF BlockAccepted, Bus
<1>8. CASE BlockRefused
  <2>1. step \in BlockStep /\ BlockReturns("SD_ERROR") /\ UNCHANGED call
    BY <1>8 DEF BlockRefused, BlockStep
  <2>2. cs' = FALSE
    BY <1>a, <2>1, BlockOutcome DEF SdResult
  <2>3. job'.kind \notin {"send", "receive"}
    BY <1>a, <1>8, <1>b, ReleasedType DEF BlockRefused
  <2> QED
    BY <2>2, <2>3 DEF Bus
<1>9. CASE BlockWritten
  <2>1. step \in BlockStep /\ BlockReturns("SD_OK") /\ UNCHANGED call
    BY <1>9 DEF BlockWritten, BlockStep
  <2>2. cs' = FALSE
    BY <1>a, <2>1, BlockOutcome DEF SdResult
  <2>3. job'.kind \notin {"send", "receive"}
    BY <1>a, <1>9 DEF BlockWritten, Bus
  <2> QED
    BY <2>2, <2>3 DEF Bus
<1>10. CASE BusyTimesOut
  <2>1. step \in BlockStep /\ BlockReturns("SD_TIMEOUT") /\ UNCHANGED call
    BY <1>10 DEF BusyTimesOut, BlockStep
  <2>2. cs' = FALSE
    BY <1>a, <2>1, BlockOutcome DEF SdResult
  <2>3. job'.kind \notin {"send", "receive"}
    BY <1>a, <1>10 DEF BusyTimesOut, Bus
  <2> QED
    BY <2>2, <2>3 DEF Bus
<1>11. CASE Tick
  BY <1>a, <1>11 DEF Tick, Bus
<1>12. CASE Program
  BY <1>a, <1>12 DEF Program, Bus, NoJob
<1>13. CASE Glitch
  <2>1. job' = NoJob /\ UNCHANGED <<step, cs>>
    BY <1>13, Zenon DEF Glitch
  <2> QED
    BY <1>a, <2>1 DEF Bus, NoJob
<1>14. CASE UNCHANGED vars
  BY <1>a, <1>14 DEF vars, Bus
<1> QED
  BY <1>1, <1>2, <1>3, <1>4, <1>5, <1>6, <1>7, <1>8, <1>9, <1>10,
     <1>11, <1>12, <1>13, <1>14
  DEF Next, Driver, SdInit

\* What is done stays done; a write that was given up can only touch its own sector.
LEMMA NextDone == IInv /\ [Next]_vars => Done'
<1> SUFFICES ASSUME IInv, [Next]_vars PROVE Done'
  OBVIOUS
<1> USE DEF diskVars, callVars, driverVars, cardVars, faultVars
<1>a. TypeOK /\ Work /\ Bus /\ Done
  BY DEF IInv
<1>b. job \in Job /\ i \in Nat /\ call.sector \in Int
  BY <1>a, SdAssumption DEF TypeOK, Sector
<1>1. CASE DiskInitialize
  BY <1>1 DEF DiskInitialize, NoCall, Done, Transferring
<1>2. CASE DiskTransfer
  <2>1. /\ i' = 0 /\ UNCHANGED job
        /\ \/ step' = "idle" /\ result' = "RES_NOTRDY"
           \/ step' = "command"
    BY <1>2 DEF DiskTransfer
  <2> QED
    BY <2>1 DEF Done
<1>3. CASE SdInit
  <2>1. step \in InitStep /\ UNCHANGED call
    BY <1>a, <1>3, SdInitLeaves
  <2> QED
    BY <1>a, <2>1 DEF Done, Work, Transferring
<1>4. CASE TransferCommand
  <2>1. /\ step \in BlockStep /\ step = "command"
        /\ UNCHANGED <<call, buff, flash>>
    BY <1>4 DEF TransferCommand, BlockStep
  <2>2. PICK kind \in {"send", "receive"}, r1 \in {"ready", "bad"} :
          DataCommand(kind, Address, r1)
    BY <1>4 DEF TransferCommand
  <2>3. UNCHANGED unseen /\ (job'.kind = "program" => job' = job)
    BY <1>a, <2>2, DataCommandOutcome
  <2>4. \/ i' = i /\ step' = "idle" /\ result' = "RES_ERROR"
        \/ i' = i /\ step' \in {"token", "block"}
    <3>1. CASE BlockReturns("SD_ERROR")
      BY <1>a, <2>1, <3>1, BlockOutcome DEF SdResult
    <3>2. CASE i' = i /\ step' \in {"token", "block"}
      BY <3>2
    <3> QED
      BY <1>4, <3>1, <3>2 DEF TransferCommand
  <2> QED
    BY <1>a, <2>1, <2>3, <2>4 DEF Done, Transferring
<1>5. CASE ReadBlock
  <2>1. /\ step = "token" /\ step \in BlockStep /\ BlockReturns("SD_OK")
        /\ UNCHANGED <<call, flash>> /\ job' = Released(job)
    BY <1>5, Zenon DEF ReadBlock, BlockStep
  <2>2. /\ i' = i + 1 /\ step' \in {"idle", "command"}
        /\ step' = "idle" /\ result' = "RES_OK" => i' = call.count
    BY <1>a, <2>1, BlockOutcome DEF SdResult
  <2>3. job.kind = "send" /\ job.sector = call.sector + i
    BY <1>a, <1>5 DEF ReadBlock, Bus
  <2>4. job'.kind # "program"
    BY <2>1, <2>3 DEF Released, NoJob
  <2>5. ASSUME unseen' = FALSE
        PROVE  \A k \in 0 .. i' - 1 : flash'[call.sector + k] = buff'[k]
    <3>1. buff' = [buff EXCEPT ![i] = flash[job.sector]] /\ unseen = FALSE
      BY <1>5, <2>5, Zenon DEF ReadBlock
    <3>2. i \in DOMAIN buff
      BY <1>a, <1>b, <2>1, SdAssumption DEF TypeOK, Work
    <3>3. \A k \in 0 .. i - 1 : flash[call.sector + k] = buff[k]
      BY <1>a, <2>1, <3>1 DEF Done, Work
    <3>4. buff'[i] = flash[call.sector + i] /\ \A k \in 0 .. i - 1 : buff'[k] = buff[k]
      BY <1>b, <2>3, <3>1, <3>2
    <3> QED
      BY <1>b, <2>1, <2>2, <3>3, <3>4
  <2> QED
    BY <2>1, <2>2, <2>4, <2>5 DEF Done
<1>6. CASE TokenTimesOut
  <2>1. /\ step \in BlockStep /\ BlockReturns("SD_TIMEOUT")
        /\ UNCHANGED <<call, buff, flash, unseen>> /\ job' = Released(job)
    BY <1>6 DEF TokenTimesOut, BlockStep
  <2>2. i' = i /\ step' = "idle" /\ result' = "RES_ERROR"
    BY <1>a, <2>1, BlockOutcome DEF SdResult
  <2>3. job'.kind = "program" => job' = job
    BY <1>a, <2>1, ReleasedType DEF TypeOK
  <2> QED
    BY <1>a, <2>1, <2>2, <2>3 DEF Done, Transferring
<1>7. CASE BlockAccepted
  <2>1. /\ step' = "busy" /\ UNCHANGED <<call, buff, i, flash, unseen>>
        /\ job' = [kind |-> "program", sector |-> job.sector, data |-> buff[i]]
        /\ job.sector = call.sector + i /\ step = "block"
    BY <1>a, <1>7 DEF BlockAccepted, Bus
  <2>2. call.op = "write"
    BY <1>a, <2>1 DEF Work
  <2> QED
    BY <1>a, <2>1, <2>2 DEF Done, Transferring
<1>8. CASE BlockRefused
  <2>1. /\ step \in BlockStep /\ BlockReturns("SD_ERROR")
        /\ UNCHANGED <<call, buff, flash, unseen>> /\ job' = Released(job)
    BY <1>8 DEF BlockRefused, BlockStep
  <2>2. i' = i /\ step' = "idle" /\ result' = "RES_ERROR"
    BY <1>a, <2>1, BlockOutcome DEF SdResult
  <2>3. job'.kind = "program" => job' = job
    BY <1>a, <2>1, ReleasedType DEF TypeOK
  <2> QED
    BY <1>a, <2>1, <2>2, <2>3 DEF Done, Transferring
<1>9. CASE BlockWritten
  <2>1. /\ step = "busy" /\ step \in BlockStep /\ BlockReturns("SD_OK")
        /\ job.kind # "program" /\ UNCHANGED <<call, buff, flash, job, unseen>>
    BY <1>9, Zenon DEF BlockWritten, BlockStep
  <2>2. /\ i' = i + 1 /\ step' \in {"idle", "command"}
        /\ step' = "idle" /\ result' = "RES_OK" => i' = call.count
    BY <1>a, <2>1, BlockOutcome DEF SdResult
  <2>3. ASSUME unseen = FALSE
        PROVE  \A k \in 0 .. i' - 1 : flash[call.sector + k] = buff[k]
    <3>1. /\ \A k \in 0 .. i - 1 : flash[call.sector + k] = buff[k]
          /\ flash[call.sector + i] = buff[i]
      BY <1>a, <2>1, <2>3 DEF Done, Work
    <3> QED
      BY <1>b, <2>2, <3>1
  <2> QED
    BY <2>1, <2>2, <2>3 DEF Done
<1>10. CASE BusyTimesOut
  <2>1. /\ step \in BlockStep /\ BlockReturns("SD_TIMEOUT")
        /\ UNCHANGED <<call, buff, flash, unseen>> /\ job' = job
    BY <1>10 DEF BusyTimesOut, BlockStep
  <2>2. i' = i /\ step' = "idle" /\ result' = "RES_ERROR"
    BY <1>a, <2>1, BlockOutcome DEF SdResult
  <2>3. job'.kind = "program" => job' = job
    BY <1>a, <2>1, ReleasedType DEF TypeOK
  <2> QED
    BY <1>a, <2>1, <2>2, <2>3 DEF Done, Transferring
<1>11. CASE Tick
  BY <1>a, <1>11 DEF Tick, Done, Transferring
<1>12. CASE Program
  <2>1. /\ job.kind = "program" /\ job' = NoJob /\ NoJob.kind = "none"
        /\ UNCHANGED <<call, buff, i, step, result, unseen>>
        /\ flash' = [flash EXCEPT ![job.sector] = job.data]
    BY <1>12 DEF Program, Programmed, NoJob
  <2>2. flash \in [Sector -> Data] /\ job.sector \in Sector
    BY <1>a, <1>b, <2>1 DEF TypeOK, Job, NoJob
  <2>3. ASSUME Transferring, unseen = FALSE, NEW k \in 0 .. i - 1
        PROVE  flash'[call.sector + k] = buff[k]
    <3>1. job.sector = call.sector + i /\ flash[call.sector + k] = buff[k]
      BY <1>a, <1>b, <2>1, <2>3 DEF Done
    <3>2. call.sector + k # job.sector
      BY <1>b, <3>1
    <3> QED
      BY <2>1, <2>2, <3>1, <3>2
  <2>4. ASSUME Transferring, unseen = FALSE, step = "busy"
        PROVE  flash'[call.sector + i] = buff[i]
    <3>1. job.sector = call.sector + i /\ job.data = buff[i]
      BY <1>a, <2>1, <2>4 DEF Done
    <3> QED
      BY <2>1, <2>2, <3>1
  <2>5. Transferring => ~(step = "idle" /\ result = "RES_OK")
    BY <1>a, <2>1 DEF Done
  <2> QED
    BY <2>1, <2>3, <2>4, <2>5 DEF Done, Transferring
<1>13. CASE Glitch
  <2>1. job' = NoJob /\ UNCHANGED <<call, buff, i, step, result>>
    BY <1>13, Zenon DEF Glitch
  <2>2. unseen' = FALSE => job.kind # "program" /\ unseen = FALSE
    <3>1. unseen \in BOOLEAN /\ unseen' = (unseen \/ job.kind = "program")
      BY <1>a, <1>13, Zenon DEF Glitch, TypeOK
    <3> QED
      BY <3>1, Zenon
  <2>3. job.kind # "program" => flash' = flash
    BY <1>13, Zenon DEF Glitch, Programmed
  <2> QED
    BY <1>a, <2>1, <2>2, <2>3 DEF Done, Transferring, NoJob
<1>14. CASE UNCHANGED vars
  BY <1>a, <1>14 DEF vars, Done, Transferring
<1> QED
  BY <1>1, <1>2, <1>3, <1>4, <1>5, <1>6, <1>7, <1>8, <1>9, <1>10,
     <1>11, <1>12, <1>13, <1>14
  DEF Next, Driver, SdInit

\* Before the first call nothing is done and nothing is under way.
LEMMA InitIInv == Init => IInv
<1> SUFFICES ASSUME Init PROVE IInv
  OBVIOUS
<1> USE SdAssumption DEF Init
<1>1. Bits
  BY Zenon DEF Bits
<1>2. Buffers
  BY NoBuffer DEF Buffers, NoCall, Call, Sector
<1>3. Ranges
  <2>1. /\ disk_state = "STA_NOINIT" /\ step = "idle" /\ now = 0 /\ since = 0
        /\ sd = "SD_OK" /\ result = "RES_OK" /\ calls = 0 /\ faults = 0
        /\ card \in [state : {"native"}, sdhc : BOOLEAN, app : {FALSE}] /\ job = NoJob
        /\ flash \in [Sector -> Data]
    BY Zenon
  <2>2. card \in Card
    BY <2>1 DEF Card
  <2>3. job \in Job /\ step \in Steps /\ sd \in SdResult /\ result \in DiskResult
    BY <2>1 DEF Job, Steps, SdResult, DiskResult
  <2> HIDE DEF Init
  <2> QED
    BY <2>1, <2>2, <2>3 DEF Ranges
<1>4. Work /\ AddressingMatchesCard /\ Bus /\ Done
  BY DEF Work, AddressingMatchesCard, Bus, Done, Transferring, NoCall, NoJob,
         InitStep, BlockStep
<1> QED
  BY <1>1, <1>2, <1>3, <1>4, Parts DEF IInv

\* The invariant holds at every moment.
LEMMA Invariant == Spec => []IInv
<1>1. IInv /\ [Next]_vars => IInv'
  BY NextBits, NextBuffers, NextRanges, Parts, NextWork, NextAddressing, NextBus, NextDone
  DEF IInv
<1> QED
  BY <1>1, InitIInv, PTL DEF Spec

\* For cards of every size: the driver's and the card's variables keep their types, no
\* sector index leaves the buffer or the card.
THEOREM TypeCorrect == Spec => []TypeOK
<1>1. IInv => TypeOK
  BY DEF IInv
<1> QED
  BY <1>1, Invariant, PTL

\* However often and wherever sd_init fails, a driver that takes itself for initialised
\* addresses the card the way this card counts.
THEOREM AddressingAgrees == Spec => []AddressingMatchesCard
<1>1. IInv => AddressingMatchesCard
  BY DEF IInv
<1> QED
  BY <1>1, Invariant, PTL

\* Every way out of a disk function leaves the card deselected and with no block open.
THEOREM CallsEndDeselected == Spec => []NothingLeftOpen
<1>1. IInv => NothingLeftOpen
  <2> SUFFICES ASSUME IInv, step = "idle"
               PROVE  cs = FALSE /\ job.kind \notin {"send", "receive"}
    BY Zenon DEF NothingLeftOpen
  <2>1. cs \in BOOLEAN /\ Bus
    BY Zenon DEF IInv, TypeOK
  <2> QED
    BY <2>1 DEF Bus
<1> QED
  BY <1>1, Invariant, PTL

\* For every number of sectors and calls: what disk_write counts as done is on the card,
\* and the late end of an earlier write does not undo it.
THEOREM WritesAreDone == Spec => []WrittenIsOnCard
<1>1. IInv => WrittenIsOnCard
  <2> SUFFICES ASSUME IInv, call.op = "write", unseen = FALSE
               PROVE  WrittenIsOnCard
    BY Zenon DEF WrittenIsOnCard, IInv, TypeOK
  <2>1. /\ \A k \in 0 .. i - 1 : flash[call.sector + k] = buff[k]
        /\ step = "idle" /\ result = "RES_OK" => i = call.count
    BY DEF IInv, Done, Transferring
  <2>2. i \in Nat /\ call.count \in Nat
    BY SdAssumption DEF IInv, TypeOK
  <2> QED
    BY <2>1, <2>2 DEF WrittenIsOnCard
<1> QED
  BY <1>1, Invariant, PTL

\* For every number of sectors and calls: a disk_read that returns RES_OK has filled its
\* buffer with the sectors asked for, in order.
THEOREM ReadsAreRight == Spec => []ReadIsWhatIsOnCard
<1>1. IInv => ReadIsWhatIsOnCard
  <2> SUFFICES ASSUME IInv, call.op = "read", unseen = FALSE
               PROVE  ReadIsWhatIsOnCard
    BY Zenon DEF ReadIsWhatIsOnCard, IInv, TypeOK
  <2>1. /\ \A k \in 0 .. i - 1 : flash[call.sector + k] = buff[k]
        /\ step = "idle" /\ result = "RES_OK" => i = call.count
    BY DEF IInv, Done, Transferring
  <2>2. i \in Nat /\ call.count \in Nat
    BY SdAssumption DEF IInv, TypeOK
  <2> QED
    BY <2>1, <2>2 DEF ReadIsWhatIsOnCard
<1> QED
  BY <1>1, Invariant, PTL

--------------------------------------------------------------------------------
\* SdCard implements BlockDevice.

\* The write that the card is doing.
LateWrite == IF job.kind = "program" THEN [sector |-> job.sector, data |-> job.data]
             ELSE NoJob

\* A write goes on as long as the card's job does.
LEMMA LateKept ==
  /\ job' = job => LateWrite' = LateWrite
  /\ job.kind # "program" => LateWrite = NoJob
  /\ job'.kind # "program" => LateWrite' = NoJob
  BY DEF LateWrite

\* A step in the middle of a call that shows nothing.
LEMMA ShowsNothing ==
  ASSUME UNCHANGED <<flash, call, buff, i, result, unseen>>, LateWrite' = LateWrite,
         (step' # "idle") = (step # "idle")
  PROVE  UNCHANGED Device!vars
  BY Zenon DEF Device!vars, LateWrite

\* A step that ends a call without success.
LEMMA EndsFailed ==
  ASSUME step # "idle", step' = "idle",
         result' \in IF call.op = "initialize" THEN {"0", "STA_NOINIT"}
                     ELSE {"RES_ERROR"},
         UNCHANGED <<flash, call, buff, i, unseen>>, LateWrite' = LateWrite
  PROVE  Device!Fails
  BY Zenon DEF Device!Fails, LateWrite

\* A step of a call that is done with one more sector.
LEMMA OneMoreDone ==
  ASSUME TypeOK, Work, step \in {"token", "busy"}, BlockReturns("SD_OK"),
         UNCHANGED <<call, flash>>, job.kind # "program", job'.kind # "program",
         \/ /\ call.op = "write"
            /\ flash[call.sector + i] = buff[i] \/ unseen
            /\ UNCHANGED <<buff, unseen>>
         \/ /\ call.op = "read"
            /\ \/ buff' = [buff EXCEPT ![i] = flash[call.sector + i]] /\ UNCHANGED unseen
               \/ (\E damaged \in Data : buff' = [buff EXCEPT ![i] = damaged]) /\ unseen'
  PROVE  Device!SectorDone
<1>1. LateWrite = NoJob /\ LateWrite' = NoJob
  BY LateKept
<1>2. /\ i' = i + 1 /\ step # "idle"
      /\ IF i' = call.count THEN step' = "idle" /\ result' = "RES_OK"
                            ELSE step' = "command" /\ result' = result
  <2>1. i \in 0 .. call.count /\ i < call.count /\ call.count \in Nat
    BY SdAssumption DEF TypeOK, Work, BlockStep
  <2> QED
    BY <2>1 DEF BlockReturns
<1>3. IF i' = call.count THEN ~(step' # "idle") /\ result' = "RES_OK"
      ELSE (step' # "idle") = (step # "idle") /\ result' = result
  <2>1. CASE i' = call.count
    BY <1>2, <2>1
  <2>2. CASE i' # call.count
    <3>1. step' # "idle" /\ result' = result
      BY <1>2, <2>2
    <3> QED
      BY <1>2, <2>2, <3>1
  <2> QED
    BY Zenon, <2>1, <2>2
<1> QED
  BY Zenon, <1>1, <1>2, <1>3 DEF Device!SectorDone, LateWrite

\* Every step of driver and card is one of the block device or does not show.
LEMMA NextDevice == IInv /\ [Next]_vars => [Device!Next]_(Device!vars)
<1> SUFFICES ASSUME IInv, [Next]_vars PROVE Device!Next \/ UNCHANGED Device!vars
  OBVIOUS
<1> USE DEF diskVars, callVars, driverVars, cardVars, faultVars
<1>a. TypeOK /\ Work /\ AddressingMatchesCard /\ Bus /\ Done
  BY DEF IInv
<1>1. CASE DiskInitialize
  <2>1. /\ step = "idle" /\ step' = "wake" /\ i' = 0
        /\ UNCHANGED <<flash, job, unseen, result>>
    BY <1>1, Zenon DEF DiskInitialize, Goto
  <2>2. (step' # "idle") = TRUE /\ ~(step # "idle")
    BY <2>1
  <2>3. LateWrite' = LateWrite
    BY <2>1, LateKept
  <2>4. Device!Call
    BY <2>1, <2>2, <2>3, Zenon DEF Device!Call, LateWrite
  <2> QED
    BY <2>4 DEF Device!Next
<1>2. CASE DiskTransfer
  <2>1. /\ step = "idle" /\ i' = 0 /\ UNCHANGED <<flash, job, unseen>>
        /\ \/ result' = "RES_NOTRDY" /\ UNCHANGED step
           \/ step' = "command" /\ UNCHANGED result
    BY <1>2 DEF DiskTransfer
  <2>2. call'.op # "initialize"
    BY <1>2 DEF DiskTransfer
  <2>3. LateWrite' = LateWrite
    BY <2>1, LateKept
  <2>4. \/ (step' # "idle") = TRUE /\ UNCHANGED result
        \/ result' = "RES_NOTRDY" /\ (step' # "idle") = (step # "idle")
    BY <2>1
  <2>5. ~(step # "idle")
    BY <2>1
  <2>6. Device!Call
    BY <2>1, <2>2, <2>3, <2>4, <2>5, Zenon DEF Device!Call, LateWrite
  <2> QED
    BY <2>6 DEF Device!Next
<1>3. CASE SdInit
  <2>1. /\ step \in InitStep /\ UNCHANGED <<flash, call, buff, i, job, unseen>>
        /\ step' \in {"idle"} \cup InitStep
        /\ step' = "idle" => result' \in {"0", "STA_NOINIT"}
    BY <1>a, <1>3, SdInitLeaves, SdInitReturns
  <2>2. call.op = "initialize" /\ step # "idle" /\ LateWrite' = LateWrite
    BY <1>a, <2>1, LateKept DEF Work, InitStep
  <2>3. CASE step' = "idle"
    <3>1. Device!Fails
      BY <2>1, <2>2, <2>3, EndsFailed
    <3> QED
      BY <3>1 DEF Device!Next
  <2>4. CASE step' # "idle"
    <3>1. result' = result
      BY <1>3, <2>4 DEF SdInit, Wake, Cmd0, Cmd8, Cmd55, Acmd41, Delay, Cmd58,
                         Goto, Initialized
    <3>2. (step' # "idle") = (step # "idle")
      BY <2>2, <2>4
    <3> QED
      BY <2>1, <2>2, <3>1, <3>2, ShowsNothing
  <2> QED
    BY <2>3, <2>4
<1>4. CASE TransferCommand
  <2>1. /\ step = "command" /\ step \in BlockStep /\ call.op # "initialize"
        /\ UNCHANGED <<flash, call, buff>>
    BY <1>a, <1>4 DEF TransferCommand, BlockStep, Work, Transferring
  <2>2. PICK kind \in {"send", "receive"}, r1 \in {"ready", "bad"} :
          DataCommand(kind, Address, r1)
    BY <1>4 DEF TransferCommand
  <2>3. UNCHANGED unseen /\ LateWrite' = LateWrite
    <3>1. \/ job' = job
          \/ job.kind # "program" /\ job'.kind # "program"
      <4>1. \A s : [kind |-> kind, sector |-> s].kind # "program"
        OBVIOUS
      <4> QED
        BY <1>a, <2>2, <4>1, DataCommandOutcome
    <3> QED
      BY <1>a, <2>2, <3>1, DataCommandOutcome, LateKept
  <2>4. CASE BlockReturns("SD_ERROR")
    <3>1. i' = i /\ step' = "idle" /\ result' = "RES_ERROR"
      BY <1>a, <2>1, <2>4, BlockOutcome DEF SdResult
    <3>2. Device!Fails
      BY <2>1, <2>3, <3>1, EndsFailed
    <3> QED
      BY <3>2 DEF Device!Next
  <2>5. CASE step' \in {"token", "block"} /\ UNCHANGED <<i, result>>
    <3>1. (step' # "idle") = (step # "idle")
      BY <2>1, <2>5
    <3> QED
      BY <2>1, <2>3, <2>5, <3>1, ShowsNothing
  <2> QED
    BY <1>4, <2>4, <2>5 DEF TransferCommand
<1>5. CASE ReadBlock
  <2>1. /\ step = "token" /\ BlockReturns("SD_OK") /\ UNCHANGED <<call, flash>>
        /\ job.kind = "send" /\ job' = Released(job)
    BY <1>5, Zenon DEF ReadBlock
  <2>2. job.sector = call.sector + i /\ call.op = "read"
    BY <1>a, <2>1 DEF Bus, Work
  <2>3. job'.kind # "program"
    BY <2>1 DEF Released, NoJob
  <2>4. \/ buff' = [buff EXCEPT ![i] = flash[call.sector + i]] /\ UNCHANGED unseen
        \/ (\E damaged \in Data : buff' = [buff EXCEPT ![i] = damaged]) /\ unseen'
    BY <1>5, <2>2, Zenon DEF ReadBlock
  <2>5. Device!SectorDone
    BY <1>a, <2>1, <2>2, <2>3, <2>4, OneMoreDone
  <2> QED
    BY <2>5 DEF Device!Next
<1>6. CASE BlockWritten
  <2>1. /\ step = "busy" /\ BlockReturns("SD_OK") /\ job.kind # "program"
        /\ UNCHANGED <<call, flash, buff, job, unseen>>
    BY <1>6, Zenon DEF BlockWritten
  <2>2. call.op = "write" /\ unseen \in BOOLEAN
    BY <1>a, <2>1 DEF Work, TypeOK
  <2>3. unseen = FALSE => flash[call.sector + i] = buff[i]
    BY <1>a, <2>1, <2>2 DEF Done, Transferring
  <2>4. flash[call.sector + i] = buff[i] \/ unseen
    BY <2>2, <2>3, Zenon
  <2>5. Device!SectorDone
    BY <1>a, <2>1, <2>2, <2>4, OneMoreDone
  <2> QED
    BY <2>5 DEF Device!Next
<1>7. CASE TokenTimesOut \/ BlockRefused \/ BusyTimesOut
  <2>1. /\ step \in BlockStep /\ UNCHANGED <<flash, call, buff, unseen>>
        /\ job' = job \/ job' = Released(job)
        /\ BlockReturns("SD_ERROR") \/ BlockReturns("SD_TIMEOUT")
    BY <1>7 DEF TokenTimesOut, BlockRefused, BusyTimesOut, BlockStep
  <2>2. i' = i /\ step' = "idle" /\ result' = "RES_ERROR"
    BY <1>a, <2>1, BlockOutcome DEF SdResult
  <2>3. LateWrite' = LateWrite
    <3>1. job' = job \/ (job.kind # "program" /\ job'.kind # "program")
      BY <2>1 DEF Released, NoJob
    <3> QED
      BY <3>1, LateKept
  <2>4. call.op # "initialize" /\ step # "idle"
    BY <1>a, <2>1 DEF Work, Transferring, BlockStep
  <2>5. Device!Fails
    BY <2>1, <2>2, <2>3, <2>4, EndsFailed
  <2> QED
    BY <2>5 DEF Device!Next
<1>8. CASE BlockAccepted
  <2>1. /\ step = "block" /\ step' = "busy" /\ job.kind = "receive"
        /\ job' = [kind |-> "program", sector |-> job.sector, data |-> buff[i]]
        /\ UNCHANGED <<flash, call, buff, i, result, unseen>>
    BY <1>8 DEF BlockAccepted
  <2>2. call.op = "write" /\ job.sector = call.sector + i
    BY <1>a, <2>1 DEF Work, Bus
  <2>3. LateWrite = NoJob /\ LateWrite' = [sector |-> call.sector + i, data |-> buff[i]]
    BY <2>1, <2>2 DEF LateWrite
  <2>4. (step' # "idle") = (step # "idle") /\ step # "idle"
    BY <2>1
  <2>5. Device!Take
    BY <2>1, <2>2, <2>3, <2>4, Zenon DEF Device!Take, LateWrite
  <2> QED
    BY <2>5 DEF Device!Next
<1>9. CASE Tick
  <2>1. UNCHANGED <<flash, call, buff, i, result, unseen, job, step>>
    BY <1>9 DEF Tick
  <2> QED
    BY <2>1, LateKept, ShowsNothing
<1>10. CASE Program
  <2>1. /\ job.kind = "program" /\ job' = NoJob
        /\ UNCHANGED <<call, buff, i, step, result, unseen>>
        /\ flash' = [flash EXCEPT ![job.sector] = job.data]
    BY <1>10 DEF Program, Programmed
  <2>2. /\ LateWrite # NoJob /\ LateWrite' = NoJob
        /\ LateWrite.sector = job.sector /\ LateWrite.data = job.data
    BY <2>1 DEF LateWrite, NoJob
  <2>3. Device!Land
    BY <2>1, <2>2, Zenon DEF Device!Land, LateWrite
  <2> QED
    BY <2>3 DEF Device!Next
<1>11. CASE Glitch
  <2>1. job' = NoJob /\ UNCHANGED <<call, buff, i, step, result>>
    BY <1>11, Zenon DEF Glitch
  <2>2. CASE job.kind = "program"
    <3>1. unseen' = TRUE /\ (UNCHANGED flash \/ Programmed)
      BY <1>11, <2>2, Zenon DEF Glitch
    <3>2. LateWrite # NoJob /\ LateWrite' = NoJob
      BY <2>1, <2>2 DEF LateWrite, NoJob
    <3>3. LateWrite.sector = job.sector /\ LateWrite.data = job.data
      BY <2>2 DEF LateWrite
    <3>4. flash' \in {flash, [flash EXCEPT ![LateWrite.sector] = LateWrite.data]}
      BY <3>1, <3>3, Zenon DEF Programmed
    <3>5. Device!Forget
      BY <2>1, <3>1, <3>2, <3>4, Zenon DEF Device!Forget, LateWrite
    <3> QED
      BY <3>5 DEF Device!Next
  <2>3. CASE job.kind # "program"
    <3>1. flash' = flash
      BY <1>11, <2>3, Zenon DEF Glitch, Programmed
    <3>2. unseen' = unseen
      <4>1. unseen' = (unseen \/ job.kind = "program") /\ unseen \in BOOLEAN
        BY <1>a, <1>11, Zenon DEF Glitch, TypeOK
      <4> QED
        BY <2>3, <4>1, Zenon
    <3>3. LateWrite' = LateWrite
      BY <2>1, <2>3, LateKept DEF NoJob
    <3> QED
      BY <2>1, <3>1, <3>2, <3>3, ShowsNothing
  <2> QED
    BY <2>2, <2>3
<1>12. CASE UNCHANGED vars
  <2>1. UNCHANGED <<flash, call, buff, i, result, unseen, job, step>>
    BY <1>12 DEF vars
  <2> QED
    BY <2>1, LateKept, ShowsNothing
<1> QED
  BY <1>1, <1>2, <1>3, <1>4, <1>5, <1>6, <1>7, <1>8, <1>9, <1>10, <1>11, <1>12
  DEF Next, Driver, SdInit

\* Driver and card are the block device that FatFs relies on, for cards of every size and
\* any number of calls and faults: a late write lands before anything else succeeds.
THEOREM ImplementsDevice == Spec => ImplementsBlockDevice
<1>1. Init => Device!Init
  <2> SUFFICES ASSUME Init PROVE Device!Init
    OBVIOUS
  <2>1. /\ step = "idle" /\ job = NoJob /\ flash \in [Sector -> Data] /\ call = NoCall
        /\ buff = <<>> /\ i = 0 /\ result = "RES_OK" /\ unseen = FALSE
    BY Zenon DEF Init
  <2>2. LateWrite = NoJob /\ ~(step # "idle")
    BY <2>1 DEF LateWrite, NoJob
  <2> QED
    BY <2>1, <2>2, Zenon DEF Device!Init, LateWrite
<1> QED
  BY <1>1, NextDevice, Invariant, PTL DEF Spec, ImplementsBlockDevice

--------------------------------------------------------------------------------
\* The tick counter does not wrap in the course of a wait.
NoWrap == /\ now < TickRange
          /\ \A w \in {InitWindow, ReadWindow, WriteWindow} : now + w < TickRange

\* Without a wrap a deadline that counts as passed has passed.
LEMMA ExpiredMeansPassed ==
  ASSUME TypeOK, NoWrap, NEW time \in Nat, time < TickRange,
         NEW w \in {InitWindow, ReadWindow, WriteWindow}, Expired(time, w)
  PROVE  time >= since + w
<1>1. /\ since \in Nat /\ now \in Nat /\ since <= now
      /\ TickRange \in Nat \ {0} /\ w \in Nat
  BY SdAssumption DEF TypeOK
<1>3. now + w < TickRange
  BY DEF NoWrap
<1>2. Ticks(time) = time /\ Ticks(since + w) = since + w
  BY <1>1, <1>3 DEF Ticks
<1> QED
  BY <1>1, <1>2 DEF Expired, Deadline

\* Until the tick counter wraps, no wait is given up before its window has passed:
\* whatever the windows are, an answer that comes within them is waited for.
THEOREM NoEarlyTimeout == Spec /\ []NoWrap => WaitsLastTheirWindow
<1> DEFINE Lasts ==
      sd' = "SD_TIMEOUT" /\ step # "idle" /\ step' = "idle" =>
        now' >= since + (CASE step = "delay" -> InitWindow
                           [] step = "token" -> ReadWindow
                           [] step = "busy" -> WriteWindow)
<1>1. ASSUME IInv, NoWrap, NoWrap', Next,
             sd' = "SD_TIMEOUT", step # "idle", step' = "idle"
      PROVE  now' >= since + (CASE step = "delay" -> InitWindow
                                [] step = "token" -> ReadWindow
                                [] step = "busy" -> WriteWindow)
  <2>a. TypeOK /\ now \in Nat /\ now < TickRange /\ now' < TickRange
    BY <1>1 DEF IInv, TypeOK, NoWrap
  <2>1. CASE Delay
    <3>1. step = "delay" /\ now' = now + 1 /\ Expired(now', InitWindow)
      BY <1>1, <2>1 DEF Delay, Goto
    <3>2. now' >= since + InitWindow
      BY <1>1, <2>a, <3>1, ExpiredMeansPassed
    <3> QED
      BY <3>1, <3>2
  <2>2. CASE TokenTimesOut
    <3>1. step = "token" /\ now' = now /\ Expired(now, ReadWindow)
      BY <2>2 DEF TokenTimesOut
    <3>2. now >= since + ReadWindow
      BY <1>1, <2>a, <3>1, ExpiredMeansPassed
    <3> QED
      BY <3>1, <3>2
  <2>3. CASE BusyTimesOut
    <3>1. step = "busy" /\ now' = now /\ Expired(now, WriteWindow)
      BY <2>3 DEF BusyTimesOut
    <3>2. now >= since + WriteWindow
      BY <1>1, <2>a, <3>1, ExpiredMeansPassed
    <3> QED
      BY <3>1, <3>2
  <2>4. ~(Wake \/ Cmd0 \/ Cmd8 \/ Cmd55 \/ Acmd41 \/ Cmd58)
    BY <1>1 DEF Wake, Cmd0, Cmd8, Cmd55, Acmd41, Cmd58, Goto, Initialized
  <2>5. ~(\/ DiskInitialize \/ DiskTransfer \/ TransferCommand
          \/ BlockAccepted \/ BlockRefused)
    BY <1>1 DEF DiskInitialize, DiskTransfer, TransferCommand, BlockAccepted,
                BlockRefused, BlockReturns
  <2>6. ~(ReadBlock \/ BlockWritten)
    BY <1>1, Zenon DEF ReadBlock, BlockWritten, BlockReturns
  <2>7. ~(Tick \/ Program \/ Glitch)
    BY <1>1, Zenon DEF Tick, Program, Glitch, driverVars
  <2> QED
    BY <1>1, <2>1, <2>2, <2>3, <2>4, <2>5, <2>6, <2>7 DEF Next, Driver
<1>2. IInv /\ NoWrap /\ NoWrap' /\ [Next]_vars => [Lasts]_vars
  BY <1>1
<1> QED
  BY <1>2, Invariant, PTL DEF Spec, WaitsLastTheirWindow
================================================================================
