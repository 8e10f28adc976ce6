-------------------------------- MODULE I2cWrite --------------------------------
(***************************************************************************)
(* hal_i2c_write of HAL/Src/hal_i2c.c: a blocking, polling master write,   *)
(* against the I2C peripheral of the STM32F4 and a device that can refuse  *)
(* a byte or hold the bus.                                                 *)
(*                                                                         *)
(* A step of the driver is the poll that ends one of its waits, with what  *)
(* follows up to the next wait; polls that change nothing are no steps.  A *)
(* wait polls 100000 times, a thousand times what the peripheral needs for *)
(* a byte, so it times out only when the peripheral cannot move.           *)
(***************************************************************************)
EXTENDS Integers, Sequences

CONSTANTS MaxLen,   \* bound: bytes in one write
          MaxCalls, \* bound: calls of hal_i2c_write
          MaxFaults \* bound: refused bytes, and times the bus is held

ASSUME I2cAssumption == MaxLen \in Nat \ {0} /\ {MaxCalls, MaxFaults} \subseteq Nat

VARIABLES
  step,            \* the wait hal_i2c_write is in; "idle" outside a call
  len, i,          \* its argument and its loop counter
  ret,             \* what it returned last
  bus,             \* how far the transaction on the bus has got
  flags,           \* the bits SB, ADDR, AF, TxE, BTF of I2C_SR1
  startBit,        \* START has been requested and not yet been generated
  dr, shift,       \* the byte in the data register, in the shift register (0: none)
  held,            \* a device holds SCL or SDA low
  received,        \* the bytes of this write the device has acknowledged
  nacked, expired, \* this write has met a NACK, a timeout
  calls, faults    \* calls and faults so far

callVars == <<len, calls>>
busVars == <<bus, flags, startBit, dr, shift, received>>
vars == <<step, callVars, i, ret, busVars, held, nacked, expired, faults>>

Flag == {"SB", "ADDR", "AF", "TxE", "BTF"}

TypeOK ==
  /\ step \in {"idle", "BUSY", "SB", "ADDR", "TxE", "BTF"}
  /\ len \in 0 .. MaxLen /\ i \in 0 .. len
  /\ ret \in BOOLEAN
  /\ bus \in {"free", "started", "address", "data", "nacked", "stopping"}
  /\ flags \subseteq Flag
  /\ startBit \in BOOLEAN
  /\ dr \in 0 .. MaxLen /\ shift \in 0 .. MaxLen
  /\ held \in BOOLEAN
  /\ received \in Seq(1 .. MaxLen)
  /\ nacked \in BOOLEAN /\ expired \in BOOLEAN
  /\ calls \in 0 .. MaxCalls /\ faults \in 0 .. MaxFaults

\* After hal_i2c_init.
Init ==
  /\ step = "idle" /\ len = 0 /\ i = 0 /\ ret = TRUE
  /\ bus = "free" /\ flags = {} /\ startBit = FALSE /\ dr = 0 /\ shift = 0
  /\ held = FALSE
  /\ received = <<>> /\ nacked = FALSE /\ expired = FALSE
  /\ calls = 0 /\ faults = 0

--------------------------------------------------------------------------------
\* The peripheral and the device.
Fault == faults < MaxFaults /\ faults' = faults + 1

GenerateStart ==
  /\ startBit /\ bus = "free" /\ ~held
  /\ startBit' = FALSE
  /\ bus' = "started"
  /\ flags' = flags \cup {"SB"}
  /\ UNCHANGED <<step, callVars, i, ret, dr, shift, held, received, nacked, expired,
                 faults>>

\* AF stays set until software clears it.
AnswerAddress ==
  /\ bus = "address" /\ "ADDR" \notin flags /\ ~held
  /\ \/ /\ flags' = flags \cup {"ADDR"}
        /\ UNCHANGED <<bus, nacked, faults>>
     \/ /\ Fault
        /\ flags' = flags \cup {"AF"}
        /\ bus' = "nacked"
        /\ nacked' = TRUE
  /\ UNCHANGED <<step, callVars, i, ret, startBit, dr, shift, held, received, expired>>

LoadShift ==
  /\ bus = "data" /\ dr # 0 /\ shift = 0
  /\ shift' = dr
  /\ dr' = 0
  /\ flags' = flags \cup {"TxE"}
  /\ UNCHANGED <<step, callVars, i, ret, bus, startBit, held, received, nacked, expired,
                 faults>>

\* After a NACK neither TxE nor BTF is set any more.
AnswerByte ==
  /\ bus = "data" /\ shift # 0 /\ ~held
  /\ shift' = 0
  /\ \/ /\ received' = Append(received, shift)
        /\ flags' = IF dr = 0 THEN flags \cup {"BTF"} ELSE flags
        /\ UNCHANGED <<bus, nacked, faults>>
     \/ /\ Fault
        /\ flags' = (flags \ {"TxE"}) \cup {"AF"}
        /\ bus' = "nacked"
        /\ nacked' = TRUE
        /\ UNCHANGED received
  /\ UNCHANGED <<step, callVars, i, ret, startBit, dr, held, expired>>

GenerateStop ==
  /\ bus = "stopping" /\ ~held
  /\ bus' = "free"
  /\ UNCHANGED <<step, callVars, i, ret, flags, startBit, dr, shift, held, received,
                 nacked, expired, faults>>

Hardware == GenerateStart \/ AnswerAddress \/ LoadShift \/ AnswerByte \/ GenerateStop

\* The peripheral is going to take one of these steps.
HardwareMoves ==
  \/ bus = "data" /\ dr # 0 /\ shift = 0
  \/ /\ ~held
     /\ \/ startBit /\ bus = "free"
        \/ bus = "address" /\ "ADDR" \notin flags
        \/ bus = "data" /\ shift # 0
        \/ bus = "stopping"

Hold ==
  /\ ~held /\ Fault
  /\ held' = TRUE
  /\ UNCHANGED <<step, callVars, i, ret, busVars, nacked, expired>>

Release ==
  /\ held
  /\ held' = FALSE
  /\ UNCHANGED <<step, callVars, i, ret, busVars, nacked, expired, faults>>

Busy == bus # "free" \/ held

--------------------------------------------------------------------------------
\* hal_i2c_write.  All its callers pass at least two bytes; their number is irrelevant
\* here as long as there is one.
Call ==
  /\ step = "idle" /\ calls < MaxCalls
  /\ calls' = calls + 1
  /\ len' \in 1 .. MaxLen
  /\ i' = 0
  /\ received' = <<>>
  /\ nacked' = FALSE /\ expired' = FALSE
  /\ step' = "BUSY"
  /\ UNCHANGED <<ret, bus, flags, startBit, dr, shift, held, faults>>

Return(value) == step' = "idle" /\ ret' = value

\* i2c_send_stop: what has not gone out is given up.
Stop ==
  /\ bus' = "stopping"
  /\ flags' = flags \cap {"AF"}
  /\ dr' = 0 /\ shift' = 0

TimesOut(wait) ==
  /\ step = wait
  /\ ~HardwareMoves
  /\ expired' = TRUE

BusFree ==
  /\ step = "BUSY" /\ ~Busy
  /\ startBit' = TRUE
  /\ step' = "SB"
  /\ UNCHANGED <<callVars, i, ret, bus, flags, dr, shift, held, received, nacked, expired,
                 faults>>

BusyTimesOut ==
  /\ TimesOut("BUSY") /\ Busy
  /\ Return(FALSE)
  /\ UNCHANGED <<callVars, i, busVars, held, nacked, faults>>

\* i2c_send_7bit_address clears SB.
Started ==
  /\ step = "SB" /\ "SB" \in flags
  /\ flags' = flags \ {"SB"}
  /\ bus' = "address"
  /\ step' = "ADDR"
  /\ UNCHANGED <<callVars, i, ret, startBit, dr, shift, held, received, nacked, expired,
                 faults>>

\* Returns with the START request still pending.
StartTimesOut ==
  /\ TimesOut("SB") /\ "SB" \notin flags
  /\ Return(FALSE)
  /\ UNCHANGED <<callVars, i, busVars, held, nacked, faults>>

\* Reading SR2 clears ADDR and starts the data phase.
Addressed ==
  /\ step = "ADDR" /\ "ADDR" \in flags
  /\ flags' = (flags \ {"ADDR"}) \cup {"TxE"}
  /\ bus' = "data"
  /\ step' = "TxE"
  /\ UNCHANGED <<callVars, i, ret, startBit, dr, shift, held, received, nacked, expired,
                 faults>>

AddressRefused ==
  /\ step = "ADDR" /\ "ADDR" \notin flags /\ "AF" \in flags
  /\ Stop
  /\ Return(FALSE)
  /\ UNCHANGED <<callVars, i, startBit, held, received, nacked, expired, faults>>

AddressTimesOut ==
  /\ TimesOut("ADDR") /\ flags \cap {"ADDR", "AF"} = {}
  /\ Stop
  /\ Return(FALSE)
  /\ UNCHANGED <<callVars, i, startBit, held, received, nacked, faults>>

PutByteOneMore ==   \* mutant: i <= len
  /\ step = "TxE" /\ "TxE" \in flags
  /\ dr' = i + 1
  /\ flags' = flags \ {"TxE", "BTF"}
  /\ i' = i + 1
  /\ step' = IF i' > len THEN "BTF" ELSE "TxE"
  /\ UNCHANGED <<callVars, ret, bus, startBit, shift, held, received, nacked, expired,
                 faults>>

PutByteAtOnce ==   \* mutant: TxE is not waited for
  /\ step = "TxE"
  /\ dr' = i + 1
  /\ flags' = flags \ {"TxE", "BTF"}
  /\ i' = i + 1
  /\ step' = IF i' = len THEN "BTF" ELSE "TxE"
  /\ UNCHANGED <<callVars, ret, bus, startBit, shift, held, received, nacked, expired,
                 faults>>

PutByte ==
  /\ step = "TxE" /\ "TxE" \in flags
  /\ dr' = i + 1
  /\ flags' = flags \ {"TxE", "BTF"}
  /\ i' = i + 1
  /\ step' = IF i' = len THEN "BTF" ELSE "TxE"
  /\ UNCHANGED <<callVars, ret, bus, startBit, shift, held, received, nacked, expired,
                 faults>>

TxeWaitsForEver ==   \* mutant: no countdown
  /\ TimesOut("TxE") /\ "TxE" \notin flags
  /\ UNCHANGED vars

TxeTimesOut ==
  /\ TimesOut("TxE") /\ "TxE" \notin flags
  /\ Stop
  /\ Return(FALSE)
  /\ UNCHANGED <<callVars, i, startBit, held, received, nacked, faults>>

AllSentAtTxe ==   \* mutant: TxE, not BTF, is what is waited for
  /\ step = "BTF" /\ "TxE" \in flags
  /\ Stop
  /\ Return(TRUE)
  /\ UNCHANGED <<callVars, i, startBit, held, received, nacked, expired, faults>>

AllSent ==
  /\ step = "BTF" /\ "BTF" \in flags
  /\ Stop
  /\ Return(TRUE)
  /\ UNCHANGED <<callVars, i, startBit, held, received, nacked, expired, faults>>

\* The end of this countdown is not looked at.
BtfTimesOut ==
  /\ TimesOut("BTF") /\ "BTF" \notin flags
  /\ Stop
  /\ Return(TRUE)
  /\ UNCHANGED <<callVars, i, startBit, held, received, nacked, faults>>

--------------------------------------------------------------------------------
\* The rest of a call that has begun.
Driver == \/ BusFree \/ BusyTimesOut \/ Started \/ StartTimesOut
          \/ Addressed \/ AddressRefused \/ AddressTimesOut
          \/ PutByte \/ TxeTimesOut \/ AllSent \/ BtfTimesOut

Next == Call \/ Driver \/ Hardware \/ Hold \/ Release

\* The driver polls on and the peripheral moves when it can.  A device that holds the
\* bus need not let go.
Fairness == WF_vars(Driver) /\ WF_vars(Hardware)

Spec == Init /\ [][Next]_vars /\ Fairness

--------------------------------------------------------------------------------
\* The device gets the bytes of the buffer in order, from the first, none left out and
\* none twice, also when the write fails.
DeliveredInOrder == \A k \in 1 .. Len(received) : received[k] = k

\* While nothing goes wrong on the bus every write delivers all bytes and says so,
\* whatever the driver did before.
DeliversWhenNothingFails ==
  faults = 0 /\ calls > 0 /\ step = "idle" => ret /\ Len(received) = len

\* "true on success" (hal_i2c.h): with the STOP that gives up what has not gone out, and
\* whatever earlier writes have left in the peripheral, a write whose waits have all
\* ended in time returns true only when the device has every byte.
TrueMeansDelivered == step = "idle" /\ calls > 0 /\ ret /\ ~expired => Len(received) = len

\* "so the driver can handle errors without hanging" (docs/OLED_I2C_NOTES.md): every
\* write returns, also when a device holds the bus for ever.
EveryWriteReturns == step # "idle" ~> step = "idle"

\* "false on NACK or timeout" (hal_i2c.h): a write fails only because of what happened
\* on the bus while it ran.
FalseMeansNackOrTimeout == step = "idle" /\ ~ret => nacked \/ expired

\* "Every wait step (bus idle, SB, ADDR, TxE, BTF) has a countdown timeout and returns
\* false on failure or NACK" (docs/OLED_I2C_NOTES.md).
TrueMeansNoNackOrTimeout == step = "idle" /\ calls > 0 /\ ret => ~nacked /\ ~expired
================================================================================
