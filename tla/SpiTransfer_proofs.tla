-------------------------- MODULE SpiTransfer_proofs ---------------------------
(***************************************************************************)
(* Proofs about SpiTransfer for one calling task, which is what main       *)
(* starts, for transfers of every length and for every interrupt priority: *)
(* types, no byte lost, a transfer returns only when it is complete, and   *)
(* no lost wake-up below the syscall ceiling.                              *)
(***************************************************************************)
EXTENDS SpiTransfer, TLAPS

OneCaller == \E t : Task = {t}

--------------------------------------------------------------------------------
\* The inductive invariant.

InTake == {"take", "check", "mark", "enlist", "blocked", "collect"}

\* Nothing moves and nothing is left to move.
Landed ==
  rxOn = FALSE /\ rxLeft = 0 /\ txLeft = 0 /\ inFlight = 0 /\ rxne = FALSE

\* The streams are on, and what the receiver waits for is on its way.
Running ==
  /\ rxOn = TRUE /\ txOn = TRUE /\ tcif = FALSE
  /\ rxLeft > 0 /\ rxLeft = txLeft + inFlight + Bit(rxne)

\* A transfer runs, then its interrupt is pending, then the task has been notified.
Phase(t) ==
  /\ pc[t] \in {"idle", "arm_rx"} =>
       Landed /\ txOn = FALSE /\ tcif = FALSE /\ value[t] = 0
  /\ pc[t] = "arm_tx" =>
       /\ rxOn = TRUE /\ rxLeft > 0
       /\ txOn = FALSE /\ txLeft = 0 /\ inFlight = 0 /\ rxne = FALSE /\ tcif = FALSE
       /\ value[t] = 0
  /\ pc[t] \in InTake =>
       \/ Running /\ value[t] = 0
       \/ Landed /\ tcif = TRUE /\ value[t] = 0
       \/ Landed /\ tcif = FALSE /\ txOn = FALSE /\ value[t] = 1
  /\ pc[t] = "collect" => value[t] = 1

\* The kernel's record of the task.
Kernel(t) ==
  /\ critical = IF pc[t] \in {"check", "mark", "enlist"} THEN t ELSE NULL
  /\ pc[t] # "idle" => notify_task = t
  /\ value[t] = 0 /\ pc[t] \in {"enlist", "blocked"} => waiting[t] = TRUE

\* Below the ceiling the count cannot go up between the check and the suspension.
NotYet(t) == WithinCeiling /\ pc[t] \in {"mark", "enlist", "blocked"} => value[t] = 0

IInv == /\ TypeOK
        /\ overrun = FALSE
        /\ \A t \in Task : Phase(t) /\ Kernel(t) /\ NotYet(t)

\* The invariant holds at the start, and every step of one caller keeps it.
LEMMA InitIInv == Init => IInv
<1> SUFFICES ASSUME Init PROVE IInv
  OBVIOUS
<1>1. TypeOK
  <2>1. /\ txOn \in BOOLEAN /\ rxOn \in BOOLEAN /\ rxne \in BOOLEAN
        /\ overrun \in BOOLEAN /\ tcif \in BOOLEAN
    BY Zenon DEF Init
  <2>2. waiting \in [Task -> BOOLEAN]
    BY DEF Init
  <2> QED
    BY <2>1, <2>2, SpiAssumption DEF Init, TypeOK, Step
<1>2. ASSUME NEW t \in Task PROVE Phase(t) /\ Kernel(t) /\ NotYet(t)
  <2>1. pc[t] = "idle" /\ value[t] = 0
    BY DEF Init
  <2>2. Landed /\ txOn = FALSE /\ tcif = FALSE /\ critical = NULL
    BY DEF Init, Landed
  <2>3. Phase(t) /\ NotYet(t)
    BY <2>1, <2>2 DEF Phase, NotYet, InTake
  <2>4. Kernel(t)
    BY <2>1, <2>2 DEF Kernel
  <2> QED
    BY <2>3, <2>4
<1>3. overrun = FALSE
  BY DEF Init
<1> QED
  BY <1>1, <1>2, <1>3 DEF IInv

\* One step at a time: what it changes of the one task's record and of the hardware.
LEMMA NextIInv == OneCaller /\ IInv /\ [Next]_vars => IInv'
<1> SUFFICES ASSUME NEW t, Task = {t}, IInv, [Next]_vars
             PROVE  IInv'
  BY DEF OneCaller
<1>a. /\ TypeOK /\ overrun = FALSE /\ Phase(t) /\ Kernel(t) /\ NotYet(t)
      /\ t \in Task /\ NULL # t
  BY SpiAssumption DEF IInv
<1>b. /\ pc \in [Task -> Step] /\ value \in [Task -> Nat] /\ waiting \in [Task -> BOOLEAN]
      /\ txLeft \in 0 .. MaxLen /\ rxLeft \in 0 .. MaxLen /\ inFlight \in 0 .. 2
      /\ MaxLen \in Nat
  BY <1>a, SpiAssumption DEF TypeOK
<1> SUFFICES TypeOK' /\ overrun' = FALSE /\ Phase(t)' /\ Kernel(t)' /\ NotYet(t)'
  BY DEF IInv
<1> USE DEF At, Goto, taskVars, kernelVars, dmaVars, spiVars, irqVars
<1>1. CASE Begin(t)
  <2>1. pc[t] = "idle" /\ pc'[t] = "arm_rx" /\ critical = NULL
    BY <1>a, <1>b, <1>1 DEF Begin, Kernel
  <2>2. TypeOK'
    BY <1>a, <1>1 DEF Begin, TypeOK, Step
  <2>3. Phase(t)'
    BY <1>a, <1>1, <2>1 DEF Begin, Phase, InTake, Landed
  <2>4. Kernel(t)' /\ NotYet(t)'
    BY <1>1, <2>1 DEF Begin, Kernel, NotYet
  <2> QED
    BY <1>a, <1>1, <2>2, <2>3, <2>4 DEF Begin
<1>2. CASE ArmRx(t)
  <2>1. pc[t] = "arm_rx" /\ pc'[t] = "arm_tx" /\ critical = NULL
    BY <1>a, <1>b, <1>2 DEF ArmRx, Kernel
  <2>2. TypeOK'
    <3>1. rxLeft' \in 0 .. MaxLen /\ pc' \in [Task -> Step]
      BY <1>b, <1>2 DEF ArmRx, Step
    <3>2. rxOn' = TRUE /\ tcif' = FALSE
      BY <1>2 DEF ArmRx
    <3> QED
      BY <1>a, <1>2, <3>1, <3>2 DEF ArmRx, TypeOK
  <2>3. Phase(t)'
    BY <1>a, <1>b, <1>2, <2>1 DEF ArmRx, Phase, InTake, Landed
  <2>4. Kernel(t)' /\ NotYet(t)'
    BY <1>a, <1>2, <2>1 DEF ArmRx, Kernel, NotYet
  <2> QED
    BY <1>a, <1>2, <2>2, <2>3, <2>4 DEF ArmRx
<1>3. CASE ArmTx(t)
  <2>1. pc[t] = "arm_tx" /\ pc'[t] = "take" /\ critical = NULL
    BY <1>a, <1>b, <1>3 DEF ArmTx, Kernel
  <2>2. TypeOK'
    BY <1>a, <1>b, <1>3 DEF ArmTx, TypeOK, Step
  <2>3. Phase(t)'
    BY <1>a, <1>b, <1>3, <2>1 DEF ArmTx, Phase, InTake, Running, Bit
  <2>4. Kernel(t)' /\ NotYet(t)'
    BY <1>a, <1>3, <2>1 DEF ArmTx, Kernel, NotYet
  <2> QED
    BY <1>a, <1>3, <2>2, <2>3, <2>4 DEF ArmTx
<1>4. CASE TakeEnter(t)
  <2>1. pc[t] = "take" /\ pc'[t] = "check" /\ critical' = t
    BY <1>a, <1>b, <1>4 DEF TakeEnter
  <2>2. TypeOK'
    BY <1>a, <1>4 DEF TakeEnter, TypeOK, Step
  <2>3. Phase(t)'
    BY <1>a, <1>4, <2>1 DEF TakeEnter, Phase, InTake, Running, Landed
  <2>4. Kernel(t)' /\ NotYet(t)'
    BY <1>a, <1>4, <2>1 DEF TakeEnter, Kernel, NotYet
  <2> QED
    BY <1>a, <1>4, <2>2, <2>3, <2>4 DEF TakeEnter
<1>5. CASE TakeCheck(t)
  <2>1. /\ pc[t] = "check"
        /\ \/ value[t] = 0 /\ pc'[t] = "mark" /\ critical' = critical
           \/ value[t] > 0 /\ pc'[t] = "collect" /\ critical' = NULL
    BY <1>a, <1>b, <1>5 DEF TakeCheck
  <2>2. TypeOK'
    BY <1>a, <1>5 DEF TakeCheck, TypeOK, Step
  <2>3. Phase(t)'
    BY <1>a, <1>b, <1>5, <2>1 DEF TakeCheck, Phase, InTake, Running, Landed
  <2>4. Kernel(t)' /\ NotYet(t)'
    BY <1>a, <1>b, <1>5, <2>1 DEF TakeCheck, Kernel, NotYet
  <2> QED
    BY <1>a, <1>5, <2>2, <2>3, <2>4 DEF TakeCheck
<1>6. CASE TakeMark(t)
  <2>1. pc[t] = "mark" /\ pc'[t] = "enlist" /\ waiting'[t] = TRUE /\ critical' = critical
    BY <1>a, <1>b, <1>6 DEF TakeMark
  <2>2. TypeOK'
    BY <1>a, <1>6 DEF TakeMark, TypeOK, Step
  <2>3. Phase(t)'
    BY <1>a, <1>6, <2>1 DEF TakeMark, Phase, InTake, Running, Landed
  <2>4. Kernel(t)' /\ NotYet(t)'
    BY <1>a, <1>6, <2>1 DEF TakeMark, Kernel, NotYet, WithinCeiling
  <2> QED
    BY <1>a, <1>6, <2>2, <2>3, <2>4 DEF TakeMark
<1>7. CASE TakeEnlist(t)
  <2>1. pc[t] = "enlist" /\ pc'[t] = "blocked" /\ critical' = NULL
    BY <1>a, <1>b, <1>7 DEF TakeEnlist
  <2>2. TypeOK'
    BY <1>a, <1>7 DEF TakeEnlist, TypeOK, Step
  <2>3. Phase(t)'
    BY <1>a, <1>7, <2>1 DEF TakeEnlist, Phase, InTake, Running, Landed
  <2>4. Kernel(t)' /\ NotYet(t)'
    BY <1>a, <1>7, <2>1 DEF TakeEnlist, Kernel, NotYet, WithinCeiling
  <2> QED
    BY <1>a, <1>7, <2>2, <2>3, <2>4 DEF TakeEnlist
<1>8. CASE TakeCollect(t)
  <2>1. pc[t] = "collect" /\ pc'[t] = "idle" /\ value'[t] = 0 /\ critical' = critical
    BY <1>a, <1>b, <1>8 DEF TakeCollect
  <2>2. TypeOK'
    BY <1>a, <1>8 DEF TakeCollect, TypeOK, Step
  <2>3. Phase(t)'
    BY <1>a, <1>8, <2>1 DEF TakeCollect, Phase, InTake, Running, Landed
  <2>4. Kernel(t)' /\ NotYet(t)'
    BY <1>a, <1>8, <2>1 DEF TakeCollect, Kernel, NotYet
  <2> QED
    BY <1>a, <1>8, <2>2, <2>3, <2>4 DEF TakeCollect
<1>c. ASSUME inFlight > 0 \/ (txOn = TRUE /\ txLeft > 0) \/ rxne = TRUE
      PROVE  Running /\ value[t] = 0 /\ pc[t] \in InTake /\ pc[t] # "collect"
  BY <1>a, <1>b, <1>c DEF Phase, InTake, Landed, Step
<1>9. CASE Transmit
  <2>1. Running /\ value[t] = 0 /\ pc[t] \in InTake /\ pc[t] # "collect"
    BY <1>9, <1>c, <1>a DEF Transmit, TypeOK
  <2>2. TypeOK'
    BY <1>a, <1>b, <1>9 DEF Transmit, TypeOK
  <2>3. Running'
    BY <1>b, <1>9, <2>1 DEF Transmit, Running, Bit
  <2> QED
    BY <1>a, <1>9, <2>1, <2>2, <2>3
    DEF Transmit, Phase, Kernel, NotYet, InTake, WithinCeiling
<1>10. CASE ShiftIn
  <2>1. Running /\ value[t] = 0 /\ pc[t] \in InTake /\ pc[t] # "collect"
    BY <1>10, <1>c DEF ShiftIn
  <2>2. rxne = FALSE
    BY <1>a, <1>10, <2>1 DEF ShiftIn, Running, TypeOK
  <2>3. overrun' = FALSE
    BY <1>a, <1>10, <2>2 DEF ShiftIn
  <2>4. TypeOK'
    BY <1>a, <1>b, <1>10, <2>3 DEF ShiftIn, TypeOK
  <2>5. Running'
    BY <1>b, <1>10, <2>1, <2>2 DEF ShiftIn, Running, Bit
  <2> QED
    BY <1>a, <1>10, <2>1, <2>3, <2>4, <2>5
    DEF ShiftIn, Phase, Kernel, NotYet, InTake, WithinCeiling
<1>11. CASE Store
  <2>1. rxne = TRUE
    BY <1>a, <1>11 DEF Store, TypeOK
  <2>2. Running /\ value[t] = 0 /\ pc[t] \in InTake /\ pc[t] # "collect"
    BY <1>c, <2>1
  <2>3. /\ rxLeft' = rxLeft - 1 /\ rxne' = FALSE
        /\ UNCHANGED <<taskVars, kernelVars, txOn, txLeft, inFlight, overrun, rxIrqPriority>>
    BY <1>11, Zenon DEF Store
  <2>4. /\ rxLeft > 1 => rxOn' = TRUE /\ tcif' = FALSE
        /\ rxLeft = 1 => rxOn' = FALSE /\ tcif' = TRUE
    <3>1. rxOn' = (rxLeft > 1) /\ tcif' = (rxLeft = 1)
      BY <1>11, Zenon DEF Store
    <3>2. /\ rxLeft > 1 => (rxLeft > 1) = TRUE /\ (rxLeft = 1) = FALSE
          /\ rxLeft = 1 => (rxLeft > 1) = FALSE /\ (rxLeft = 1) = TRUE
      BY <1>b
    <3> QED
      BY <3>1, <3>2, Zenon
  <2>5. rxLeft \in Nat /\ rxLeft > 0
    BY <1>b, <2>2 DEF Running
  <2>6. rxLeft > 1 \/ rxLeft = 1
    BY <2>5
  <2>7. TypeOK'
    <3>1. rxLeft' \in 0 .. MaxLen
      BY <1>b, <2>3, <2>5
    <3>2. rxOn' \in BOOLEAN /\ tcif' \in BOOLEAN
      BY <2>4, <2>6, Zenon
    <3> QED
      BY <1>a, <2>3, <3>1, <3>2 DEF TypeOK
  <2>8. CASE rxLeft > 1
    <3>1. Running'
      BY <1>b, <2>1, <2>2, <2>3, <2>4, <2>8 DEF Running, Bit
    <3> QED
      BY <1>a, <2>2, <2>3, <2>7, <3>1
      DEF Phase, Kernel, NotYet, InTake, WithinCeiling
  <2>9. CASE rxLeft = 1
    <3>1. Landed' /\ tcif' = TRUE
      BY <1>b, <2>1, <2>2, <2>3, <2>4, <2>9 DEF Running, Landed, Bit
    <3> QED
      BY <1>a, <2>2, <2>3, <2>7, <3>1
      DEF Phase, Kernel, NotYet, InTake, WithinCeiling
  <2> QED
    BY <2>8, <2>9, <2>6, Zenon
<1>12. CASE dma2_stream0_isr
  <2>1. tcif = TRUE
    BY <1>a, <1>12 DEF dma2_stream0_isr, TypeOK
  <2>2. Landed /\ value[t] = 0 /\ pc[t] \in InTake /\ pc[t] # "collect"
    BY <1>a, <1>b, <2>1 DEF Phase, InTake, Running, Step
  <2>3. notify_task = t
    BY <1>a, <2>2 DEF Kernel, InTake
  <2>4. /\ value' = [value EXCEPT ![t] = value[t] + 1]
        /\ waiting' = [waiting EXCEPT ![t] = FALSE]
        /\ IF waiting[t] /\ pc[t] = "blocked"
           THEN pc' = [pc EXCEPT ![t] = "collect"] ELSE pc' = pc
    BY <1>12, <2>3 DEF dma2_stream0_isr, GiveFromISR
  <2>5. value'[t] = 1 /\ value' \in [Task -> Nat] /\ waiting' \in [Task -> BOOLEAN]
    BY <1>b, <1>a, <2>2, <2>4
  <2>6. CASE pc[t] = "blocked"
    <3>1. waiting[t] = TRUE
      BY <1>a, <2>2, <2>6 DEF Kernel
    <3>2. pc'[t] = "collect" /\ pc' \in [Task -> Step]
      BY <1>a, <1>b, <2>4, <2>6, <3>1 DEF Step
    <3>3. TypeOK'
      BY <1>a, <1>12, <2>5, <3>2 DEF dma2_stream0_isr, TypeOK
    <3>4. Phase(t)'
      BY <1>12, <2>2, <2>5, <3>2 DEF dma2_stream0_isr, Phase, InTake, Landed
    <3>5. Kernel(t)' /\ NotYet(t)'
      BY <1>a, <1>12, <2>3, <2>5, <2>6, <3>2 DEF dma2_stream0_isr, Kernel, NotYet
    <3> QED
      BY <1>a, <1>12, <3>3, <3>4, <3>5 DEF dma2_stream0_isr
  <2>7. CASE pc[t] # "blocked"
    <3>1. pc' = pc
      BY <2>4, <2>7
    <3>2. TypeOK'
      BY <1>a, <1>12, <2>5, <3>1 DEF dma2_stream0_isr, TypeOK
    <3>3. Phase(t)'
      BY <1>12, <2>2, <2>5, <3>1 DEF dma2_stream0_isr, Phase, InTake, Landed
    <3>4. Kernel(t)'
      BY <1>a, <1>12, <2>3, <2>5, <3>1 DEF dma2_stream0_isr, Kernel
    <3>5. NotYet(t)'
      BY <1>a, <1>12, <2>7, <3>1
      DEF dma2_stream0_isr, Kernel, NotYet, Masked, WithinCeiling
    <3> QED
      BY <1>a, <1>12, <3>2, <3>3, <3>4, <3>5 DEF dma2_stream0_isr
  <2> QED
    BY <2>6, <2>7
<1>13. CASE UNCHANGED vars
  BY <1>a, <1>13
  DEF vars, TypeOK, Phase, Kernel, NotYet, Landed, Running, WithinCeiling
<1> QED
  BY <1>1, <1>2, <1>3, <1>4, <1>5, <1>6, <1>7, <1>8, <1>9, <1>10, <1>11, <1>12, <1>13
  DEF Next, Rest

--------------------------------------------------------------------------------
\* With one caller, every variable keeps its type: the byte counts of both streams stay
\* within the length they were armed with.
THEOREM TypeCorrect ==
  ASSUME OneCaller
  PROVE  Spec => []TypeOK
<1>1. IInv => TypeOK
  BY DEF IInv
<1>2. IInv /\ [Next]_vars => IInv'
  BY NextIInv
<1> QED
  BY <1>1, <1>2, InitIInv, PTL DEF Spec

\* The receive stream is armed before the transmit stream, so no byte that comes in
\* finds the one before it unread, whatever the length of the transfer.
THEOREM BytesAllStored ==
  ASSUME OneCaller
  PROVE  Spec => []NoByteLost
<1>1. IInv => NoByteLost
  BY Zenon DEF IInv, NoByteLost
<1>2. IInv /\ [Next]_vars => IInv'
  BY NextIInv
<1> QED
  BY <1>1, <1>2, InitIInv, PTL DEF Spec

\* A task that sleeps below the syscall ceiling has an interrupt on its way: for every
\* ceiling, every priority within it and every length.
THEOREM WakeupsReach ==
  ASSUME OneCaller
  PROVE  Spec => []NoLostWakeup
<1>1. IInv => NoLostWakeup
  <2> SUFFICES ASSUME IInv, NEW t \in Task, pc[t] = "blocked", WithinCeiling
               PROVE  /\ notify_task = t
                      /\ \/ tcif
                         \/ /\ rxOn /\ rxLeft > 0
                            /\ txLeft + inFlight + Bit(rxne) >= rxLeft
    BY DEF NoLostWakeup
  <2>1. Phase(t) /\ Kernel(t) /\ NotYet(t) /\ rxLeft \in Nat
    BY SpiAssumption DEF IInv, TypeOK
  <2>2. value[t] = 0 /\ notify_task = t
    BY <2>1 DEF NotYet, Kernel
  <2>3. Running \/ tcif = TRUE
    BY <2>1, <2>2 DEF Phase, InTake
  <2>4. Running => /\ rxOn /\ rxLeft > 0
                   /\ txLeft + inFlight + Bit(rxne) >= rxLeft
    BY <2>1 DEF Running
  <2> QED
    BY <2>2, <2>3, <2>4, Zenon
<1>2. IInv /\ [Next]_vars => IInv'
  BY NextIInv
<1> QED
  BY <1>1, <1>2, InitIInv, PTL DEF Spec

\* hal_spi_transfer does not return before its last byte is stored and both streams are
\* off, at any priority of the interrupt: no notification outlives its transfer.
THEOREM ReturnMeansDone ==
  ASSUME OneCaller
  PROVE  Spec => ReturnsOnlyWhenDone
<1>1. IInv => \A t \in Task : pc[t] = "collect" => TransferComplete
  <2> SUFFICES ASSUME IInv, NEW t \in Task, pc[t] = "collect"
               PROVE  TransferComplete
    OBVIOUS
  <2>1. Phase(t)
    BY DEF IInv
  <2>2. Landed /\ txOn = FALSE
    BY <2>1 DEF Phase, InTake
  <2> QED
    BY <2>2, Zenon DEF Landed, TransferComplete
<1>2. IInv /\ [Next]_vars =>
        [\A t \in Task : pc[t] = "collect" /\ pc'[t] = "idle" => TransferComplete]_pc
  BY <1>1
<1>3. IInv /\ [Next]_vars => IInv'
  BY NextIInv
<1> QED
  BY <1>2, <1>3, InitIInv, PTL DEF Spec, ReturnsOnlyWhenDone

================================================================================
