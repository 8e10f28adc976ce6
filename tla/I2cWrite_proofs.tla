---------------------------- MODULE I2cWrite_proofs ----------------------------
(***************************************************************************)
(* Proofs about hal_i2c_write for writes of every length, any number of    *)
(* calls and of faults: types, what the device has got, what "true" means, *)
(* and that an undisturbed bus makes every write succeed.                  *)
(***************************************************************************)
EXTENDS I2cWrite, TLAPS

One(byte) == IF byte = 0 THEN 0 ELSE 1

InData == step \in {"TxE", "BTF"}

\* In front of the data phase nothing is on its way; in it, what the driver has put and
\* the device has not acknowledged is in the two registers, one byte behind the other.
Pipeline ==
  /\ ~InData => dr = 0 /\ shift = 0 /\ bus # "data" /\ flags \cap {"TxE", "BTF"} = {}
  /\ step \in {"BUSY", "SB", "ADDR"} => i = 0 /\ received = <<>>
  /\ step # "idle" => len > 0
  /\ InData =>
       /\ bus \in {"data", "nacked"}
       /\ dr # 0 => dr = i
       /\ shift # 0 => bus = "data" /\ shift = Len(received) + 1
       /\ i = Len(received) + One(shift) + One(dr) + (IF bus = "nacked" THEN 1 ELSE 0)
       /\ "TxE" \in flags => bus = "data" /\ dr = 0
       /\ "BTF" \in flags => bus = "data" /\ dr = 0 /\ shift = 0
  /\ step = "TxE" => i < len
  /\ step = "BTF" => i = len

\* While no fault has occurred the peripheral is always about to do what is waited for.
Undisturbed ==
  faults = 0 =>
    /\ held = FALSE /\ "AF" \notin flags /\ bus # "nacked"
    /\ step \in {"idle", "BUSY"} =>
         startBit = FALSE /\ bus \in {"free", "stopping"} /\ "SB" \notin flags
    /\ step = "SB" /\ "SB" \notin flags => startBit = TRUE /\ bus = "free"
    /\ step \in {"ADDR", "TxE", "BTF"} => startBit = FALSE /\ "SB" \notin flags
    /\ step = "SB" /\ "SB" \in flags => startBit = FALSE
    /\ step = "ADDR" => bus = "address"
    /\ InData => "TxE" \in flags \/ dr # 0
    /\ InData /\ dr = 0 /\ shift = 0 /\ i > 0 => "BTF" \in flags

\* TypeOK in two halves.
Bits == /\ ret \in BOOLEAN /\ startBit \in BOOLEAN /\ held \in BOOLEAN
        /\ nacked \in BOOLEAN /\ expired \in BOOLEAN

Ranges ==
  /\ step \in {"idle", "BUSY", "SB", "ADDR", "TxE", "BTF"}
  /\ len \in 0 .. MaxLen /\ i \in 0 .. len
  /\ bus \in {"free", "started", "address", "data", "nacked", "stopping"}
  /\ flags \subseteq Flag
  /\ dr \in 0 .. MaxLen /\ shift \in 0 .. MaxLen
  /\ received \in Seq(1 .. MaxLen)
  /\ calls \in 0 .. MaxCalls /\ faults \in 0 .. MaxFaults

\* TypeOK is the two together.
LEMMA RangesAndBits == /\ TypeOK <=> Ranges /\ Bits
                       /\ TypeOK' <=> Ranges' /\ Bits'
  BY Zenon DEF TypeOK, Ranges, Bits

\* What software and hardware do to the flags leaves flags.
LEMMA FlagSets ==
  \A f : f \subseteq Flag =>
    /\ f \cap {"AF"} \subseteq Flag
    /\ \A bit \in Flag : f \cup {bit} \subseteq Flag
    /\ f \cup {"ADDR"} \subseteq Flag /\ f \cup {"AF"} \subseteq Flag
    /\ f \cup {"BTF"} \subseteq Flag
    /\ (f \ {"TxE"}) \cup {"AF"} \subseteq Flag
  BY DEF Flag

\* One more byte makes a longer sequence of bytes.
LEMMA Appended ==
  ASSUME NEW S, NEW s \in Seq(S), NEW e \in S
  PROVE  Append(s, e) \in Seq(S)
  OBVIOUS

Results == DeliveredInOrder /\ TrueMeansDelivered /\ DeliversWhenNothingFails

IInv == TypeOK /\ Pipeline /\ Undisturbed /\ Results

--------------------------------------------------------------------------------
\* Every step keeps the parts of the invariant, one after the other.
LEMMA InitIInv == Init => IInv
<1> SUFFICES ASSUME Init PROVE IInv
  OBVIOUS
<1> USE I2cAssumption DEF Init
<1>1. TypeOK
  <2>1. Ranges
    BY DEF Ranges, Flag
  <2>2. Bits
    BY Zenon DEF Bits
  <2> QED
    BY <2>1, <2>2, RangesAndBits
<1>2. Pipeline /\ Undisturbed
  BY DEF Pipeline, Undisturbed, InData
<1>3. Results
  BY DEF Results, DeliveredInOrder, TrueMeansDelivered, DeliversWhenNothingFails
<1> QED
  BY <1>1, <1>2, <1>3 DEF IInv

\* Truth values.
LEMMA NextBits == IInv /\ [Next]_vars => Bits'
<1> SUFFICES ASSUME IInv, [Next]_vars PROVE Bits'
  OBVIOUS
<1> USE I2cAssumption DEF callVars, busVars, IInv, Bits, TypeOK
<1>1. CASE Call
  BY <1>1, Zenon DEF Call
<1>2. CASE BusFree
  BY <1>2, Zenon DEF BusFree, Busy
<1>3. CASE BusyTimesOut
  BY <1>3, Zenon DEF BusyTimesOut, TimesOut, HardwareMoves, Busy, Return
<1>4. CASE Started
  BY <1>4, Zenon DEF Started
<1>5. CASE StartTimesOut
  BY <1>5, Zenon DEF StartTimesOut, TimesOut, HardwareMoves, Return
<1>6. CASE Addressed
  BY <1>6, Zenon DEF Addressed
<1>7. CASE AddressRefused
  BY <1>7, Zenon DEF AddressRefused, Return, Stop
<1>8. CASE AddressTimesOut
  BY <1>8, Zenon DEF AddressTimesOut, TimesOut, HardwareMoves, Return, Stop
<1>9. CASE PutByte
  BY <1>9, Zenon DEF PutByte
<1>10. CASE TxeTimesOut
  BY <1>10, Zenon DEF TxeTimesOut, TimesOut, HardwareMoves, Return, Stop
<1>11. CASE AllSent
  BY <1>11, Zenon DEF AllSent, Return, Stop
<1>12. CASE BtfTimesOut
  BY <1>12, Zenon DEF BtfTimesOut, TimesOut, HardwareMoves, Return, Stop
<1>13. CASE GenerateStart
  BY <1>13, Zenon DEF GenerateStart
<1>14. CASE AnswerAddress
  BY <1>14, Zenon DEF AnswerAddress, Fault
<1>15. CASE LoadShift
  BY <1>15, Zenon DEF LoadShift
<1>16. CASE AnswerByte
  BY <1>16, Zenon DEF AnswerByte, Fault
<1>17. CASE GenerateStop
  BY <1>17, Zenon DEF GenerateStop
<1>18. CASE Hold
  BY <1>18, Zenon DEF Hold, Fault
<1>19. CASE Release
  BY <1>19, Zenon DEF Release
<1>20. CASE UNCHANGED vars
  BY <1>20, Zenon DEF vars
<1> QED
  BY <1>1, <1>2, <1>3, <1>4, <1>5, <1>6, <1>7, <1>8, <1>9, <1>10, <1>11, <1>12,
     <1>13, <1>14, <1>15, <1>16, <1>17, <1>18, <1>19, <1>20
  DEF Next, Driver, Hardware

\* A byte is put only while some are left, so no register and no count leaves its range.
LEMMA NextRanges == IInv /\ [Next]_vars => Ranges'
<1> SUFFICES ASSUME IInv, [Next]_vars PROVE Ranges'
  OBVIOUS
<1> USE I2cAssumption DEF callVars, busVars, InData, One, Flag,
       IInv, TypeOK, Pipeline, Ranges
<1>1. CASE Call
  BY <1>1 DEF Call
<1>2. CASE BusFree
  BY <1>2 DEF BusFree, Busy
<1>3. CASE BusyTimesOut
  BY <1>3 DEF BusyTimesOut, TimesOut, HardwareMoves, Busy, Return
<1>4. CASE Started
  BY <1>4 DEF Started
<1>5. CASE StartTimesOut
  BY <1>5 DEF StartTimesOut, TimesOut, HardwareMoves, Return
<1>6. CASE Addressed
  BY <1>6 DEF Addressed
<1>7. CASE AddressRefused
  BY <1>7 DEF AddressRefused, Return, Stop
<1>8. CASE AddressTimesOut
  BY <1>8 DEF AddressTimesOut, TimesOut, HardwareMoves, Return, Stop
<1>9. CASE PutByte
  BY <1>9 DEF PutByte
<1>10. CASE TxeTimesOut
  <2>1. flags' \subseteq Flag
    BY <1>10, FlagSets DEF TxeTimesOut, TimesOut, HardwareMoves, Return, Stop
  <2>2. step' = "idle" /\ bus' = "stopping" /\ dr' = 0 /\ shift' = 0
    BY <1>10 DEF TxeTimesOut, TimesOut, HardwareMoves, Return, Stop
  <2>3. UNCHANGED <<len, i, received, calls, faults>>
    BY <1>10, Zenon DEF TxeTimesOut, TimesOut, HardwareMoves, Return, Stop
  <2> QED
    BY <2>1, <2>2, <2>3
<1>11. CASE AllSent
  BY <1>11 DEF AllSent, Return, Stop
<1>12. CASE BtfTimesOut
  <2>1. flags' \subseteq Flag
    BY <1>12, FlagSets DEF BtfTimesOut, TimesOut, HardwareMoves, Return, Stop
  <2>2. step' = "idle" /\ bus' = "stopping" /\ dr' = 0 /\ shift' = 0
    BY <1>12 DEF BtfTimesOut, TimesOut, HardwareMoves, Return, Stop
  <2>3. UNCHANGED <<len, i, received, calls, faults>>
    BY <1>12, Zenon DEF BtfTimesOut, TimesOut, HardwareMoves, Return, Stop
  <2> QED
    BY <2>1, <2>2, <2>3
<1>13. CASE GenerateStart
  BY <1>13 DEF GenerateStart
<1>14. CASE AnswerAddress
  <2>1. flags' \subseteq Flag
    <3>1. flags' \in {flags \cup {"ADDR"}, flags \cup {"AF"}}
      BY <1>14 DEF AnswerAddress, Fault
    <3> QED
      BY <3>1, FlagSets
  <2>2. bus' \in {bus, "nacked"} /\ faults' \in 0 .. MaxFaults
    BY <1>14 DEF AnswerAddress, Fault
  <2> QED
    BY <1>14, <2>1, <2>2 DEF AnswerAddress
<1>15. CASE LoadShift
  BY <1>15 DEF LoadShift
<1>16. CASE AnswerByte
  <2>1. received' \in Seq(1 .. MaxLen)
    <3>1. shift \in 1 .. MaxLen
      BY <1>16 DEF AnswerByte, Fault
    <3>2. received' = received \/ received' = Append(received, shift)
      BY <1>16 DEF AnswerByte, Fault
    <3>3. received \in Seq(1 .. MaxLen)
      OBVIOUS
    <3>4. Append(received, shift) \in Seq(1 .. MaxLen)
      <4> HIDE DEF IInv
      <4> QED
        BY <3>1, <3>3, Appended
    <3> QED
      BY Zenon, <3>2, <3>3, <3>4
  <2>2. flags' \subseteq Flag
    <3>1. \/ flags' \in {flags, flags \cup {"BTF"}}
          \/ flags' = (flags \ {"TxE"}) \cup {"AF"}
      BY <1>16 DEF AnswerByte, Fault
    <3> QED
      BY <3>1, FlagSets DEF Flag
  <2>3. faults' \in 0 .. MaxFaults
    BY <1>16 DEF AnswerByte, Fault
  <2> QED
    BY <1>16, <2>1, <2>2, <2>3 DEF AnswerByte
<1>17. CASE GenerateStop
  BY <1>17 DEF GenerateStop
<1>18. CASE Hold
  BY <1>18 DEF Hold, Fault
<1>19. CASE Release
  BY <1>19 DEF Release
<1>20. CASE UNCHANGED vars
  BY <1>20 DEF vars
<1> QED
  BY <1>1, <1>2, <1>3, <1>4, <1>5, <1>6, <1>7, <1>8, <1>9, <1>10, <1>11, <1>12,
     <1>13, <1>14, <1>15, <1>16, <1>17, <1>18, <1>19, <1>20
  DEF Next, Driver, Hardware

\* Bytes move from dr to shift to the device, or are given up with the STOP.
LEMMA NextPipeline == IInv /\ [Next]_vars => Pipeline'
<1> SUFFICES ASSUME IInv, [Next]_vars PROVE Pipeline'
  OBVIOUS
<1> USE I2cAssumption DEF callVars, busVars, InData, One, Flag,
       IInv, TypeOK, Pipeline
<1>1. CASE Call
  BY <1>1 DEF Call
<1>2. CASE BusFree
  BY <1>2 DEF BusFree, Busy
<1>3. CASE BusyTimesOut
  BY <1>3 DEF BusyTimesOut, TimesOut, HardwareMoves, Busy, Return
<1>4. CASE Started
  BY <1>4 DEF Started
<1>5. CASE StartTimesOut
  BY <1>5 DEF StartTimesOut, TimesOut, HardwareMoves, Return
<1>6. CASE Addressed
  BY <1>6 DEF Addressed
<1>7. CASE AddressRefused
  BY <1>7 DEF AddressRefused, Return, Stop
<1>8. CASE AddressTimesOut
  BY <1>8 DEF AddressTimesOut, TimesOut, HardwareMoves, Return, Stop
<1>9. CASE PutByte
  <2>1. bus = "data" /\ dr = 0 /\ dr' = i + 1 /\ i' = i + 1 /\ i \in Nat
    BY <1>9 DEF PutByte
  <2>2. InData /\ InData'
    BY <1>9 DEF PutByte
  <2>3. /\ "TxE" \notin flags' /\ "BTF" \notin flags'
        /\ UNCHANGED <<bus, shift, received, len>>
    BY <1>9 DEF PutByte
  <2>4. (step' = "TxE" => i' < len') /\ (step' = "BTF" => i' = len') /\ len > 0
    BY <1>9 DEF PutByte
  <2>5. /\ i = Len(received) + One(shift)
        /\ shift # 0 => shift = Len(received) + 1
    BY <2>1, <2>2
  <2>6. Len(received) \in Nat
    OBVIOUS
  <2>7. One(dr') = 1 /\ One(shift') = One(shift) /\ One(shift) \in 0 .. 1
    BY <2>1, <2>3 DEF One
  <2>8. i' = Len(received') + One(shift') + One(dr') + (IF bus' = "nacked" THEN 1 ELSE 0)
    <3> HIDE DEF IInv, One
    <3> QED
      BY <2>1, <2>3, <2>5, <2>6, <2>7
  <2> HIDE DEF IInv, One
  <2> QED
    BY <2>1, <2>2, <2>3, <2>4, <2>5, <2>8
<1>10. CASE TxeTimesOut
  BY <1>10 DEF TxeTimesOut, TimesOut, HardwareMoves, Return, Stop
<1>11. CASE AllSent
  BY <1>11 DEF AllSent, Return, Stop
<1>12. CASE BtfTimesOut
  BY <1>12 DEF BtfTimesOut, TimesOut, HardwareMoves, Return, Stop
<1>13. CASE GenerateStart
  BY <1>13 DEF GenerateStart
<1>14. CASE AnswerAddress
  BY <1>14 DEF AnswerAddress, Fault
<1>15. CASE LoadShift
  BY <1>15 DEF LoadShift
<1>16. CASE AnswerByte
  <2>1. /\ InData /\ InData' /\ shift' = 0
        /\ dr' = dr /\ i' = i /\ len' = len /\ step' = step
    BY <1>16 DEF AnswerByte, Fault
  <2>2. CASE bus' = bus
    <3>1. received' = Append(received, shift) /\ Len(received') = Len(received) + 1
      BY <1>16, <2>2 DEF AnswerByte, Fault
    <3>2. "TxE" \in flags' => dr = 0
      BY <1>16, <2>2 DEF AnswerByte, Fault
    <3>3. "BTF" \in flags' => dr = 0
      BY <1>16, <2>2 DEF AnswerByte, Fault
    <3> QED
      BY <1>16, <2>1, <2>2, <3>1, <3>2, <3>3 DEF AnswerByte
  <2>3. CASE bus' = "nacked"
    BY <1>16, <2>1, <2>3 DEF AnswerByte, Fault
  <2> QED
    BY <1>16, <2>2, <2>3 DEF AnswerByte, Fault
<1>17. CASE GenerateStop
  BY <1>17 DEF GenerateStop
<1>18. CASE Hold
  BY <1>18 DEF Hold, Fault
<1>19. CASE Release
  BY <1>19 DEF Release
<1>20. CASE UNCHANGED vars
  BY <1>20 DEF vars
<1> QED
  BY <1>1, <1>2, <1>3, <1>4, <1>5, <1>6, <1>7, <1>8, <1>9, <1>10, <1>11, <1>12,
     <1>13, <1>14, <1>15, <1>16, <1>17, <1>18, <1>19, <1>20
  DEF Next, Driver, Hardware

\* Without a fault nothing times out and nothing is refused, so each call starts afresh.
LEMMA NextUndisturbed == IInv /\ [Next]_vars => Undisturbed'
<1> SUFFICES ASSUME IInv, [Next]_vars PROVE Undisturbed'
  OBVIOUS
<1> USE I2cAssumption DEF callVars, busVars, InData, One, Flag,
       IInv, TypeOK, Pipeline,
       Undisturbed
<1>1. CASE Call
  BY <1>1 DEF Call
<1>2. CASE BusFree
  BY <1>2 DEF BusFree, Busy
<1>3. CASE BusyTimesOut
  BY <1>3 DEF BusyTimesOut, TimesOut, HardwareMoves, Busy, Return
<1>4. CASE Started
  BY <1>4 DEF Started
<1>5. CASE StartTimesOut
  BY <1>5 DEF StartTimesOut, TimesOut, HardwareMoves, Return
<1>6. CASE Addressed
  BY <1>6 DEF Addressed
<1>7. CASE AddressRefused
  BY <1>7 DEF AddressRefused, Return, Stop
<1>8. CASE AddressTimesOut
  BY <1>8 DEF AddressTimesOut, TimesOut, HardwareMoves, Return, Stop
<1>9. CASE PutByte
  BY <1>9 DEF PutByte
<1>10. CASE TxeTimesOut
  BY <1>10 DEF TxeTimesOut, TimesOut, HardwareMoves, Return, Stop
<1>11. CASE AllSent
  BY <1>11 DEF AllSent, Return, Stop
<1>12. CASE BtfTimesOut
  BY <1>12 DEF BtfTimesOut, TimesOut, HardwareMoves, Return, Stop
<1>13. CASE GenerateStart
  BY <1>13 DEF GenerateStart
<1>14. CASE AnswerAddress
  BY <1>14 DEF AnswerAddress, Fault
<1>15. CASE LoadShift
  BY <1>15 DEF LoadShift
<1>16. CASE AnswerByte
  BY <1>16 DEF AnswerByte, Fault
<1>17. CASE GenerateStop
  BY <1>17 DEF GenerateStop
<1>18. CASE Hold
  BY <1>18 DEF Hold, Fault
<1>19. CASE Release
  BY <1>19 DEF Release
<1>20. CASE UNCHANGED vars
  BY <1>20 DEF vars
<1> QED
  BY <1>1, <1>2, <1>3, <1>4, <1>5, <1>6, <1>7, <1>8, <1>9, <1>10, <1>11, <1>12,
     <1>13, <1>14, <1>15, <1>16, <1>17, <1>18, <1>19, <1>20
  DEF Next, Driver, Hardware

\* What a call has delivered by its end.
LEMMA NextResults == IInv /\ [Next]_vars => Results'
<1> SUFFICES ASSUME IInv, [Next]_vars PROVE Results'
  OBVIOUS
<1> USE I2cAssumption DEF callVars, busVars, InData, One, Flag,
       IInv, TypeOK, Pipeline,
       Undisturbed, Results, DeliveredInOrder, TrueMeansDelivered,
       DeliversWhenNothingFails
<1>1. CASE Call
  BY <1>1 DEF Call
<1>2. CASE BusFree
  BY <1>2 DEF BusFree, Busy
<1>3. CASE BusyTimesOut
  BY <1>3 DEF BusyTimesOut, TimesOut, HardwareMoves, Busy, Return
<1>4. CASE Started
  BY <1>4 DEF Started
<1>5. CASE StartTimesOut
  BY <1>5 DEF StartTimesOut, TimesOut, HardwareMoves, Return
<1>6. CASE Addressed
  BY <1>6 DEF Addressed
<1>7. CASE AddressRefused
  BY <1>7 DEF AddressRefused, Return, Stop
<1>8. CASE AddressTimesOut
  BY <1>8 DEF AddressTimesOut, TimesOut, HardwareMoves, Return, Stop
<1>9. CASE PutByte
  BY <1>9 DEF PutByte
<1>10. CASE TxeTimesOut
  BY <1>10 DEF TxeTimesOut, TimesOut, HardwareMoves, Return, Stop
<1>11. CASE AllSent
  BY <1>11 DEF AllSent, Return, Stop
<1>12. CASE BtfTimesOut
  <2>1. /\ i = len /\ UNCHANGED <<received, len, calls, faults>>
        /\ step' = "idle" /\ ret' = TRUE
    BY <1>12 DEF BtfTimesOut, TimesOut, HardwareMoves, Return, Stop
  <2>2. expired' = TRUE
    BY <1>12, Zenon DEF BtfTimesOut, TimesOut
  <2>3. faults = 0 => Len(received) = len
    BY <2>1, <1>12 DEF BtfTimesOut, TimesOut, HardwareMoves, Return, Stop
  <2> QED
    BY <2>1, <2>2, <2>3
<1>13. CASE GenerateStart
  BY <1>13 DEF GenerateStart
<1>14. CASE AnswerAddress
  BY <1>14 DEF AnswerAddress, Fault
<1>15. CASE LoadShift
  BY <1>15 DEF LoadShift
<1>16. CASE AnswerByte
  <2>1. step' = step /\ step # "idle"
    BY <1>16 DEF AnswerByte, Fault
  <2>2. \/ received' = received
        \/ received' = Append(received, Len(received) + 1)
    BY <1>16 DEF AnswerByte, Fault
  <2>3. received \in Seq(1 .. MaxLen)
    OBVIOUS
  <2>4. \A k \in 1 .. Len(received') : received'[k] = k
    BY <2>2, <2>3
  <2> QED
    BY <2>1, <2>4
<1>17. CASE GenerateStop
  BY <1>17 DEF GenerateStop
<1>18. CASE Hold
  BY <1>18 DEF Hold, Fault
<1>19. CASE Release
  BY <1>19 DEF Release
<1>20. CASE UNCHANGED vars
  BY <1>20 DEF vars
<1> QED
  BY <1>1, <1>2, <1>3, <1>4, <1>5, <1>6, <1>7, <1>8, <1>9, <1>10, <1>11, <1>12,
     <1>13, <1>14, <1>15, <1>16, <1>17, <1>18, <1>19, <1>20
  DEF Next, Driver, Hardware

\* The three invariants that the theorems take apart.
LEMMA Invariant == Spec => []IInv
<1>1. IInv /\ [Next]_vars => IInv'
  BY NextBits, NextRanges, RangesAndBits, NextPipeline, NextUndisturbed, NextResults 
     DEF IInv
<1> QED
  BY <1>1, InitIInv, PTL DEF Spec

\* The driver's count and the bytes in the peripheral stay within the write's length.
THEOREM TypeCorrect == Spec => []TypeOK
<1>1. IInv => TypeOK
  BY DEF IInv
<1> QED
  BY <1>1, Invariant, PTL

\* For writes of every length: the device gets a prefix of the bytes, in order, wherever
\* the write fails and whatever the calls before it have left behind.
THEOREM BytesInOrder == Spec => []DeliveredInOrder
<1>1. IInv => DeliveredInOrder
  BY DEF IInv, Results
<1> QED
  BY <1>1, Invariant, PTL

\* For writes of every length and whatever the calls before have left behind: true after
\* waits that have all ended in time means that the device has every byte.
THEOREM TrueIsDelivered == Spec => []TrueMeansDelivered
<1>1. IInv => TrueMeansDelivered
  BY DEF IInv, Results
<1> QED
  BY <1>1, Invariant, PTL

\* On a bus without faults no countdown runs out: every write delivers all its bytes and
\* returns true, however many there are.
THEOREM UndisturbedWritesSucceed == Spec => []DeliversWhenNothingFails
<1>1. IInv => DeliversWhenNothingFails
  BY DEF IInv, Results
<1> QED
  BY <1>1, Invariant, PTL
================================================================================
