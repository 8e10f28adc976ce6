---------------------------- MODULE CircBuf_proofs -----------------------------
(***************************************************************************)
(* Proofs about CircBuf for every buffer size and every set of byte        *)
(* values: type correctness, the safety invariants, the LED toggling on    *)
(* each read, and that every step of the buffer is a step of BoundedFifo   *)
(* or leaves it unchanged.                                                 *)
(***************************************************************************)
EXTENDS CircBuf, SequenceTheorems, TLAPS

--------------------------------------------------------------------------------
\* The inductive invariant.

\* The two semaphore counts and the tokens the two tasks carry between a take and
\* the matching give add up to the number of slots.
SlotsInHand == Bit(producer \in {"store", "advance", "give"})
                 + Bit(consumer \in {"load", "advance", "give"})

SemAccounting == sem_free + sem_used + SlotsInHand = CBUF_SIZE

\* How far the producer's index is ahead of the consumer's.
Span == sem_used + Bit(producer = "give") + Bit(consumer \in {"load", "advance"})

IndexDistance == head = tail + Span \/ head = tail + Span - CBUF_SIZE

IInv == TypeOK /\ SemAccounting /\ IndexDistance

\* The bytes between the LED and the producer's cmd alternate.
HasVal == Bit(consumer \in {"advance", "give", "drive"})

Shown == Bit(led) + HasVal

Alternates ==
  /\ HasVal = 1 => val = 1 - Bit(led)
  /\ \A i \in 1 .. Stored : Contents[i] = (Shown + i) % 2
  /\ cmd = (Shown + Stored + Bit(producer \in {"take", "store"})) % 2

--------------------------------------------------------------------------------
\* An index advances by one slot and starts again at 0 after the last one.
LEMMA AdvancedWraps ==
  ASSUME NEW index \in Slot
  PROVE  /\ Advanced(index) \in Slot
         /\ Advanced(index) = IF index = CBUF_SIZE - 1 THEN 0 ELSE index + 1
<1>1. CBUF_SIZE \in Nat /\ CBUF_SIZE > 0
  BY CBufAssumption
<1> QED
  BY <1>1 DEF Advanced, Wrapped, Slot

\* Giving a semaphore keeps its count within its maximum.
LEMMA GivenStaysInRange ==
  ASSUME NEW count \in 0 .. CBUF_SIZE
  PROVE  Given(count) \in 0 .. CBUF_SIZE
  BY CBufAssumption DEF Given

\* Every variable keeps to its set of values: the indices stay inside the array,
\* the counts within their maximum.
LEMMA InitTypeOK == Init => TypeOK
<1>1. CBUF_SIZE \in Nat /\ CBUF_SIZE > 0 /\ 0 \in Slot /\ 0 \in Byte
  BY CBufAssumption DEF Slot
<1>2. Init => led \in BOOLEAN
  BY Zenon DEF Init
<1>3. Init => /\ data \in [Slot -> Byte] /\ head \in Slot /\ tail \in Slot
              /\ sem_free \in 0 .. CBUF_SIZE /\ sem_used \in 0 .. CBUF_SIZE
  BY <1>1 DEF Init
<1>4. Init => /\ producer \in ProducerStep /\ consumer \in ConsumerStep
              /\ cmd \in {0, 1} /\ val \in Byte
  BY <1>1 DEF Init, ProducerStep, ConsumerStep
<1> QED
  BY <1>2, <1>3, <1>4 DEF TypeOK

\* Every step keeps the types.
LEMMA NextTypeOK == TypeOK /\ [Next]_vars => TypeOK'
<1> SUFFICES ASSUME TypeOK, [Next]_vars
             PROVE  TypeOK'
  OBVIOUS
<1> USE CBufAssumption DEF TypeOK, ProducerStep, ConsumerStep
<1>1. CASE WriteTake
  BY <1>1 DEF WriteTake, consVars
<1>2. CASE WriteStore
  BY <1>2 DEF WriteStore, consVars
<1>3. CASE WriteAdvance
  BY <1>3, AdvancedWraps DEF WriteAdvance, consVars
<1>4. CASE WriteGive
  BY <1>4, GivenStaysInRange DEF WriteGive, consVars
<1>5. CASE ProducerDelay
  BY <1>5 DEF ProducerDelay, bufVars, consVars
<1>6. CASE ReadTake
  BY <1>6 DEF ReadTake, prodVars
<1>7. CASE ReadLoad
  BY <1>7 DEF ReadLoad, bufVars, prodVars
<1>8. CASE ReadAdvance
  BY <1>8, AdvancedWraps DEF ReadAdvance, prodVars
<1>9. CASE ReadGive
  BY <1>9, GivenStaysInRange DEF ReadGive, prodVars
<1>10. CASE DriveLed
  BY <1>10 DEF DriveLed, bufVars, prodVars
<1>11. CASE ConsumerDelay
  BY <1>11 DEF ConsumerDelay, bufVars, prodVars
<1>12. CASE UNCHANGED vars
  BY <1>12 DEF vars, bufVars, prodVars, consVars
<1> QED
  BY <1>1, <1>2, <1>3, <1>4, <1>5, <1>6, <1>7, <1>8, <1>9, <1>10, <1>11, <1>12
  DEF Next, Producer, Consumer

\* For every size of the buffer, head and tail stay inside the array and the two counts
\* within the maximum cbuf_init creates the semaphores with.
THEOREM TypeCorrect == Spec => []TypeOK
<1> QED
  BY InitTypeOK, NextTypeOK, PTL DEF Spec

--------------------------------------------------------------------------------
\* The two accounts of the buffer, tokens and indices, are kept by every step.
LEMMA InitIInv == Init => IInv
<1>1. Init => SemAccounting
  BY CBufAssumption DEF Init, SemAccounting, SlotsInHand, Bit
<1>2. Init => IndexDistance
  BY CBufAssumption DEF Init, IndexDistance, Span, Bit
<1> QED
  BY <1>1, <1>2, InitTypeOK DEF IInv

\* A token taken or given is accounted for by the position of the task that did it.
LEMMA NextSemAccounting == IInv /\ [Next]_vars => SemAccounting'
<1> SUFFICES ASSUME IInv, [Next]_vars
             PROVE  SemAccounting'
  OBVIOUS
<1> USE CBufAssumption DEF IInv, TypeOK, SemAccounting, SlotsInHand, Bit
<1>1. CASE WriteTake
  BY <1>1 DEF WriteTake, consVars
<1>2. CASE WriteStore
  BY <1>2 DEF WriteStore, consVars
<1>3. CASE WriteAdvance
  BY <1>3 DEF WriteAdvance, consVars
<1>4. CASE WriteGive
  BY <1>4 DEF WriteGive, consVars, Given
<1>5. CASE ProducerDelay
  BY <1>5 DEF ProducerDelay, bufVars, consVars
<1>6. CASE ReadTake
  BY <1>6 DEF ReadTake, prodVars
<1>7. CASE ReadLoad
  BY <1>7 DEF ReadLoad, bufVars, prodVars
<1>8. CASE ReadAdvance
  BY <1>8 DEF ReadAdvance, prodVars
<1>9. CASE ReadGive
  BY <1>9 DEF ReadGive, prodVars, Given
<1>10. CASE DriveLed
  BY <1>10 DEF DriveLed, bufVars, prodVars
<1>11. CASE ConsumerDelay
  BY <1>11 DEF ConsumerDelay, bufVars, prodVars
<1>12. CASE UNCHANGED vars
  BY <1>12 DEF vars, bufVars, prodVars, consVars
<1> QED
  BY <1>1, <1>2, <1>3, <1>4, <1>5, <1>6, <1>7, <1>8, <1>9, <1>10, <1>11, <1>12
  DEF Next, Producer, Consumer

\* An index moves by one, modulo CBUF_SIZE, as its task leaves the slot.
LEMMA NextIndexDistance == IInv /\ [Next]_vars => IndexDistance'
<1> SUFFICES ASSUME IInv, [Next]_vars
             PROVE  IndexDistance'
  OBVIOUS
<1> USE CBufAssumption DEF IInv, TypeOK, IndexDistance, Span, Bit
<1>1. CASE WriteTake
  BY <1>1 DEF WriteTake, consVars
<1>2. CASE WriteStore
  BY <1>2 DEF WriteStore, consVars
<1>3. CASE WriteAdvance
  \* The producer holds a slot, so the distance is below CBUF_SIZE and the
  \* head wraps only from the first form into the second.
  <2>1. Span < CBUF_SIZE
    BY <1>3 DEF WriteAdvance, SemAccounting, SlotsInHand
  <2>2. /\ head' = IF head = CBUF_SIZE - 1 THEN 0 ELSE head + 1
        /\ tail' = tail /\ Span' = Span + 1
    BY <1>3, AdvancedWraps DEF WriteAdvance, consVars
  <2> QED
    BY <2>1, <2>2 DEF Slot
<1>4. CASE WriteGive
  BY <1>4 DEF WriteGive, consVars, Given, SemAccounting, SlotsInHand
<1>5. CASE ProducerDelay
  BY <1>5 DEF ProducerDelay, bufVars, consVars
<1>6. CASE ReadTake
  BY <1>6 DEF ReadTake, prodVars
<1>7. CASE ReadLoad
  BY <1>7 DEF ReadLoad, bufVars, prodVars
<1>8. CASE ReadAdvance
  <2>1. /\ tail' = IF tail = CBUF_SIZE - 1 THEN 0 ELSE tail + 1
        /\ head' = head /\ Span' = Span - 1 /\ Span \in 1 .. CBUF_SIZE
    BY <1>8, AdvancedWraps DEF ReadAdvance, prodVars, SemAccounting, SlotsInHand
  <2> QED
    BY <2>1 DEF Slot
<1>9. CASE ReadGive
  BY <1>9 DEF ReadGive, prodVars
<1>10. CASE DriveLed
  BY <1>10 DEF DriveLed, bufVars, prodVars
<1>11. CASE ConsumerDelay
  BY <1>11 DEF ConsumerDelay, bufVars, prodVars
<1>12. CASE UNCHANGED vars
  BY <1>12 DEF vars, bufVars, prodVars, consVars
<1> QED
  BY <1>1, <1>2, <1>3, <1>4, <1>5, <1>6, <1>7, <1>8, <1>9, <1>10, <1>11, <1>12
  DEF Next, Producer, Consumer

\* Tokens and indices agree in every reachable state.
THEOREM SlotsAccountedFor == Spec => []IInv
<1>1. IInv /\ [Next]_vars => IInv'
  BY NextTypeOK, NextSemAccounting, NextIndexDistance DEF IInv
<1> QED
  BY InitIInv, <1>1, PTL DEF Spec

\* cbuf_write never stores into the slot cbuf_read is loading from, whatever the
\* size of the buffer: while both are at their slot, the distance between the
\* two indices is at least 1 and less than the size.
THEOREM SlotsNeverShared == Spec => []NoSlotRace
<1>1. IInv => NoSlotRace
  BY CBufAssumption
  DEF IInv, TypeOK, SemAccounting, SlotsInHand, IndexDistance, Span, Bit, Slot,
      NoSlotRace
<1> QED
  BY SlotsAccountedFor, <1>1, PTL

\* No give of cbuf.c finds its semaphore at the maximum count, so no slot and no
\* item is ever lost to a give that fails unnoticed.
THEOREM GivesAlwaysCount == Spec => []GivesNeverSaturate
<1>1. IInv => GivesNeverSaturate
  BY CBufAssumption
  DEF IInv, TypeOK, SemAccounting, SlotsInHand, Bit, GivesNeverSaturate
<1> QED
  BY SlotsAccountedFor, <1>1, PTL

--------------------------------------------------------------------------------
\* CircBuf implements BoundedFifo.

\* The remainder of a slot number plus an offset of at most one round.
LEMMA OneRound ==
  ASSUME NEW x \in 0 .. 2 * CBUF_SIZE - 1
  PROVE  /\ Wrapped(x) \in Slot
         /\ Wrapped(x) = IF x < CBUF_SIZE THEN x ELSE x - CBUF_SIZE
<1>1. CBUF_SIZE \in Nat /\ CBUF_SIZE > 0
  BY CBufAssumption
<1> QED
  BY <1>1 DEF Slot, Wrapped

\* The stored bytes fill the slots from Oldest up to the producer's index.
LEMMA StoredRange ==
  ASSUME IInv
  PROVE  /\ Stored \in 0 .. CBUF_SIZE
         /\ Oldest \in Slot
         /\ producer = "store" => /\ Stored < CBUF_SIZE
                                  /\ head = Wrapped(Oldest + Stored)
         /\ consumer = "load" => Stored > 0
<1> USE CBufAssumption DEF IInv, TypeOK
<1>1. Stored \in 0 .. CBUF_SIZE
  BY DEF SemAccounting, SlotsInHand, Bit, Stored
<1>2. Oldest \in Slot
  BY AdvancedWraps DEF Oldest
<1>3. consumer = "load" => Stored > 0
  BY DEF SemAccounting, SlotsInHand, Bit, Stored
<1>4. ASSUME producer = "store"
      PROVE  Stored < CBUF_SIZE /\ head = Wrapped(Oldest + Stored)
  <2>1. /\ Stored = sem_used + Bit(consumer = "load")
        /\ Span = Stored + Bit(consumer = "advance")
        /\ Stored < CBUF_SIZE
    BY <1>4 DEF SemAccounting, SlotsInHand, Bit, Stored, Span
  <2> DEFINE p == Oldest + Stored
  <2>2. head = p \/ head = p - CBUF_SIZE \/ head = p + CBUF_SIZE
    <3>1. CASE consumer = "advance"
      <4>1. Span = Stored + 1 /\ Oldest = Advanced(tail)
        BY <2>1, <3>1 DEF Bit, Oldest
      <4>2. Oldest = tail + 1 \/ (Oldest = 0 /\ tail = CBUF_SIZE - 1)
        BY <4>1, AdvancedWraps
      <4> QED
        BY <4>1, <4>2, <1>1 DEF IndexDistance, Slot
    <3>2. CASE consumer # "advance"
      BY <2>1, <1>1, <3>2 DEF Bit, Oldest, IndexDistance, Slot
    <3> QED
      BY <3>1, <3>2
  <2>3. p \in 0 .. 2 * CBUF_SIZE - 1
    BY <2>1, <1>1, <1>2 DEF Slot
  <2>4. head = Wrapped(p)
    <3> HIDE DEF p
    <3>1. Wrapped(p) \in Slot /\ (Wrapped(p) = p \/ Wrapped(p) = p - CBUF_SIZE)
      BY <2>3, OneRound
    <3> QED
      BY <2>2, <2>3, <3>1 DEF Slot
  <2> QED
    BY <2>1, <2>4
<1> QED
  BY <1>1, <1>2, <1>3, <1>4

\* Storing a byte appends it to the contents: it goes behind the last stored byte
\* and touches no slot that holds one.
LEMMA StorePuts ==
  ASSUME IInv, WriteStore
  PROVE  /\ Contents \in Seq(Byte) /\ Len(Contents) = Stored /\ Stored < CBUF_SIZE
         /\ Stored' = Stored + 1
         /\ Contents' = Append(Contents, cmd)
<1> USE CBufAssumption DEF IInv, TypeOK, WriteStore, consVars
<1> DEFINE n == Stored
<1>1. n \in 0 .. CBUF_SIZE - 1 /\ Oldest \in Slot /\ head = Wrapped(Oldest + n)
  BY StoredRange
<1>2. Stored' = n + 1 /\ Oldest' = Oldest /\ cmd \in Byte
  BY <1>1 DEF Stored, Oldest, Bit
<1>3. ASSUME NEW i \in 1 .. n
      PROVE  /\ Wrapped(Oldest + i - 1) \in Slot
             /\ Wrapped(Oldest + i - 1) # head
  <2>1. /\ Oldest + i - 1 \in 0 .. 2 * CBUF_SIZE - 1
        /\ Oldest + n \in 0 .. 2 * CBUF_SIZE - 1
    BY <1>1 DEF Slot
  <2> QED
    BY <1>1, <2>1, OneRound DEF Slot
<1>4. Contents' = [i \in 1 .. n + 1 |->
                     IF i = n + 1 THEN cmd ELSE data[Wrapped(Oldest + i - 1)]]
  <2>1. Contents' = [i \in 1 .. n + 1 |-> data'[Wrapped(Oldest + i - 1)]]
    BY <1>2 DEF Contents
  <2>2. ASSUME NEW i \in 1 .. n + 1
        PROVE  data'[Wrapped(Oldest + i - 1)]
                 = IF i = n + 1 THEN cmd ELSE data[Wrapped(Oldest + i - 1)]
    <3>1. CASE i = n + 1
      BY <1>1, <3>1
    <3>2. CASE i # n + 1
      BY <1>1, <1>3, <3>2
    <3> QED
      BY <3>1, <3>2
  <2> QED
    BY <2>1, <2>2
<1>5. Contents = [i \in 1 .. n |-> data[Wrapped(Oldest + i - 1)]]
  BY DEF Contents
<1>6. \A i \in 1 .. n : data[Wrapped(Oldest + i - 1)] \in Byte
  BY <1>3
<1>7. Contents \in Seq(Byte) /\ Len(Contents) = n
  BY <1>1, <1>5, <1>6
<1>8. Contents' = Append(Contents, cmd)
  <2> HIDE DEF n
  <2> QED
    BY <1>1, <1>2, <1>4, <1>5, <1>7
<1> QED
  BY <1>1, <1>2, <1>7, <1>8

\* Loading hands out the first byte of the contents and leaves the rest.
LEMMA LoadGets ==
  ASSUME IInv, ReadLoad
  PROVE  /\ Contents \in Seq(Byte) /\ Len(Contents) = Stored /\ Stored > 0
         /\ Stored' = Stored - 1
         /\ val' = Head(Contents)
         /\ Contents' = Tail(Contents)
<1> USE CBufAssumption DEF IInv, TypeOK, ReadLoad, bufVars, prodVars
<1> DEFINE n == Stored
<1>1. n \in 1 .. CBUF_SIZE /\ tail \in Slot /\ Oldest = tail
  BY StoredRange DEF Oldest
<1>2. Stored' = n - 1 /\ Oldest' = Advanced(tail)
  BY <1>1 DEF Stored, Oldest, Bit
<1>3. Wrapped(tail) = tail
  BY <1>1, OneRound DEF Slot
<1>4. ASSUME NEW i \in 1 .. n
      PROVE  Wrapped(tail + i - 1) \in Slot
  <2>1. tail + i - 1 \in 0 .. 2 * CBUF_SIZE - 1
    BY <1>1 DEF Slot
  <2> QED
    BY <2>1, OneRound
<1>5. ASSUME NEW i \in 1 .. n - 1
      PROVE  Wrapped(Advanced(tail) + i - 1) = Wrapped(tail + i)
  <2>a. i \in 1 .. CBUF_SIZE /\ CBUF_SIZE \in Nat
    BY <1>1
  <2>b. Advanced(tail) \in 0 .. CBUF_SIZE - 1 /\ tail \in 0 .. CBUF_SIZE - 1
    BY <1>1, AdvancedWraps DEF Slot
  <2>1. /\ Advanced(tail) + i - 1 \in 0 .. 2 * CBUF_SIZE - 1
        /\ tail + i \in 0 .. 2 * CBUF_SIZE - 1
    BY <2>a, <2>b
  <2>2. CASE tail = CBUF_SIZE - 1
    <3>1. Advanced(tail) + i - 1 = i - 1 /\ tail + i = CBUF_SIZE + i - 1
      BY <1>1, <2>2, AdvancedWraps
    <3> QED
      BY <1>1, <2>1, <3>1, OneRound
  <2>3. CASE tail # CBUF_SIZE - 1
    BY <1>1, <2>3, AdvancedWraps DEF Slot
  <2> QED
    BY <2>2, <2>3
<1>6. Contents = [i \in 1 .. n |-> data[Wrapped(tail + i - 1)]]
  BY <1>1 DEF Contents
<1>7. Contents' = [i \in 1 .. n - 1 |-> data[Wrapped(tail + i)]]
  <2>1. Contents' = [i \in 1 .. n - 1 |-> data[Wrapped(Advanced(tail) + i - 1)]]
    BY <1>2 DEF Contents
  <2> QED
    BY <1>5, <2>1
<1>8. Contents \in Seq(Byte) /\ Len(Contents) = n
  <2>1. \A i \in 1 .. n : data[Wrapped(tail + i - 1)] \in Byte
    BY <1>4
  <2> QED
    BY <1>1, <1>6, <2>1
<1>9. Head(Contents) = val'
  <2>1. tail + 1 - 1 = tail
    BY <1>1 DEF Slot
  <2> QED
    BY <1>1, <1>3, <1>6, <1>8, <2>1
<1>10. Contents' = Tail(Contents)
  <2>1. \A i \in 1 .. n - 1 : Contents[i + 1] = data[Wrapped(tail + i)]
    <3> SUFFICES ASSUME NEW i \in 1 .. n - 1
                 PROVE  Contents[i + 1] = data[Wrapped(tail + i)]
      OBVIOUS
    <3>1. i + 1 \in 1 .. n /\ tail + (i + 1) - 1 = tail + i
      BY <1>1 DEF Slot
    <3> QED
      BY <1>6, <3>1
  <2>2. /\ Tail(Contents) \in Seq(Byte) /\ Len(Tail(Contents)) = n - 1
        /\ \A i \in 1 .. n - 1 : Tail(Contents)[i] = Contents[i + 1]
    BY <1>1, <1>8, HeadTailProperties
  <2>3. Contents' \in Seq(Byte) /\ Len(Contents') = n - 1
    <3>1. \A i \in 1 .. n - 1 : Contents[i + 1] \in Byte
      BY <1>1, <1>8
    <3> QED
      BY <1>1, <1>7, <2>1, <3>1
  <2> QED
    BY <1>7, <2>1, <2>2, <2>3, SeqEqual
<1> QED
  BY <1>1, <1>2, <1>8, <1>9, <1>10

\* The steps that touch no slot leave the contents as they are.
LEMMA OthersStutter ==
  ASSUME IInv, [Next]_vars, ~WriteStore, ~ReadLoad
  PROVE  Stored' = Stored /\ Contents' = Contents /\ val' = val
<1> USE CBufAssumption DEF IInv, TypeOK
<1>1. data' = data /\ Stored' = Stored /\ Oldest' = Oldest /\ val' = val
  <2> USE DEF Stored, Oldest, Bit
  <2>1. CASE WriteTake
    BY <2>1 DEF WriteTake, consVars
  <2>2. CASE WriteAdvance
    BY <2>2 DEF WriteAdvance, consVars
  <2>3. CASE WriteGive
    BY <2>3 DEF WriteGive, consVars
  <2>4. CASE ProducerDelay
    BY <2>4 DEF ProducerDelay, bufVars, consVars
  <2>5. CASE ReadTake
    BY <2>5 DEF ReadTake, prodVars
  <2>6. CASE ReadAdvance
    BY <2>6 DEF ReadAdvance, prodVars
  <2>7. CASE ReadGive
    BY <2>7 DEF ReadGive, prodVars, Given, SemAccounting, SlotsInHand
  <2>8. CASE DriveLed
    BY <2>8 DEF DriveLed, bufVars, prodVars
  <2>9. CASE ConsumerDelay
    BY <2>9 DEF ConsumerDelay, bufVars, prodVars
  <2>10. CASE UNCHANGED vars
    BY <2>10 DEF vars, bufVars, prodVars, consVars
  <2> QED
    BY <2>1, <2>2, <2>3, <2>4, <2>5, <2>6, <2>7, <2>8, <2>9, <2>10
    DEF Next, Producer, Consumer
<1> QED
  BY <1>1 DEF Contents

\* The buffer starts out empty.
LEMMA InitEmpty == Init => Stored = 0
<1> SUFFICES ASSUME Init
             PROVE  Stored = 0
  OBVIOUS
<1>1. CBUF_SIZE \in Nat /\ sem_free = CBUF_SIZE
  BY CBufAssumption DEF Init
<1>2. Bit(producer = "store") = 0
  BY DEF Init, Bit
<1>3. Bit(consumer \in {"advance", "give"}) = 0
  BY DEF Init, Bit
<1> QED
  BY <1>1, <1>2, <1>3 DEF Stored

\* Every behaviour of the buffer and its tasks is one of the bounded FIFO: a store
\* is a Put, a load is a Get that hands out the oldest byte, nothing else shows.
THEOREM ImplementsFifo == Spec => Fifo!SafeSpec
<1>1. Init => Fifo!Init
  <2> SUFFICES ASSUME Init
               PROVE  Contents = <<>> /\ val \in Byte
    BY DEF Fifo!Init
  <2>1. val \in Byte
    BY CBufAssumption DEF Init
  <2>2. Stored = 0
    BY InitEmpty
  <2> QED
    BY <2>1, <2>2 DEF Contents
<1>2. IInv /\ [Next]_vars => [Fifo!Next]_(Fifo!vars)
  <2> SUFFICES ASSUME IInv, [Next]_vars
               PROVE  [Fifo!Next]_(Fifo!vars)
    OBVIOUS
  <2>1. CASE WriteStore
    <3>1. cmd \in Byte /\ val' = val
      BY <2>1, CBufAssumption DEF IInv, TypeOK, WriteStore, consVars
    <3> QED
      BY <2>1, <3>1, StorePuts DEF Fifo!Next, Fifo!Put
  <2>2. CASE ReadLoad
    <3>1. Contents # <<>>
      BY <2>2, LoadGets
    <3> QED
      BY <2>2, <3>1, LoadGets DEF Fifo!Next, Fifo!Get
  <2>3. CASE ~WriteStore /\ ~ReadLoad
    BY <2>3, OthersStutter DEF Fifo!vars
  <2> QED
    BY <2>1, <2>2, <2>3
<1> QED
  BY <1>1, <1>2, SlotsAccountedFor, PTL DEF Spec, Fifo!SafeSpec

--------------------------------------------------------------------------------
\* The byte the LED shows, the byte in the consumer's hand, the stored bytes and
\* the producer's cmd alternate all the way.
LEMMA InitAlternates == Init => Alternates
<1> SUFFICES ASSUME Init
             PROVE  Alternates
  OBVIOUS
<1>1. producer = "take" /\ consumer = "take" /\ cmd = 1
  BY DEF Init
<1>2. led = FALSE
  BY DEF Init
<1>3. Bit(led) = 0
  BY <1>2 DEF Bit
<1>4. HasVal = 0
  BY <1>1 DEF HasVal, Bit
<1> QED
  BY <1>1, <1>3, <1>4, InitEmpty DEF Alternates, Shown, Bit

\* The bytes on their way from producer to consumer go on alternating.
LEMMA NextAlternates == IInv /\ Alternates /\ [Next]_vars => Alternates'
<1> SUFFICES ASSUME IInv, Alternates, [Next]_vars
             PROVE  Alternates'
  OBVIOUS
<1> DEFINE Pending == Bit(producer \in {"take", "store"})
<1>0. /\ HasVal \in {0, 1} /\ Bit(led) \in {0, 1} /\ Pending \in {0, 1}
      /\ Stored \in Nat /\ cmd \in {0, 1}
  BY StoredRange DEF HasVal, Bit, IInv, TypeOK
<1>1. CASE WriteStore
  <2>1. /\ Shown' = Shown /\ HasVal' = HasVal /\ val' = val /\ Bit(led)' = Bit(led)
        /\ cmd' = cmd /\ Pending = 1 /\ Pending' = 0
    BY <1>1 DEF WriteStore, consVars, Shown, HasVal, Bit
  <2>2. cmd = (Shown + (Stored + 1)) % 2
    BY <2>1, <1>0 DEF Alternates, Shown
  <2>3. ASSUME NEW i \in 1 .. Stored + 1
        PROVE  Contents'[i] = IF i = Stored + 1 THEN cmd ELSE Contents[i]
    BY <1>1, <1>0, StorePuts
  <2>4. \A i \in 1 .. Stored + 1 : Contents'[i] = (Shown + i) % 2
    BY <2>2, <2>3, <1>0 DEF Alternates
  <2>5. Stored' = Stored + 1
    BY <1>1, StorePuts
  <2> QED
    BY <2>1, <2>2, <2>4, <2>5, <1>0 DEF Alternates, Shown
<1>2. CASE ReadLoad
  <2>1. /\ Bit(led)' = Bit(led) /\ HasVal = 0 /\ HasVal' = 1
        /\ cmd' = cmd /\ Pending' = Pending
    BY <1>2 DEF ReadLoad, bufVars, prodVars, HasVal, Bit
  <2>2. Stored' = Stored - 1 /\ Stored > 0
    BY <1>2, LoadGets
  <2>3. val' = Contents[1]
    BY <1>2, LoadGets
  <2>4. val' = 1 - Bit(led)
    BY <2>1, <2>2, <2>3, <1>0 DEF Alternates, Shown
  <2>5. ASSUME NEW i \in 1 .. Stored - 1
        PROVE  Contents'[i] = Contents[i + 1]
    BY <1>2, <1>0, LoadGets, HeadTailProperties
  <2>6. \A i \in 1 .. Stored - 1 : Contents'[i] = (Shown + (i + 1)) % 2
    BY <2>5, <1>0 DEF Alternates
  <2>7. Shown' = Shown + 1
    BY <2>1, <1>0 DEF Shown
  <2>8. \A i \in 1 .. Stored' : Contents'[i] = (Shown' + i) % 2
    BY <2>2, <2>6, <2>7, <1>0 DEF Shown
  <2>9. cmd' = (Shown' + Stored' + Pending') % 2
    BY <2>1, <2>2, <2>7, <1>0 DEF Alternates, Shown
  <2> QED
    BY <2>1, <2>4, <2>8, <2>9 DEF Alternates
<1>3. CASE ProducerDelay
  <2>1. /\ Shown' = Shown /\ HasVal' = HasVal /\ val' = val /\ Bit(led)' = Bit(led)
        /\ cmd' = 1 - cmd /\ Pending = 0 /\ Pending' = 1
    BY <1>3 DEF ProducerDelay, bufVars, consVars, Shown, HasVal, Bit
  <2>2. Stored' = Stored /\ Contents' = Contents
    BY <1>3, OthersStutter DEF ProducerDelay, WriteStore, ReadLoad, prodVars
  <2> QED
    BY <2>1, <2>2, <1>0 DEF Alternates, Shown
<1>4. CASE DriveLed
  <2>1. /\ HasVal = 1 /\ HasVal' = 0 /\ cmd' = cmd /\ Pending' = Pending
    BY <1>4 DEF DriveLed, bufVars, prodVars, HasVal, Bit
  <2>2. val = 1 - Bit(led)
    BY <2>1 DEF Alternates
  <2>3. Bit(led)' = val
    <3>1. CASE val = 0
      BY <1>4, <3>1 DEF DriveLed, Bit
    <3>2. CASE val = 1
      BY <1>4, <3>2 DEF DriveLed, Bit
    <3> QED
      BY <1>0, <2>2, <3>1, <3>2
  <2>4. Stored' = Stored /\ Contents' = Contents
    BY <1>4, OthersStutter DEF DriveLed, WriteStore, ReadLoad, bufVars, prodVars
  <2> QED
    BY <2>1, <2>2, <2>3, <2>4, <1>0 DEF Alternates, Shown
<1>5. CASE ~WriteStore /\ ~ReadLoad /\ ~ProducerDelay /\ ~DriveLed
  <2>1. Stored' = Stored /\ Contents' = Contents /\ val' = val
    BY <1>5, OthersStutter
  <2>2. /\ HasVal' = HasVal /\ cmd' = cmd /\ Pending' = Pending
        /\ Bit(led)' = Bit(led)
    <3> USE DEF HasVal, Bit
    <3>1. CASE WriteTake \/ WriteAdvance \/ WriteGive
      BY <3>1 DEF WriteTake, WriteAdvance, WriteGive, consVars
    <3>2. CASE ReadTake \/ ReadAdvance \/ ReadGive \/ ConsumerDelay
      BY <3>2 DEF ReadTake, ReadAdvance, ReadGive, ConsumerDelay, prodVars, bufVars
    <3>3. CASE UNCHANGED vars
      BY <3>3 DEF vars, consVars, prodVars
    <3> QED
      BY <1>5, <3>1, <3>2, <3>3 DEF Next, Producer, Consumer
  <2> QED
    BY <2>1, <2>2 DEF Alternates, Shown
<1> QED
  BY <1>1, <1>2, <1>3, <1>4, <1>5

\* Each byte the consumer has read differs from what the LED shows, so each
\* successful read toggles the LED, for every size of the buffer.
THEOREM LedAlwaysToggles == Spec => []LedTogglesOnEachRead
<1>1. Alternates /\ TypeOK => LedTogglesOnEachRead
  <2> SUFFICES ASSUME Alternates, TypeOK, consumer = "drive"
               PROVE  (val # 0) # led
    BY DEF LedTogglesOnEachRead
  <2>1. val = 1 - Bit(led)
    BY DEF Alternates, HasVal, Bit
  <2>2. CASE led = TRUE
    <3>1. val = 0
      BY <2>1, <2>2 DEF Bit
    <3> QED
      BY <2>2, <3>1
  <2>3. CASE led = FALSE
    <3>1. val # 0
      BY <2>1, <2>3 DEF Bit
    <3> QED
      BY <2>3, <3>1, Zenon
  <2> QED
    BY <2>2, <2>3 DEF TypeOK
<1>2. (IInv /\ Alternates) /\ [Next]_vars => (IInv /\ Alternates)'
  BY NextTypeOK, NextSemAccounting, NextIndexDistance, NextAlternates DEF IInv
<1>3. Init => IInv /\ Alternates
  BY InitIInv, InitAlternates
<1>4. IInv => TypeOK
  BY DEF IInv
<1> QED
  BY <1>1, <1>2, <1>3, <1>4, PTL DEF Spec

================================================================================
