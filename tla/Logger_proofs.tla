----------------------------- MODULE Logger_proofs -----------------------------
(***************************************************************************)
(* Proofs about Logger for any number of clients, calls, card faults and   *)
(* resets, and any depth of the queue: each task's entries stay in the     *)
(* order of its calls from the queue to the card, between two entries      *)
(* nothing is at risk, no accepted entry is lost on its way to the file,   *)
(* the card holds a prefix of the accepted entries (DurableLog), and no    *)
(* drop is silent.                                                         *)
(***************************************************************************)
EXTENDS Logger, SequenceTheorems, FiniteSetTheorems, TLAPS

--------------------------------------------------------------------------------
\* Types.  The history variable accepted comes with Accounted below, what only counts or
\* flags with Flagged.

Line == Entry \cup Reports \cup {Torn}

\* logger_task holds an entry that it has received and not written.
Held == logger \in {"load", "reload", "subtract", "report", "put"}

Typed ==
  /\ s_log_queue \in Seq(Entry)
  /\ s_dropped \in 0 .. CounterRange - 1
  /\ client \in [Client -> ClientStep]
  /\ loaded \in [Client -> 0 .. CounterRange - 1]
  /\ calls \in [Client -> 0 .. MaxCalls]
  /\ \A c \in Client : client[c] = "send" => calls[c] \in 1 .. MaxCalls
  /\ logger \in LoggerStep
  /\ entry \in Entry \cup {NoEntry}
  /\ Held => entry \in Entry
  /\ dropped \in 0 .. CounterRange - 1
  /\ reread \in 0 .. CounterRange - 1
  /\ log \in Seq(Line)
  /\ durable \in 0 .. Len(log)
  /\ cached \in durable .. Len(log)
  /\ faults \in 0 .. MaxFaults

\* What a call of f_puts does to the file.
LEMMA PutsOutcome ==
  ASSUME Typed, NEW line \in Line, f_puts(line)
  PROVE  /\ log' = log \/ log' = Append(log, line) \/ log' = Append(log, Torn)
         /\ log' \in Seq(Line) /\ Len(log') >= Len(log)
         /\ durable' \in 0 .. Len(log') /\ cached' \in durable' .. Len(log')
         /\ faults' \in 0 .. MaxFaults /\ faults' >= faults
<1>1. log' = log \/ log' = Append(log, line) \/ log' = Append(log, Torn)
  BY DEF f_puts, PutStuck, PutWhole, PutFails
<1>2. log' \in Seq(Line) /\ Len(log') >= Len(log)
  <2>1. log \in Seq(Line) /\ Torn \in Line
    BY DEF Typed, Line
  <2> QED
    BY <1>1, <2>1, AppendProperties
<1>3. durable' \in {durable, cached} /\ cached' = cached
  BY DEF f_puts, PutStuck, PutWhole, PutFails, MayFlushWindow
<1>4. faults' \in 0 .. MaxFaults /\ faults' >= faults
  <2>1. faults' = faults \/ (faults < MaxFaults /\ faults' = faults + 1)
    BY Zenon DEF f_puts, PutStuck, PutWhole, PutFails, Fault
  <2> QED
    BY <2>1, FaultAssumption DEF Typed
<1> QED
  BY <1>1, <1>2, <1>3, <1>4 DEF Typed

\* f_sync never touches the lines; what the directory covers stays within them.
LEMMA SyncOutcome ==
  ASSUME Typed, f_sync
  PROVE  /\ log' = log
         /\ durable' \in 0 .. Len(log) /\ cached' \in durable' .. Len(log)
         /\ faults' \in 0 .. MaxFaults /\ faults' >= faults
  BY FaultAssumption
  DEF Typed, f_sync, SyncNothing, SyncDone, SyncDataFails, SyncDirectoryFails, Fault,
      fileVars

\* Opening the file, and losing power, leave a prefix of it.
LEMMA PrefixOutcome ==
  ASSUME Typed, NEW d \in 0 .. Len(log), log' = SubSeq(log, 1, d)
  PROVE  /\ log' \in Seq(Line) /\ Len(log') = d
         /\ \A i \in 1 .. d : log'[i] = log[i]
<1>1. log \in Seq(Line) /\ d \in 0 .. Len(log)
  BY DEF Typed
<1>2. SubSeq(log, 1, d) \in Seq(Line) /\ Len(SubSeq(log, 1, d)) = d
  BY <1>1, SubSeqProperties
<1>3. \A i \in 1 .. d : SubSeq(log, 1, d)[i] = log[i]
  BY <1>1, SubSeqProperties
<1> QED
  BY <1>2, <1>3

\* A power cut leaves the lines the directory on the card covers, whichever that is.
LEMMA PowerCutOutcome ==
  ASSUME Typed, PowerCut
  PROVE  /\ log' \in Seq(Line) /\ Len(log') = durable' /\ cached' = durable'
         /\ durable' \in 0 .. Len(log) /\ log' = SubSeq(log, 1, durable')
         /\ faults' = faults
<1>1. durable' \in 0 .. Len(log) /\ log' = SubSeq(log, 1, durable')
  BY DEF Typed, PowerCut
<1> QED
  BY <1>1, PrefixOutcome DEF PowerCut

\* The part of the type invariant that the proofs need, and its preservation.
LEMMA InitTyped == Init => Typed
  BY LoggerAssumption, FaultAssumption
  DEF Init, FileInit, Typed, Held, ClientStep, LoggerStep

\* Every step keeps the types.
LEMMA NextTyped == Typed /\ [Next]_vars => Typed'
<1> SUFFICES ASSUME Typed, [Next]_vars
             PROVE  Typed'
  OBVIOUS
<1> USE DEF queueVars, clientVars, loggerVars, dropVars, fileVars, Held
<1>1. ASSUME NEW c \in Client, Call(c)
      PROVE  Typed'
  BY <1>1, LoggerAssumption DEF Call, Typed, ClientStep
<1>2. ASSUME NEW c \in Client, Send(c)
      PROVE  Typed'
  <2>1. EntryOf(c) \in Entry
    BY <1>2 DEF Send, EntryOf, Entry, Typed
  <2>2. s_log_queue' \in Seq(Entry)
    BY <1>2, <2>1, AppendProperties DEF Send, Typed
  <2> QED
    BY <1>2, <2>2 DEF Send, Typed, ClientStep
<1>3. ASSUME NEW c \in Client, SendFull(c) \/ LoadDropped(c) \/ StoreDropped(c)
      PROVE  Typed'
  <2>1. s_dropped' \in 0 .. CounterRange - 1
    <3>1. s_dropped' = s_dropped \/ s_dropped' = (loaded[c] + 1) % CounterRange
      BY <1>3, Zenon DEF SendFull, LoadDropped, StoreDropped
    <3> QED
      BY <3>1, LoggerAssumption DEF Typed
  <2>2. loaded' \in [Client -> 0 .. CounterRange - 1]
    <3>1. CASE SendFull(c)
      BY <3>1 DEF SendFull, Typed
    <3>2. CASE LoadDropped(c)
      BY <3>2 DEF LoadDropped, Typed
    <3>3. CASE StoreDropped(c)
      <4>1. 0 \in 0 .. CounterRange - 1
        BY LoggerAssumption
      <4> QED
        BY <3>3, <4>1 DEF StoreDropped, Typed
    <3> QED
      BY <1>3, <3>1, <3>2, <3>3
  <2>3. client' \in [Client -> ClientStep]
        /\ \A d \in Client : client'[d] = "send" => client[d] = "send"
    BY <1>3 DEF SendFull, LoadDropped, StoreDropped, Typed, ClientStep
  <2> QED
    BY <1>3, <2>1, <2>2, <2>3 DEF SendFull, LoadDropped, StoreDropped, Typed
<1>4. CASE Mount \/ MakeDirectory
  BY <1>4 DEF Mount, MakeDirectory, Passes, Typed, LoggerStep
<1>5. CASE StartUpFails
  <2>1. faults' \in 0 .. MaxFaults
    BY <1>5, FaultAssumption DEF StartUpFails, NotOpened, Fault, Typed
  <2> QED
    BY <1>5, <2>1 DEF StartUpFails, NotOpened, Typed, LoggerStep
<1>6. CASE Open
  <2>1. /\ log' = SubSeq(log, 1, durable) /\ cached' = durable /\ durable' = durable
        /\ faults' = faults
    BY <1>6 DEF Open, OpenAppend
  <2>2. log' \in Seq(Line) /\ Len(log') = durable
    BY <2>1, PrefixOutcome DEF Typed
  <2> QED
    BY <1>6, <2>1, <2>2 DEF Open, Typed, LoggerStep
<1>7. CASE Receive
  BY <1>7 DEF Receive, Typed, LoggerStep
<1>8. CASE LoadCount \/ ReloadCount \/ SubtractCount
  <2>1. s_dropped' \in 0 .. CounterRange - 1 /\ reread' \in 0 .. CounterRange - 1
    BY <1>8, LoggerAssumption DEF LoadCount, ReloadCount, SubtractCount, Typed
  <2> QED
    BY <1>8, <2>1 DEF LoadCount, ReloadCount, SubtractCount, Typed, LoggerStep
<1>9. CASE PutReport
  <2>1. Report(dropped) \in Line
    BY DEF Report, Reports, Line, Typed
  <2>2. f_puts(Report(dropped))
    BY <1>9 DEF PutReport
  <2> QED
    BY <1>9, <2>1, <2>2, PutsOutcome DEF PutReport, Typed, LoggerStep
<1>10. CASE PutEntry
  <2>1. f_puts(entry)
    BY <1>10 DEF PutEntry
  <2>2. entry \in Line
    BY <1>10 DEF PutEntry, Typed, Held, Line
  <2> QED
    BY <1>10, <2>1, <2>2, PutsOutcome DEF PutEntry, Typed, LoggerStep
<1>11. CASE Sync
  BY <1>11, SyncOutcome DEF Sync, Typed, LoggerStep
<1>12. CASE Reset
  <2>1. PowerCut
    BY <1>12 DEF Reset
  <2> QED
    BY <1>12, <2>1, PowerCutOutcome, LoggerAssumption
    DEF Reset, Typed, LoggerStep, ClientStep
<1>13. CASE UNCHANGED vars
  BY <1>13 DEF vars, Typed
<1> QED
  BY <1>1, <1>2, <1>3, <1>4, <1>5, <1>6, <1>7, <1>8, <1>9, <1>10, <1>11, <1>12, <1>13
  DEF Next, Finish, LoggerTask

--------------------------------------------------------------------------------
\* Each task's entries, from the file to the call that is under way.

\* If both are entries of the same task, the first was logged before the second.
Precedes(e, f) == e \in Entry /\ f \in Entry /\ e.from = f.from => e.nr < f.nr

\* An entry of a call whose outcome is known.
Known(e) == e \in Entry =>
  e.nr <= IF client[e.from] = "send" THEN calls[e.from] - 1 ELSE calls[e.from]

FileOrder ==
  \A i, j \in 1 .. Len(log) : i < j => Precedes(log[i], log[j])

QueueOrder ==
  \A i, j \in 1 .. Len(s_log_queue) : i < j => Precedes(s_log_queue[i], s_log_queue[j])

FileBeforeQueue ==
  \A i \in 1 .. Len(log), j \in 1 .. Len(s_log_queue) : Precedes(log[i], s_log_queue[j])

HeldBetween ==
  Held => /\ \A i \in 1 .. Len(log) : Precedes(log[i], entry)
          /\ \A j \in 1 .. Len(s_log_queue) : Precedes(entry, s_log_queue[j])

AllKnown ==
  /\ \A i \in 1 .. Len(log) : Known(log[i])
  /\ \A j \in 1 .. Len(s_log_queue) : Known(s_log_queue[j])
  /\ Held => Known(entry)

InOrder == FileOrder /\ QueueOrder /\ FileBeforeQueue /\ HeldBetween /\ AllKnown

\* A torn line and a report are not entries.
LEMMA NotEntries ==
  /\ Torn \notin Entry
  /\ \A n : Report(n) \notin Entry
<1>1. \A n : Report(n) \notin Entry
  BY DEF Report, Entry
<1> QED
  BY <1>1, TornAssumption

\* A line that is not an entry can be added anywhere.
LEMMA PrecedesNoEntry ==
  ASSUME NEW e, NEW f, e \notin Entry
  PROVE  Precedes(e, f) /\ Precedes(f, e)
  BY DEF Precedes

\* The lines after one more of them.
LEMMA AppendedLine ==
  ASSUME Typed, NEW line \in Line, log' = Append(log, line)
  PROVE  /\ Len(log') = Len(log) + 1
         /\ \A i \in 1 .. Len(log') :
              log'[i] = IF i = Len(log) + 1 THEN line ELSE log[i]
  BY AppendProperties DEF Typed

\* No call that starts, ends or goes on makes an entry unknown.
LEMMA KnownStays ==
  ASSUME Typed, NEW e, Known(e),
         \A d \in Client :
           \/ calls'[d] = calls[d] /\ (client'[d] = "send" => client[d] = "send")
           \/ calls'[d] = calls[d] + 1
  PROVE  Known(e)'
<1> SUFFICES ASSUME e \in Entry
             PROVE  e.nr <= IF client'[e.from] = "send"
                            THEN calls'[e.from] - 1 ELSE calls'[e.from]
  BY DEF Known, Entry
<1>1. e.from \in Client /\ e.nr \in 1 .. MaxCalls /\ calls[e.from] \in 0 .. MaxCalls
  BY DEF Entry, Typed
<1>2. e.nr <= IF client[e.from] = "send" THEN calls[e.from] - 1 ELSE calls[e.from]
  BY DEF Known
<1> QED
  BY <1>1, <1>2, LoggerAssumption

\* A step that leaves the calls alone.
LEMMA KnownKept ==
  ASSUME NEW e, Known(e), UNCHANGED <<client, calls>>
  PROVE  Known(e)'
  BY DEF Known, Entry

\* A step of a call that leaves queue, file and logger_task alone.
LEMMA CallKeepsOrder ==
  ASSUME Typed, InOrder,
         UNCHANGED <<s_log_queue, log, logger, entry>>,
         \A d \in Client :
           \/ calls'[d] = calls[d] /\ (client'[d] = "send" => client[d] = "send")
           \/ calls'[d] = calls[d] + 1
  PROVE  InOrder'
<1>1. (FileOrder /\ QueueOrder /\ FileBeforeQueue /\ HeldBetween)'
  BY DEF InOrder, FileOrder, QueueOrder, FileBeforeQueue, HeldBetween, Held,
         Precedes, Entry
<1>2. \A e : Known(e) => Known(e)'
  BY KnownStays
<1>3. AllKnown'
  BY <1>2 DEF InOrder, AllKnown, Held
<1> QED
  BY <1>1, <1>3 DEF InOrder

\* A step of logger_task that may only put down what it holds.
LEMMA LoggerKeepsOrder ==
  ASSUME InOrder,
         UNCHANGED <<s_log_queue, log, entry, client, calls>>,
         Held' => Held
  PROVE  InOrder'
<1>1. (FileOrder /\ QueueOrder /\ FileBeforeQueue /\ HeldBetween)'
  BY DEF InOrder, FileOrder, QueueOrder, FileBeforeQueue, HeldBetween, Precedes, Entry
<1>2. \A e : Known(e) => Known(e)'
  BY KnownKept
<1>3. AllKnown'
  BY <1>2 DEF InOrder, AllKnown
<1> QED
  BY <1>1, <1>3 DEF InOrder

\* A call's entry comes behind all the caller's entries that are known.
LEMMA SendKeepsOrder ==
  ASSUME Typed, InOrder, NEW c \in Client, Send(c)
  PROVE  InOrder'
<1>0. PICK new : new = EntryOf(c)
  OBVIOUS
<1>1. /\ new \in Entry /\ new.from = c /\ new.nr = calls[c]
      /\ client[c] = "send" /\ calls[c] \in 1 .. MaxCalls
  BY <1>0 DEF Send, EntryOf, Entry, Typed
<1>2. /\ s_log_queue' = Append(s_log_queue, new)
      /\ UNCHANGED <<log, logger, entry, calls>>
      /\ client' = [client EXCEPT ![c] = "idle"]
  BY <1>0 DEF Send, loggerVars, fileVars
<1>3. /\ Len(s_log_queue') = Len(s_log_queue) + 1
      /\ \A j \in 1 .. Len(s_log_queue') :
           s_log_queue'[j] = IF j = Len(s_log_queue) + 1 THEN new ELSE s_log_queue[j]
  BY <1>1, <1>2, AppendProperties DEF Typed
<1>4. \A e : Known(e) => Precedes(e, new)
  BY <1>1, LoggerAssumption DEF Known, Precedes, Entry
<1>5. Len(s_log_queue) \in Nat /\ Len(log) \in Nat
  BY DEF Typed
<1>6. \A e : Known(e) => Known(e)'
  <2>1. \A d \in Client : calls'[d] = calls[d] /\ (client'[d] = "send" => client[d] = "send")
    BY <1>2 DEF Typed
  <2> QED
    BY <2>1, KnownStays
<1>7. \A e, f : Precedes(e, f)' <=> Precedes(e, f)
  BY DEF Precedes, Entry
<1>8. FileOrder' /\ QueueOrder' /\ FileBeforeQueue' /\ HeldBetween'
  <2>1. FileOrder'
    BY <1>2, <1>7 DEF InOrder, FileOrder
  <2>2. QueueOrder'
    BY <1>3, <1>4, <1>5, <1>7 DEF InOrder, QueueOrder, AllKnown
  <2>3. FileBeforeQueue'
    BY <1>2, <1>3, <1>4, <1>5, <1>7 DEF InOrder, FileBeforeQueue, AllKnown
  <2>4. HeldBetween'
    BY <1>2, <1>3, <1>4, <1>5, <1>7 DEF InOrder, HeldBetween, AllKnown, Held
  <2> QED
    BY <2>1, <2>2, <2>3, <2>4
<1>9. Known(new)'
  BY <1>1, <1>2, LoggerAssumption DEF Known, Typed
<1>10. AllKnown'
  BY <1>2, <1>3, <1>5, <1>6, <1>9 DEF InOrder, AllKnown, Held
<1> QED
  BY <1>8, <1>10 DEF InOrder

\* The entry that logger_task takes was at the head of the queue.
LEMMA ReceiveKeepsOrder ==
  ASSUME Typed, InOrder, Receive
  PROVE  InOrder'
<1>1. /\ s_log_queue # <<>> /\ entry' = Head(s_log_queue)
      /\ s_log_queue' = Tail(s_log_queue)
      /\ UNCHANGED <<log, client, calls>>
  BY DEF Receive, clientVars, fileVars
<1>2. /\ Len(s_log_queue) \in Nat \ {0} /\ Len(log) \in Nat
      /\ Len(s_log_queue') = Len(s_log_queue) - 1
      /\ entry' = s_log_queue[1]
      /\ \A j \in 1 .. Len(s_log_queue') : s_log_queue'[j] = s_log_queue[j + 1]
  BY <1>1, HeadTailProperties, EmptySeq DEF Typed
<1>3. \A e, f : Precedes(e, f)' <=> Precedes(e, f)
  BY DEF Precedes, Entry
<1>4. \A e : Known(e) => Known(e)'
  BY <1>1, KnownKept
<1>5. FileOrder'
  BY <1>1, <1>3 DEF InOrder, FileOrder
<1>6. QueueOrder'
  BY <1>2, <1>3 DEF InOrder, QueueOrder
<1>7. FileBeforeQueue'
  BY <1>1, <1>2, <1>3 DEF InOrder, FileBeforeQueue
<1>8. HeldBetween'
  BY <1>1, <1>2, <1>3 DEF InOrder, FileBeforeQueue, QueueOrder, HeldBetween
<1>9. AllKnown'
  BY <1>1, <1>2, <1>4 DEF InOrder, AllKnown
<1> QED
  BY <1>5, <1>6, <1>7, <1>8, <1>9 DEF InOrder

\* A line that is no entry, or the one that logger_task holds and puts down.
LEMMA PutKeepsOrder ==
  ASSUME Typed, InOrder, Held, NEW line \in Line,
         \/ line \notin Entry /\ (Held' => Held)
         \/ line = entry /\ ~Held',
         f_puts(line), UNCHANGED <<s_log_queue, entry, client, calls>>
  PROVE  InOrder'
<1>1. PICK new \in Line :
        /\ log' = log \/ log' = Append(log, new)
        /\ new \notin Entry \/ (new = entry /\ ~Held')
  <2>1. Torn \in Line
    BY DEF Line
  <2>2. log' = log \/ log' = Append(log, line) \/ log' = Append(log, Torn)
    BY PutsOutcome
  <2> QED
    BY <2>1, <2>2, NotEntries
<1>2. Held' => Held
  OBVIOUS
<1>3. CASE log' = log
  BY <1>2, <1>3, LoggerKeepsOrder
<1>4. CASE log' = Append(log, new)
  <2>1. /\ Len(log') = Len(log) + 1 /\ Len(log) \in Nat
        /\ \A i \in 1 .. Len(log') :
             log'[i] = IF i = Len(log) + 1 THEN new ELSE log[i]
    BY <1>4, AppendedLine DEF Typed
  <2>2. /\ \A i \in 1 .. Len(log) : Precedes(log[i], new)
        /\ \A j \in 1 .. Len(s_log_queue) : Precedes(new, s_log_queue[j])
        /\ Held' => Precedes(new, entry)
        /\ Known(new)
    <3>1. CASE new \notin Entry
      BY <3>1, PrecedesNoEntry DEF Known
    <3>2. CASE new = entry /\ ~Held'
      BY <3>2 DEF InOrder, HeldBetween, AllKnown
    <3> QED
      BY <1>1, <3>1, <3>2
  <2>3. \A e, f : Precedes(e, f)' <=> Precedes(e, f)
    BY DEF Precedes, Entry
  <2>4. \A e : Known(e) => Known(e)'
    BY KnownKept
  <2>5. FileOrder'
    BY <2>1, <2>2, <2>3 DEF InOrder, FileOrder
  <2>6. QueueOrder'
    BY <2>3 DEF InOrder, QueueOrder
  <2>7. FileBeforeQueue'
    BY <2>1, <2>2, <2>3 DEF InOrder, FileBeforeQueue
  <2>8. HeldBetween'
    BY <1>2, <2>1, <2>2, <2>3 DEF InOrder, HeldBetween
  <2>9. AllKnown'
    BY <1>2, <2>1, <2>2, <2>4 DEF InOrder, AllKnown
  <2> QED
    BY <2>5, <2>6, <2>7, <2>8, <2>9 DEF InOrder
<1> QED
  BY <1>1, <1>3, <1>4

\* The file is cut back to what the card holds, and logger_task holds nothing.
LEMMA CutKeepsOrder ==
  ASSUME Typed, InOrder, NEW d \in 0 .. Len(log), log' = SubSeq(log, 1, d), ~Held',
         s_log_queue' = s_log_queue \/ s_log_queue' = <<>>,
         calls' = calls,
         \A c \in Client : client'[c] = "send" => client[c] = "send"
  PROVE  InOrder'
<1>1. /\ Len(log') = d /\ Len(log) \in Nat
      /\ \A i \in 1 .. d : log'[i] = log[i] /\ i \in 1 .. Len(log)
  BY PrefixOutcome DEF Typed
<1>2. \A j \in 1 .. Len(s_log_queue') :
        j \in 1 .. Len(s_log_queue) /\ s_log_queue'[j] = s_log_queue[j]
  BY EmptySeq
<1>3. \A e, f : Precedes(e, f)' <=> Precedes(e, f)
  BY DEF Precedes, Entry
<1>4. \A e : Known(e) => Known(e)'
  BY KnownStays
<1>5. FileOrder'
  BY <1>1, <1>3 DEF InOrder, FileOrder
<1>6. QueueOrder'
  BY <1>2, <1>3 DEF InOrder, QueueOrder
<1>7. FileBeforeQueue'
  BY <1>1, <1>2, <1>3 DEF InOrder, FileBeforeQueue
<1>8. AllKnown'
  BY <1>1, <1>2, <1>4 DEF InOrder, AllKnown
<1> QED
  BY <1>5, <1>6, <1>7, <1>8 DEF InOrder, HeldBetween

\* Every step keeps each task's entries in order, queued, in hand and written.
LEMMA NextInOrder == Typed /\ InOrder /\ [Next]_vars => InOrder'
<1> SUFFICES ASSUME Typed, InOrder, [Next]_vars
             PROVE  InOrder'
  OBVIOUS
<1> USE DEF queueVars, clientVars, loggerVars, dropVars, fileVars
<1>1. ASSUME NEW c \in Client, Call(c)
      PROVE  InOrder'
  <2>1. \A d \in Client : \/ calls'[d] = calls[d] /\ (client'[d] = "send" => client[d] = "send")
                          \/ calls'[d] = calls[d] + 1
    BY <1>1 DEF Call, Typed
  <2> QED
    BY <1>1, <2>1, CallKeepsOrder DEF Call
<1>2. ASSUME NEW c \in Client, Send(c)
      PROVE  InOrder'
  BY <1>2, SendKeepsOrder
<1>3. ASSUME NEW c \in Client, SendFull(c) \/ LoadDropped(c) \/ StoreDropped(c)
      PROVE  InOrder'
  <2>1. \A d \in Client : calls'[d] = calls[d] /\ (client'[d] = "send" => client[d] = "send")
    BY <1>3 DEF SendFull, LoadDropped, StoreDropped, Typed
  <2>2. UNCHANGED <<s_log_queue, log, logger, entry>>
    BY <1>3 DEF SendFull, LoadDropped, StoreDropped
  <2> QED
    BY <2>1, <2>2, CallKeepsOrder
<1>4. CASE \/ Mount \/ MakeDirectory \/ StartUpFails
           \/ LoadCount \/ ReloadCount \/ SubtractCount
  <2>1. UNCHANGED <<s_log_queue, log, entry, client, calls>>
    BY <1>4 DEF Mount, MakeDirectory, Passes, StartUpFails, NotOpened,
                LoadCount, ReloadCount, SubtractCount
  <2>2. Held' => Held
    BY <1>4 DEF Mount, MakeDirectory, Passes, StartUpFails,
                LoadCount, ReloadCount, SubtractCount, Held
  <2> QED
    BY <2>1, <2>2, LoggerKeepsOrder
<1>5. CASE Open
  <2>1. log' = SubSeq(log, 1, durable) /\ durable \in 0 .. Len(log)
    BY <1>5 DEF Open, OpenAppend, Typed
  <2> QED
    BY <1>5, <2>1, CutKeepsOrder DEF Open, Held
<1>6. CASE Receive
  BY <1>6, ReceiveKeepsOrder
<1>7. CASE PutReport
  <2>1. Report(dropped) \in Line /\ Report(dropped) \notin Entry
    BY NotEntries DEF Report, Reports, Line, Typed
  <2>2. /\ f_puts(Report(dropped)) /\ Held
        /\ UNCHANGED <<s_log_queue, entry, client, calls>>
    BY <1>7 DEF PutReport, Held
  <2> QED
    BY <2>1, <2>2, PutKeepsOrder
<1>8. CASE PutEntry
  <2>1. /\ f_puts(entry) /\ Held /\ ~Held'
        /\ UNCHANGED <<s_log_queue, entry, client, calls>>
    BY <1>8 DEF PutEntry, Held
  <2>2. entry \in Line
    BY <2>1 DEF Typed, Line
  <2> QED
    BY <2>1, <2>2, PutKeepsOrder
<1>9. CASE Sync
  <2>1. log' = log
    BY <1>9, SyncOutcome DEF Sync
  <2>2. UNCHANGED <<s_log_queue, entry, client, calls>> /\ ~Held'
    BY <1>9 DEF Sync, Held
  <2> QED
    BY <2>1, <2>2, LoggerKeepsOrder
<1>10. CASE Reset
  <2>1. /\ durable' \in 0 .. Len(log) /\ log' = SubSeq(log, 1, durable')
    BY <1>10, PowerCutOutcome DEF Reset
  <2>2. /\ s_log_queue' = <<>> /\ calls' = calls /\ ~Held'
        /\ \A c \in Client : client'[c] # "send"
    BY <1>10 DEF Reset, Held
  <2> QED
    BY <2>1, <2>2, CutKeepsOrder
<1>11. CASE UNCHANGED vars
  BY <1>11, LoggerKeepsOrder DEF vars, Held
<1> QED
  BY <1>1, <1>2, <1>3, <1>4, <1>5, <1>6, <1>7, <1>8, <1>9, <1>10, <1>11
  DEF Next, Finish, LoggerTask

\* However many tasks log, whatever is dropped, whichever writes fail and whenever the
\* board resets, no task finds its own entries out of order or twice in the log.
THEOREM TasksStayInOrder == Spec => []EachTaskInOrder
<1>1. Init => InOrder
  BY EmptySeq
  DEF Init, FileInit, InOrder, FileOrder, QueueOrder, FileBeforeQueue, HeldBetween,
      AllKnown, Held
<1>2. InOrder => EachTaskInOrder
  BY DEF InOrder, FileOrder, Precedes, EachTaskInOrder
<1> QED
  BY <1>1, <1>2, InitTyped, NextTyped, NextInOrder, PTL DEF Spec

--------------------------------------------------------------------------------
\* Between two entries nothing is at risk.

AllOnCard == durable = Len(log)

\* As long as the card has not failed, the file has lines that are not on the card only
\* while logger_task is on its way to f_sync, which then has something to do.
Synced ==
  faults = 0 => /\ ~stuck
                /\ logger \in {"put", "sync"} \/ AllOnCard
                /\ ~modified => AllOnCard

\* While no fault has occurred, only a line put since the last f_sync is at risk.
LEMMA NextSynced == Typed /\ Synced /\ [Next]_vars => Synced'
<1> SUFFICES ASSUME Typed, Synced, [Next]_vars, faults' = 0
             PROVE  /\ ~stuck'
                    /\ logger' \in {"put", "sync"} \/ durable' = Len(log')
                    /\ ~modified' => durable' = Len(log')
  BY DEF Synced, AllOnCard
<1> USE DEF queueVars, clientVars, loggerVars, dropVars, fileVars
<1>1. CASE UNCHANGED fileVars /\ (logger' \notin {"put", "sync"} => logger \notin {"put", "sync"})
  BY <1>1 DEF Synced, AllOnCard
<1>2. CASE \E c \in Client : Call(c) \/ Finish(c)
  BY <1>1, <1>2 DEF Call, Finish, Send, SendFull, LoadDropped, StoreDropped
<1>3. CASE \/ Mount \/ MakeDirectory \/ Receive \/ LoadCount \/ ReloadCount
           \/ SubtractCount \/ UNCHANGED vars
  BY <1>1, <1>3 DEF Mount, MakeDirectory, Passes, Receive, LoadCount, ReloadCount,
                    SubtractCount, vars
<1>4. CASE StartUpFails
  BY <1>4, FaultAssumption DEF StartUpFails, NotOpened, Fault, Typed
<1>5. CASE Open
  <2>1. /\ log' = SubSeq(log, 1, durable) /\ durable' = durable
        /\ durable \in 0 .. Len(log) /\ ~stuck'
    BY <1>5, Zenon DEF Open, OpenAppend, Typed
  <2> QED
    BY <2>1, PrefixOutcome
<1>6. CASE PutReport \/ PutEntry
  <2>1. PICK line \in Line : f_puts(line)
    BY <1>6 DEF PutReport, PutEntry, Report, Reports, Line, Typed, Held
  <2>2. faults = 0 /\ faults' # faults + 1
    BY <2>1, PutsOutcome DEF Typed
  <2>3. ~stuck
    BY <2>2, Zenon DEF Synced
  <2>4. ~PutStuck /\ ~PutFails
    BY <2>2, <2>3, Zenon DEF PutStuck, PutFails, Fault
  <2>5. ~stuck' /\ modified'
    <3>1. PutWhole(line)
      BY <2>1, <2>4, Zenon DEF f_puts
    <3>2. modified' = TRUE /\ stuck' = stuck
      BY <3>1 DEF PutWhole
    <3> QED
      BY <2>3, <3>2, Zenon
  <2>6. logger' \in {"put", "sync"}
    BY <1>6 DEF PutReport, PutEntry
  <2> QED
    BY <2>5, <2>6
<1>7. CASE Sync
  <2>1. f_sync /\ logger' = "receive"
    BY <1>7 DEF Sync
  <2>2. faults = 0 /\ faults' # faults + 1
    BY <2>1, SyncOutcome DEF Typed
  <2>3. SyncNothing \/ SyncDone
    BY <2>1, <2>2, Zenon DEF f_sync, SyncDataFails, SyncDirectoryFails, Fault
  <2>4. ~stuck'
    BY <2>2, <2>3, Zenon DEF Synced, SyncNothing, SyncDone
  <2>5. durable' = Len(log')
    <3>1. CASE SyncNothing
      BY <2>2, <3>1, Zenon DEF Synced, AllOnCard, SyncNothing
    <3>2. CASE SyncDone
      BY <3>2 DEF SyncDone
    <3> QED
      BY <2>3, <3>1, <3>2
  <2> QED
    BY <2>4, <2>5
<1>8. CASE Reset
  <2>1. PowerCut
    BY <1>8 DEF Reset
  <2>2. ~stuck'
    BY <2>1, Zenon DEF PowerCut
  <2> QED
    BY <2>1, <2>2, PowerCutOutcome
<1> QED
  BY <1>2, <1>3, <1>4, <1>5, <1>6, <1>7, <1>8 DEF Next, LoggerTask

\* As long as the card has not failed, a task that waits for its next entry has all the
\* earlier ones on the card: a reset costs the queue and one entry, nothing more.
THEOREM NothingAtRiskWhenIdle == Spec => []OnlyCurrentEntryAtRisk
<1>1. Init => Synced
  <2>1. Init => ~stuck
    BY Zenon DEF Init, FileInit
  <2>2. Init => AllOnCard
    BY EmptySeq DEF Init, FileInit, AllOnCard
  <2> QED
    BY <2>1, <2>2 DEF Synced
<1>2. Synced => OnlyCurrentEntryAtRisk
  BY DEF Synced, AllOnCard, OnlyCurrentEntryAtRisk
<1> QED
  BY <1>1, <1>2, InitTyped, NextTyped, NextSynced, PTL DEF Spec

--------------------------------------------------------------------------------
\* The entries among the lines of the log.

\* EntriesUpTo as a recursion: one more line, and what holds of each of its values.
OneMore(lines, n, entries) ==
  IF lines[n] \in Entry THEN Append(entries, lines[n]) ELSE entries
AreEntries(lines, q, n, entries) == entries \in Seq(Entry)

UpTo == INSTANCE Induction WITH Step <- OneMore, Good <- AreEntries

\* EntriesUpTo is such a recursion.
LEMMA UpToRecursive ==
  ASSUME NEW lines
  PROVE  EntriesUpTo(lines) = UpTo!Recursive(lines, <<>>, Len(lines))
BY DEF EntriesUpTo, UpTo!Recursive, OneMore

\* So EntriesUpTo is what its definition says, however long the log is.
LEMMA UpToDef ==
  ASSUME NEW lines, Len(lines) \in Nat
  PROVE  /\ EntriesUpTo(lines)[0] = <<>>
         /\ \A n \in 1 .. Len(lines) :
              EntriesUpTo(lines)[n] = IF lines[n] \in Entry
                                      THEN Append(EntriesUpTo(lines)[n - 1], lines[n])
                                      ELSE EntriesUpTo(lines)[n - 1]
BY UpToRecursive, UpTo!RecursionDef DEF OneMore

\* They are entries.
LEMMA UpToType ==
  ASSUME NEW lines, Len(lines) \in Nat
  PROVE  \A n \in 0 .. Len(lines) : EntriesUpTo(lines)[n] \in Seq(Entry)
<1>1. AreEntries(lines, 0, 0, <<>>)
  BY EmptySeq DEF AreEntries
<1>2. \A n \in 1 .. Len(lines) : \A x :
        AreEntries(lines, 0, n - 1, x) => AreEntries(lines, 0, n, OneMore(lines, n, x))
  BY AppendProperties DEF AreEntries, OneMore
<1>3. \A n \in 0 .. Len(lines) :
        AreEntries(lines, 0, n, UpTo!Recursive(lines, <<>>, Len(lines))[n])
  BY <1>1, <1>2, UpTo!RecursionInduction
<1> QED
  BY <1>3, UpToRecursive DEF AreEntries

\* The entries up to a line depend on the lines up to it only.
LEMMA UpToAgree ==
  ASSUME NEW s, NEW t, Len(s) \in Nat, Len(t) \in Nat,
         NEW d \in 0 .. Len(s), d <= Len(t), \A i \in 1 .. d : s[i] = t[i]
  PROVE  \A n \in 0 .. d : EntriesUpTo(s)[n] = EntriesUpTo(t)[n]
<1> DEFINE S == {n \in Nat : n <= d => EntriesUpTo(s)[n] = EntriesUpTo(t)[n]}
<1>1. 0 \in S
  BY UpToDef
<1>2. ASSUME NEW n \in Nat, n \in S
      PROVE  n + 1 \in S
  <2> SUFFICES ASSUME n + 1 <= d
               PROVE  EntriesUpTo(s)[n + 1] = EntriesUpTo(t)[n + 1]
    OBVIOUS
  <2>1. EntriesUpTo(s)[n] = EntriesUpTo(t)[n] /\ s[n + 1] = t[n + 1]
    BY <1>2
  <2>2. EntriesUpTo(s)[n + 1] = IF s[n + 1] \in Entry
                                THEN Append(EntriesUpTo(s)[n], s[n + 1])
                                ELSE EntriesUpTo(s)[n]
    BY UpToDef
  <2>3. EntriesUpTo(t)[n + 1] = IF t[n + 1] \in Entry
                                THEN Append(EntriesUpTo(t)[n], t[n + 1])
                                ELSE EntriesUpTo(t)[n]
    BY UpToDef
  <2> QED
    BY <2>1, <2>2, <2>3
<1> HIDE DEF S
<1>3. \A n \in Nat : n \in S
  BY <1>1, <1>2, UpTo!NatSetInduction
<1> QED
  BY <1>3 DEF S

\* a is a prefix of b.
PrefixOf(a, b) == Len(a) <= Len(b) /\ \A i \in 1 .. Len(a) : a[i] = b[i]

\* Those up to an earlier line are a prefix of those up to a later one.
LEMMA UpToGrows ==
  ASSUME NEW lines, Len(lines) \in Nat, NEW m \in 0 .. Len(lines)
  PROVE  \A n \in m .. Len(lines) : PrefixOf(EntriesUpTo(lines)[m], EntriesUpTo(lines)[n])
<1> DEFINE U == EntriesUpTo(lines)
           S == {k \in Nat : m + k <= Len(lines) => PrefixOf(U[m], U[m + k])}
<1>1. 0 \in S
  <2>1. U[m] \in Seq(Entry)
    BY UpToType
  <2> QED
    BY <2>1 DEF PrefixOf
<1>2. ASSUME NEW k \in Nat, k \in S
      PROVE  k + 1 \in S
  <2> SUFFICES ASSUME m + k + 1 <= Len(lines)
               PROVE  PrefixOf(U[m], U[m + (k + 1)])
    OBVIOUS
  <2>1. /\ PrefixOf(U[m], U[m + k])
        /\ U[m] \in Seq(Entry) /\ U[m + k] \in Seq(Entry)
    BY <1>2, UpToType
  <2>2. U[m + (k + 1)] = IF lines[m + (k + 1)] \in Entry
                         THEN Append(U[m + k], lines[m + (k + 1)]) ELSE U[m + k]
    <3>1. m + (k + 1) \in 1 .. Len(lines) /\ m + (k + 1) - 1 = m + k
      OBVIOUS
    <3> QED
      BY <3>1, UpToDef
  <2> HIDE DEF U
  <2>3. CASE lines[m + (k + 1)] \in Entry
    <3>1. /\ Len(U[m + (k + 1)]) = Len(U[m + k]) + 1
          /\ \A i \in 1 .. Len(U[m + k]) : U[m + (k + 1)][i] = U[m + k][i]
      BY <2>1, <2>2, <2>3, AppendProperties
    <3> QED
      BY <2>1, <3>1 DEF PrefixOf
  <2> QED
    BY <2>1, <2>2, <2>3
<1> HIDE DEF S
<1>3. \A k \in Nat : k \in S
  BY <1>1, <1>2, UpTo!NatSetInduction
<1>4. ASSUME NEW n \in m .. Len(lines)
      PROVE  PrefixOf(EntriesUpTo(lines)[m], EntriesUpTo(lines)[n])
  <2>1. n - m \in Nat /\ m + (n - m) = n
    OBVIOUS
  <2>2. n - m \in S
    BY <1>3, <2>1
  <2> QED
    BY <2>1, <2>2 DEF S
<1> QED
  BY <1>4

--------------------------------------------------------------------------------
\* Every accepted entry is in the file, in hand or in the queue.

\* logger_task has not opened the file since the reset.
StartUp == {"mount", "mkdir", "open", "parked"}

\* NothingLost says nothing once a write has failed; that the file's entries are still a
\* prefix of the accepted ones then, and that a reset leaves a file with all of them, is
\* what makes it inductive.
Accounted ==
  /\ accepted \in Seq(Entry)
  /\ NothingLost
  /\ PrefixOf(Entries(log), accepted)
  /\ logger \in StartUp => ~stuck /\ durable = Len(log)

\* An entry that is sent comes behind everything in file, hand and queue.
LEMMA SentBehind ==
  ASSUME NEW a \in Seq(Entry), NEW b \in Seq(Entry), NEW c \in Seq(Entry), NEW e \in Entry
  PROVE  a \o b \o Append(c, e) = Append(a \o b \o c, e)
<1>1. a \o b \in Seq(Entry) /\ <<e>> \in Seq(Entry) /\ a \o b \o c \in Seq(Entry)
  BY ConcatProperties
<1>2. Append(c, e) = c \o <<e>> /\ Append(a \o b \o c, e) = a \o b \o c \o <<e>>
  BY <1>1, AppendIsConcat
<1> QED
  BY <1>1, <1>2, ConcatAssociative

\* The entry that logger_task receives, and what stays in the queue, are the queue.
LEMMA HeadInHand ==
  ASSUME NEW c \in Seq(Entry), c # <<>>
  PROVE  c = <<Head(c)>> \o Tail(c)
<1>1. /\ Head(c) \in Entry /\ Tail(c) \in Seq(Entry) /\ Len(Tail(c)) = Len(c) - 1
      /\ Head(c) = c[1] /\ \A i \in 1 .. Len(Tail(c)) : Tail(c)[i] = c[i + 1]
      /\ Len(c) \in Nat \ {0}
  BY HeadTailProperties, EmptySeq
<1>2. /\ <<Head(c)>> \in Seq(Entry) /\ Len(<<Head(c)>>) = 1
      /\ <<Head(c)>>[1] = Head(c)
  BY <1>1
<1> DEFINE d == <<Head(c)>> \o Tail(c)
<1>3. /\ d \in Seq(Entry) /\ Len(d) = 1 + Len(Tail(c))
      /\ \A i \in 1 .. 1 + Len(Tail(c)) :
           d[i] = IF i <= 1 THEN <<Head(c)>>[i] ELSE Tail(c)[i - 1]
  BY <1>1, <1>2, ConcatProperties
<1> HIDE DEF d
<1>4. Len(d) = Len(c)
  BY <1>1, <1>3
<1>5. \A i \in 1 .. Len(c) : d[i] = c[i]
  BY <1>1, <1>2, <1>3
<1>6. d = c
  BY <1>3, <1>4, <1>5, SeqEqual
<1> QED
  BY <1>6 DEF d

\* An entry goes from the queue into the empty hand ...
LEMMA ConcatRegroup ==
  ASSUME NEW a \in Seq(Entry), NEW b \in Seq(Entry), NEW c \in Seq(Entry)
  PROVE  a \o <<>> \o (b \o c) = a \o b \o c
<1>1. a \o <<>> = a
  BY ConcatEmptySeq
<1> QED
  BY <1>1, ConcatAssociative

\* ... and from the hand to the end of the file: the sequence of all three is the same.
LEMMA PutAtEnd ==
  ASSUME NEW a \in Seq(Entry), NEW e \in Entry, NEW c \in Seq(Entry)
  PROVE  a \o <<e>> \o c = Append(a, e) \o <<>> \o c
<1>1. Append(a, e) = a \o <<e>> /\ Append(a, e) \in Seq(Entry)
  BY AppendIsConcat, AppendProperties
<1> QED
  BY <1>1, ConcatEmptySeq

\* A prefix stays one when more is accepted.
LEMMA PrefixOfMore ==
  ASSUME NEW a \in Seq(Entry), NEW b \in Seq(Entry), NEW e \in Entry, PrefixOf(a, b)
  PROVE  PrefixOf(a, Append(b, e))
  BY AppendProperties DEF PrefixOf

\* What comes first in a concatenation is a prefix of it.
LEMMA PrefixOfConcat ==
  ASSUME NEW a \in Seq(Entry), NEW b \in Seq(Entry), NEW c \in Seq(Entry)
  PROVE  PrefixOf(a, a \o b \o c)
<1>1. a \o b \in Seq(Entry) /\ PrefixOf(a, a \o b)
  BY ConcatProperties DEF PrefixOf
<1>2. PrefixOf(a \o b, a \o b \o c)
  BY <1>1, ConcatProperties DEF PrefixOf
<1>3. Len(a) \in Nat /\ Len(a \o b) \in Nat /\ Len(a \o b \o c) \in Nat
  BY <1>1, ConcatProperties
<1> QED
  BY <1>1, <1>2, <1>3 DEF PrefixOf

\* A prefix of a prefix is a prefix.
LEMMA PrefixTransitive ==
  ASSUME NEW a \in Seq(Entry), NEW b \in Seq(Entry), NEW c \in Seq(Entry),
         PrefixOf(a, b), PrefixOf(b, c)
  PROVE  PrefixOf(a, c)
  BY DEF PrefixOf

\* What f_puts adds to the entries of the file, as long as writes get through.
LEMMA PutsEntries ==
  ASSUME Typed, NEW line \in Line, f_puts(line)
  PROVE  /\ \A n \in 0 .. Len(log) : EntriesUpTo(log')[n] = EntriesUpTo(log)[n]
         /\ ~stuck' => ~stuck
         /\ \/ Entries(log') = Entries(log) /\ (stuck' \/ line \notin Entry)
            \/ /\ line \in Entry /\ ~stuck /\ ~stuck'
               /\ Entries(log') = Append(Entries(log), line)
<1>0. log \in Seq(Line) /\ Len(log) \in Nat /\ Torn \in Line
  BY DEF Typed, Line
<1>1. ASSUME NEW l \in Line, log' = Append(log, l)
      PROVE  /\ \A n \in 0 .. Len(log) : EntriesUpTo(log')[n] = EntriesUpTo(log)[n]
             /\ Entries(log') = IF l \in Entry THEN Append(Entries(log), l)
                                ELSE Entries(log)
  <2>1. Len(log') = Len(log) + 1 /\ log'[Len(log) + 1] = l
        /\ \A i \in 1 .. Len(log) : log'[i] = log[i]
    BY <1>0, <1>1, AppendProperties
  <2>2. \A n \in 0 .. Len(log) : EntriesUpTo(log')[n] = EntriesUpTo(log)[n]
    <3>1. Len(log') \in Nat /\ Len(log) \in 0 .. Len(log') /\ Len(log) <= Len(log)
      BY <1>0, <2>1
    <3> QED
      BY <1>0, <2>1, <3>1, UpToAgree
  <2>3. EntriesUpTo(log')[Len(log) + 1] = IF log'[Len(log) + 1] \in Entry
                                          THEN Append(EntriesUpTo(log')[Len(log)],
                                                      log'[Len(log) + 1])
                                          ELSE EntriesUpTo(log')[Len(log)]
    <3>1. Len(log') \in Nat /\ Len(log) + 1 \in 1 .. Len(log') /\ Len(log) + 1 - 1 = Len(log)
      BY <1>0, <2>1
    <3> QED
      BY <3>1, UpToDef
  <2> QED
    BY <1>0, <2>1, <2>2, <2>3 DEF Entries
<1>2. ASSUME log' = log
      PROVE  /\ \A n \in 0 .. Len(log) : EntriesUpTo(log')[n] = EntriesUpTo(log)[n]
             /\ Entries(log') = Entries(log)
  BY <1>2
<1>3. CASE PutStuck
  <2>1. log' = log /\ stuck /\ stuck'
    BY <1>3, Zenon DEF PutStuck
  <2> QED
    BY <1>2, <2>1
<1>4. CASE PutWhole(line)
  <2>1. log' = Append(log, line)
    BY <1>4 DEF PutWhole
  <2>2. ~stuck /\ ~stuck'
    BY <1>4, Zenon DEF PutWhole
  <2> QED
    BY <1>1, <2>1, <2>2
<1>5. CASE PutFails
  <2>1. log' = log \/ log' = Append(log, Torn)
    BY <1>5 DEF PutFails
  <2>2. ~stuck /\ stuck'
    BY <1>5, Zenon DEF PutFails
  <2>3. /\ \A n \in 0 .. Len(log) : EntriesUpTo(log')[n] = EntriesUpTo(log)[n]
        /\ Entries(log') = Entries(log)
    BY <1>0, <1>1, <1>2, <2>1, TornAssumption
  <2> QED
    BY <2>2, <2>3
<1> QED
  BY <1>3, <1>4, <1>5 DEF f_puts

\* A step that leaves the file and the queue alone, and the hand as full as it was.
LEMMA AccountedKept ==
  ASSUME Accounted, UNCHANGED <<accepted, s_log_queue, entry, log, durable, stuck>>,
         Held' <=> Held, logger' \in StartUp => logger \in StartUp
  PROVE  Accounted'
<1>1. InHand' = InHand
  BY DEF InHand, Held
<1>2. NothingLost'
  BY <1>1, Zenon DEF Accounted, NothingLost
<1>3. (logger \in StartUp => ~stuck /\ durable = Len(log))'
  BY Zenon DEF Accounted
<1> QED
  BY <1>2, <1>3 DEF Accounted

\* What reaches the file is what a client has had accepted, in the same order.
LEMMA NextAccounted == Typed /\ Accounted /\ [Next]_vars => Accounted'
<1> SUFFICES ASSUME Typed, Accounted, [Next]_vars
             PROVE  Accounted'
  OBVIOUS
<1> USE DEF queueVars, clientVars, loggerVars, dropVars, fileVars
<1>0. /\ log \in Seq(Line) /\ Len(log) \in Nat /\ durable \in 0 .. Len(log)
      /\ s_log_queue \in Seq(Entry) /\ accepted \in Seq(Entry)
      /\ PrefixOf(Entries(log), accepted)
      /\ Entries(log) \in Seq(Entry)
  <2>1. Len(log) \in Nat /\ Len(log) \in 0 .. Len(log)
    BY DEF Typed
  <2> QED
    BY <2>1, UpToType DEF Typed, Accounted, Entries
<1>h. InHand \in Seq(Entry)
  BY DEF InHand, Typed, Held
<1>1. CASE \E c \in Client : Call(c) \/ SendFull(c) \/ LoadDropped(c) \/ StoreDropped(c)
  BY <1>1, AccountedKept DEF Call, SendFull, LoadDropped, StoreDropped, Held
<1>2. ASSUME NEW c \in Client, Send(c)
      PROVE  Accounted'
  <2>1. EntryOf(c) \in Entry
    BY <1>2 DEF Send, EntryOf, Entry, Typed
  <2>2. /\ s_log_queue' = Append(s_log_queue, EntryOf(c))
        /\ accepted' = Append(accepted, EntryOf(c))
        /\ UNCHANGED <<logger, entry, log, durable, stuck>>
    BY <1>2 DEF Send
  <2>3. accepted' \in Seq(Entry)
    BY <1>0, <2>1, <2>2, AppendProperties
  <2>4. InHand' = InHand
    BY <2>2 DEF InHand
  <2>5. ASSUME ~stuck'
        PROVE  accepted' = Entries(log') \o InHand' \o s_log_queue'
    <3>1. ~stuck
      BY <2>2, <2>5, Zenon
    <3>2. accepted = Entries(log) \o InHand \o s_log_queue
      BY <3>1, Zenon DEF Accounted, NothingLost
    <3>3. Entries(log) \o InHand \o Append(s_log_queue, EntryOf(c))
            = Append(Entries(log) \o InHand \o s_log_queue, EntryOf(c))
      BY <1>0, <1>h, <2>1, SentBehind
    <3> QED
      BY <2>2, <2>4, <3>2, <3>3
  <2>6. PrefixOf(Entries(log'), accepted')
    BY <1>0, <2>1, <2>2, PrefixOfMore
  <2>7. (logger \in StartUp => ~stuck /\ durable = Len(log))'
    BY <2>2, Zenon DEF Accounted
  <2> QED
    BY <2>3, <2>5, <2>6, <2>7 DEF Accounted, NothingLost
<1>3. CASE Mount \/ MakeDirectory \/ StartUpFails
  BY <1>3, AccountedKept
  DEF Mount, MakeDirectory, Passes, StartUpFails, NotOpened, Held, StartUp
<1>4. CASE Open
  <2>1. /\ log' = SubSeq(log, 1, durable) /\ durable' = durable
        /\ UNCHANGED <<accepted, s_log_queue, entry>>
        /\ logger = "open" /\ logger' = "receive"
    BY <1>4 DEF Open, OpenAppend
  <2>2. ~stuck /\ durable = Len(log)
    BY <2>1, Zenon DEF Accounted, StartUp
  <2>3. log' = log
    BY <1>0, <2>1, <2>2, SubSeqProperties, SeqEqual
  <2>4. InHand = <<>> /\ InHand' = <<>>
    BY <2>1 DEF InHand
  <2>5. accepted = Entries(log) \o InHand \o s_log_queue
    BY <2>2, Zenon DEF Accounted, NothingLost
  <2>6. NothingLost'
    BY <2>1, <2>3, <2>4, <2>5 DEF NothingLost
  <2> QED
    BY <1>0, <2>1, <2>3, <2>6 DEF Accounted, StartUp
<1>5. CASE Receive
  <2>1. /\ logger = "receive" /\ logger' = "load"
        /\ s_log_queue # <<>> /\ entry' = Head(s_log_queue)
        /\ s_log_queue' = Tail(s_log_queue)
        /\ UNCHANGED <<accepted, log, durable, stuck>>
    BY <1>5 DEF Receive
  <2>2. InHand = <<>> /\ InHand' = <<Head(s_log_queue)>>
    BY <2>1 DEF InHand
  <2>3. s_log_queue = <<Head(s_log_queue)>> \o Tail(s_log_queue)
    BY <1>0, <2>1, HeadInHand
  <2>4. /\ <<Head(s_log_queue)>> \in Seq(Entry) /\ Tail(s_log_queue) \in Seq(Entry)
    BY <1>0, <2>1, HeadTailProperties, EmptySeq
  <2>5. Entries(log) \o <<>> \o s_log_queue
          = Entries(log) \o <<Head(s_log_queue)>> \o Tail(s_log_queue)
    <3>1. Entries(log) \o <<>> \o (<<Head(s_log_queue)>> \o Tail(s_log_queue))
            = Entries(log) \o <<Head(s_log_queue)>> \o Tail(s_log_queue)
      BY <1>0, <2>4, ConcatRegroup
    <3> QED
      BY <2>3, <3>1
  <2>6. ASSUME ~stuck'
        PROVE  accepted' = Entries(log') \o InHand' \o s_log_queue'
    <3>1. ~stuck
      BY <2>1, <2>6, Zenon
    <3>2. accepted = Entries(log) \o InHand \o s_log_queue
      BY <3>1, Zenon DEF Accounted, NothingLost
    <3> QED
      BY <2>1, <2>2, <2>5, <3>2
  <2> QED
    BY <1>0, <2>1, <2>6 DEF Accounted, NothingLost, StartUp
<1>6. CASE LoadCount \/ ReloadCount \/ SubtractCount
  BY <1>6, AccountedKept DEF LoadCount, ReloadCount, SubtractCount, Held, StartUp
<1>7. CASE PutReport
  <2>1. /\ f_puts(Report(dropped)) /\ logger = "report" /\ logger' = "put"
        /\ UNCHANGED <<accepted, s_log_queue, entry>>
    BY <1>7 DEF PutReport
  <2>2. Report(dropped) \in Line /\ Report(dropped) \notin Entry
    BY NotEntries DEF Report, Reports, Line, Typed
  <2>3. Entries(log') = Entries(log) /\ (~stuck' => ~stuck)
    BY <2>1, <2>2, PutsEntries
  <2>4. InHand' = InHand
    BY <2>1 DEF InHand
  <2>5. NothingLost'
    BY <2>1, <2>3, <2>4, Zenon DEF Accounted, NothingLost
  <2> QED
    BY <1>0, <2>1, <2>3, <2>5 DEF Accounted, StartUp
<1>8. CASE PutEntry
  <2>1. /\ f_puts(entry) /\ logger = "put" /\ logger' = "sync"
        /\ UNCHANGED <<accepted, s_log_queue, entry>>
    BY <1>8 DEF PutEntry
  <2>2. entry \in Line /\ entry \in Entry
    BY <2>1 DEF Typed, Held, Line
  <2>3. InHand = <<entry>> /\ InHand' = <<>>
    BY <2>1 DEF InHand
  <2>4. CASE Entries(log') = Entries(log) /\ stuck'
    <3>1. NothingLost'
      BY <2>4, Zenon DEF NothingLost
    <3> QED
      BY <1>0, <2>1, <2>4, <3>1 DEF Accounted, StartUp
  <2>5. CASE ~stuck /\ ~stuck' /\ Entries(log') = Append(Entries(log), entry)
    <3>1. accepted = Entries(log) \o <<entry>> \o s_log_queue
      BY <2>3, <2>5, Zenon DEF Accounted, NothingLost
    <3>2. accepted' = Entries(log') \o InHand' \o s_log_queue'
      BY <1>0, <2>1, <2>2, <2>3, <2>5, <3>1, PutAtEnd
    <3>3. Append(Entries(log), entry) \in Seq(Entry) /\ <<>> \in Seq(Entry)
      BY <1>0, <2>2, AppendProperties, EmptySeq
    <3>4. PrefixOf(Entries(log'), accepted')
      BY <1>0, <2>1, <2>3, <2>5, <3>2, <3>3, PrefixOfConcat
    <3> QED
      BY <1>0, <2>1, <3>2, <3>4 DEF Accounted, NothingLost, StartUp
  <2>6. \/ Entries(log') = Entries(log) /\ stuck'
        \/ ~stuck /\ ~stuck' /\ Entries(log') = Append(Entries(log), entry)
    BY <2>1, <2>2, PutsEntries
  <2> QED
    BY <2>4, <2>5, <2>6
<1>9. CASE Sync
  <2>1. /\ f_sync /\ logger = "sync" /\ logger' = "receive"
        /\ UNCHANGED <<accepted, s_log_queue, entry>>
    BY <1>9 DEF Sync
  <2>2. log' = log
    BY <2>1, SyncOutcome
  <2>3. stuck' = stuck
    BY <2>1, Zenon DEF f_sync, SyncNothing, SyncDone, SyncDataFails, SyncDirectoryFails
  <2>4. InHand = <<>> /\ InHand' = <<>>
    BY <2>1 DEF InHand
  <2>5. NothingLost'
    BY <2>1, <2>2, <2>3, <2>4, Zenon DEF Accounted, NothingLost
  <2> QED
    BY <1>0, <2>1, <2>2, <2>5 DEF Accounted, StartUp
<1>10. CASE Reset
  <2>1. /\ PowerCut /\ accepted' = EntriesUpTo(log')[durable']
        /\ s_log_queue' = <<>> /\ logger' = "mount"
    BY <1>10 DEF Reset, OnCard
  <2>2. log' \in Seq(Line) /\ Len(log') = durable' /\ Len(log') \in Nat
    BY <2>1, PowerCutOutcome
  <2>3. ~stuck'
    BY <2>1, Zenon DEF PowerCut
  <2>4. accepted' = Entries(log') /\ accepted' \in Seq(Entry)
    BY <2>1, <2>2, UpToType DEF Entries
  <2>5. InHand' = <<>>
    BY <2>1 DEF InHand
  <2>6. accepted' = Entries(log') \o InHand' \o s_log_queue'
    BY <2>1, <2>4, <2>5, ConcatEmptySeq
  <2>7. PrefixOf(Entries(log'), accepted')
    BY <2>4 DEF PrefixOf
  <2> QED
    BY <2>2, <2>3, <2>4, <2>6, <2>7 DEF Accounted, NothingLost
<1>11. CASE UNCHANGED vars
  BY <1>11, AccountedKept DEF vars, Held
<1> QED
  BY <1>1, <1>2, <1>3, <1>4, <1>5, <1>6, <1>7, <1>8, <1>9, <1>10, <1>11
  DEF Next, Finish, LoggerTask

\* The file starts empty.
LEMMA InitAccounted == Init => Accounted
<1> SUFFICES ASSUME Init
             PROVE  Accounted
  OBVIOUS
<1>1. /\ log = <<>> /\ Len(log) = 0 /\ durable = 0 /\ accepted = <<>>
      /\ s_log_queue = <<>> /\ InHand = <<>> /\ accepted \in Seq(Entry)
  BY EmptySeq DEF Init, FileInit, InHand
<1>2. ~stuck
  BY Zenon DEF Init, FileInit
<1>3. Entries(log) = <<>>
  BY <1>1, UpToDef DEF Entries
<1>4. <<>> \o <<>> \o <<>> = <<>>
  BY EmptySeq, ConcatEmptySeq
<1>5. NothingLost
  BY <1>1, <1>3, <1>4 DEF NothingLost
<1>6. PrefixOf(Entries(log), accepted)
  BY <1>1, <1>3 DEF PrefixOf
<1> QED
  BY <1>1, <1>2, <1>5, <1>6 DEF Accounted

\* While writes get through, no interleaving of the tasks that log, no drop and no reset
\* loses, doubles or reorders an accepted entry on its way to the file.
THEOREM EntriesAccountedFor == Spec => []NothingLost
<1>1. Accounted => NothingLost
  BY DEF Accounted
<1> QED
  BY <1>1, InitTyped, NextTyped, InitAccounted, NextAccounted, PTL DEF Spec

--------------------------------------------------------------------------------
\* The type invariant: what Typed and Accounted leave out.

Flagged ==
  /\ Len(s_log_queue) <= LOG_QUEUE_DEPTH
  /\ resets \in 0 .. MaxResets
  /\ untaken \in BOOLEAN
  /\ unwritten \in BOOLEAN
  /\ wrapped \in BOOLEAN
  /\ modified \in BOOLEAN
  /\ stuck \in BOOLEAN

\* The queue starts empty, and nothing has been dropped.
LEMMA InitFlagged == Init => Flagged
<1>1. ASSUME Init
      PROVE  /\ modified \in BOOLEAN /\ stuck \in BOOLEAN
             /\ untaken \in BOOLEAN /\ unwritten \in BOOLEAN /\ wrapped \in BOOLEAN
  BY <1>1, Zenon DEF Init, FileInit
<1>2. ASSUME Init
      PROVE  Len(s_log_queue) <= LOG_QUEUE_DEPTH /\ resets \in 0 .. MaxResets
  BY <1>2, LoggerAssumption, EmptySeq DEF Init
<1> QED
  BY <1>1, <1>2 DEF Flagged

\* The flags of the file stay flags.
LEMMA PutsFlags ==
  ASSUME NEW line, f_puts(line), modified \in BOOLEAN, stuck \in BOOLEAN
  PROVE  modified' \in BOOLEAN /\ stuck' \in BOOLEAN
  BY Zenon DEF f_puts, PutStuck, PutWhole, PutFails

\* So they do in f_sync.
LEMMA SyncFlags ==
  ASSUME f_sync, modified \in BOOLEAN, stuck \in BOOLEAN
  PROVE  modified' \in BOOLEAN /\ stuck' \in BOOLEAN
  BY Zenon DEF f_sync, SyncNothing, SyncDone, SyncDataFails, SyncDirectoryFails, fileVars

\* The queue is bounded by its depth, the resets by the bound.
LEMMA NextFlagged == Typed /\ Flagged /\ [Next]_vars => Flagged'
<1> SUFFICES ASSUME Typed, Flagged, [Next]_vars
             PROVE  Flagged'
  OBVIOUS
<1> USE DEF queueVars, clientVars, loggerVars, dropVars
<1>1. Len(s_log_queue') <= LOG_QUEUE_DEPTH
  <2>1. CASE \E c \in Client : Send(c)
    <3>1. PICK c \in Client : Send(c)
      BY <2>1
    <3>2. Len(s_log_queue') = Len(s_log_queue) + 1
      BY <3>1, AppendProperties DEF Send, Typed
    <3> QED
      BY <3>1, <3>2, LoggerAssumption DEF Send, Typed
  <2>2. CASE Receive
    <3>1. Len(s_log_queue') = Len(s_log_queue) - 1 /\ Len(s_log_queue) \in Nat
      BY <2>2, HeadTailProperties DEF Receive, Typed
    <3> QED
      BY <3>1, LoggerAssumption DEF Flagged
  <2>3. CASE Reset
    BY <2>3, LoggerAssumption, EmptySeq DEF Reset
  <2>4. CASE UNCHANGED s_log_queue
    BY <2>4 DEF Flagged
  <2> QED
    BY <2>1, <2>2, <2>3, <2>4
    DEF Next, Finish, LoggerTask, Call, SendFull, LoadDropped, StoreDropped, Mount,
        MakeDirectory, Passes, StartUpFails, Open, LoadCount, ReloadCount,
        SubtractCount, PutReport, PutEntry, Sync, vars
<1>2. resets' \in 0 .. MaxResets
  <2>1. CASE Reset
    BY <2>1, LoggerAssumption DEF Reset, Flagged
  <2>2. CASE UNCHANGED resets
    BY <2>2 DEF Flagged
  <2> QED
    BY <2>1, <2>2
    DEF Next, Finish, LoggerTask, Call, Send, SendFull, LoadDropped, StoreDropped, Mount,
        MakeDirectory, Passes, StartUpFails, Open, Receive, LoadCount, ReloadCount,
        SubtractCount, PutReport, PutEntry, Sync, vars
<1>3. untaken' \in BOOLEAN /\ unwritten' \in BOOLEAN /\ wrapped' \in BOOLEAN
  <2>0. untaken \in BOOLEAN /\ unwritten \in BOOLEAN /\ wrapped \in BOOLEAN
    BY Zenon DEF Flagged
  <2>1. CASE \E c \in Client : SendFull(c) \/ StoreDropped(c)
    BY <2>0, <2>1, Zenon DEF SendFull, StoreDropped
  <2>2. CASE SubtractCount \/ PutReport \/ Reset
    BY <2>0, <2>2, Zenon DEF SubtractCount, PutReport, Reset
  <2>3. CASE UNCHANGED dropVars
    BY <2>0, <2>3, Zenon
  <2>4. \/ \E c \in Client : SendFull(c) \/ StoreDropped(c)
        \/ SubtractCount \/ PutReport \/ Reset
        \/ UNCHANGED dropVars
    BY DEF Next, Finish, LoggerTask, Call, Send, LoadDropped, Mount, MakeDirectory, Passes,
           StartUpFails, Open, Receive, LoadCount, ReloadCount, PutEntry, Sync, vars
  <2> QED
    BY <2>1, <2>2, <2>3, <2>4
<1>4. modified' \in BOOLEAN /\ stuck' \in BOOLEAN
  <2>0. modified \in BOOLEAN /\ stuck \in BOOLEAN
    BY Zenon DEF Flagged
  <2>1. CASE PutReport \/ PutEntry
    <3>1. \E line : f_puts(line)
      BY <2>1, Zenon DEF PutReport, PutEntry
    <3> QED
      BY <2>0, <3>1, PutsFlags, Zenon
  <2>2. CASE Sync
    BY <2>0, <2>2, SyncFlags, Zenon DEF Sync
  <2>3. CASE Open \/ Reset
    BY <2>3, Zenon DEF Open, OpenAppend, Reset, PowerCut
  <2>4. CASE StartUpFails
    BY <2>0, <2>4, Zenon DEF StartUpFails, NotOpened
  <2>5. CASE UNCHANGED fileVars
    BY <2>0, <2>5, Zenon DEF fileVars
  <2>6. \/ PutReport \/ PutEntry \/ Sync \/ Open \/ Reset \/ StartUpFails
        \/ UNCHANGED fileVars
    BY DEF Next, Finish, LoggerTask, Call, Send, SendFull, LoadDropped, StoreDropped,
           Mount, MakeDirectory, Passes, Receive, LoadCount, ReloadCount, SubtractCount,
           vars
  <2> QED
    BY <2>1, <2>2, <2>3, <2>4, <2>5, <2>6
<1> QED
  BY <1>1, <1>2, <1>3, <1>4 DEF Flagged

\* Queue, counters, steps and file stay within their types; above all the queue never
\* exceeds its depth, and what the card covers never exceeds the file.
THEOREM TypeCorrect == Spec => []TypeOK
<1>1. Typed /\ Accounted /\ Flagged => TypeOK
  <2> SUFFICES ASSUME Typed, Accounted, Flagged
               PROVE  TypeOK
    OBVIOUS
  <2>1. modified \in BOOLEAN /\ stuck \in BOOLEAN
    BY Zenon DEF Flagged
  <2>2. FileTypeOK(Entry \cup Reports)
    BY <2>1 DEF FileTypeOK, Typed, Line
  <2> QED
    BY <2>2 DEF TypeOK, Typed, Accounted, Flagged
<1> QED
  BY <1>1, InitTyped, NextTyped, InitAccounted, NextAccounted, InitFlagged, NextFlagged,
     PTL DEF Spec

--------------------------------------------------------------------------------
\* The refinement of DurableLog.

\* Of an accepted sequence's prefixes there is one of each length.
LEMMA PrefixIsSubSeq ==
  ASSUME NEW a \in Seq(Entry), NEW b \in Seq(Entry), PrefixOf(a, b)
  PROVE  a = SubSeq(b, 1, Len(a)) /\ Len(a) \in 0 .. Len(b)
<1>1. Len(a) \in 0 .. Len(b) /\ Len(b) \in Nat
  BY DEF PrefixOf
<1>2. /\ SubSeq(b, 1, Len(a)) \in Seq(Entry) /\ Len(SubSeq(b, 1, Len(a))) = Len(a)
      /\ \A i \in 1 .. Len(a) : SubSeq(b, 1, Len(a))[i] = b[i]
  BY <1>1, SubSeqProperties
<1>3. \A i \in 1 .. Len(a) : SubSeq(b, 1, Len(a))[i] = a[i]
  BY <1>2 DEF PrefixOf
<1> QED
  BY <1>1, <1>2, <1>3, SeqEqual

\* Wherever the card's cover ends, the entries up to there are a prefix of the accepted.
LEMMA CoveredPrefix ==
  ASSUME Typed, Accounted, NEW n \in durable .. Len(log)
  PROVE  /\ OnCard \in Seq(Entry) /\ EntriesUpTo(log)[n] \in Seq(Entry)
         /\ PrefixOf(OnCard, EntriesUpTo(log)[n])
         /\ PrefixOf(EntriesUpTo(log)[n], accepted)
<1> DEFINE U == EntriesUpTo(log)
<1>1. /\ Len(log) \in Nat /\ durable \in 0 .. Len(log) /\ n \in 0 .. Len(log)
      /\ Len(log) \in n .. Len(log)
  BY DEF Typed
<1>2. U[durable] \in Seq(Entry) /\ U[n] \in Seq(Entry) /\ U[Len(log)] \in Seq(Entry)
  BY <1>1, UpToType
<1>3. PrefixOf(U[durable], U[n]) /\ PrefixOf(U[n], U[Len(log)])
  BY <1>1, UpToGrows
<1>4. PrefixOf(U[Len(log)], accepted) /\ accepted \in Seq(Entry)
  BY DEF Accounted, Entries
<1>5. PrefixOf(U[n], accepted)
  BY <1>2, <1>3, <1>4, PrefixTransitive
<1> QED
  BY <1>2, <1>3, <1>5 DEF OnCard

\* A step that extends what the card covers of the file is a step of DurableLog.
LEMMA CardGrows ==
  ASSUME Typed, Accounted, NEW n \in durable .. Len(log),
         OnCard' = EntriesUpTo(log)[n], UNCHANGED accepted
  PROVE  [Service!Next]_(Service!vars)
<1> DEFINE new == EntriesUpTo(log)[n]
<1>1. /\ OnCard \in Seq(Entry) /\ new \in Seq(Entry) /\ accepted \in Seq(Entry)
      /\ PrefixOf(OnCard, new) /\ PrefixOf(new, accepted)
  BY CoveredPrefix DEF Accounted
<1>2. OnCard' = new
  OBVIOUS
<1> HIDE DEF new
<1>3. new = SubSeq(accepted, 1, Len(new)) /\ Len(new) \in 0 .. Len(accepted)
  BY <1>1, PrefixIsSubSeq
<1>4. CASE Len(OnCard) = Len(new)
  <2>1. \A i \in 1 .. Len(OnCard) : OnCard[i] = new[i]
    BY <1>1 DEF PrefixOf
  <2>2. OnCard = new
    BY <1>1, <1>4, <2>1, SeqEqual
  <2> QED
    BY <1>2, <2>2 DEF Service!vars
<1>5. CASE Len(OnCard) # Len(new)
  <2>1. Len(new) \in Len(OnCard) + 1 .. Len(accepted)
    BY <1>1, <1>3, <1>5 DEF PrefixOf
  <2>2. Service!Persist
    BY <1>2, <1>3, <2>1 DEF Service!Persist
  <2> QED
    BY <2>2 DEF Service!Next
<1> QED
  BY <1>4, <1>5

\* Every step of Logger is a step of DurableLog, or leaves entries and card alone.
LEMMA NextImplements ==
  Typed /\ Accounted /\ [Next]_vars => [Service!Next]_(Service!vars)
<1> SUFFICES ASSUME Typed, Accounted, [Next]_vars
             PROVE  [Service!Next]_(Service!vars)
  OBVIOUS
<1> USE DEF queueVars, clientVars, loggerVars, dropVars, fileVars
<1>0. /\ log \in Seq(Line) /\ Len(log) \in Nat
      /\ durable \in 0 .. Len(log) /\ cached \in durable .. Len(log)
  BY DEF Typed
<1>1. CASE UNCHANGED <<accepted, log, durable>>
  BY <1>1 DEF Service!vars, OnCard
<1>2. ASSUME NEW c \in Client, Send(c)
      PROVE  [Service!Next]_(Service!vars)
  <2>1. EntryOf(c) \in Entry
    BY <1>2 DEF Send, EntryOf, Entry, Typed
  <2>2. accepted' = Append(accepted, EntryOf(c)) /\ OnCard' = OnCard
    BY <1>2 DEF Send, OnCard
  <2>3. Service!Accept
    BY <2>1, <2>2 DEF Service!Accept
  <2> QED
    BY <2>3 DEF Service!Next
<1>3. CASE Open
  <2>1. /\ log' = SubSeq(log, 1, durable) /\ durable' = durable
        /\ UNCHANGED accepted
    BY <1>3 DEF Open, OpenAppend
  <2>2. /\ Len(log') = durable /\ \A i \in 1 .. durable : log'[i] = log[i]
    BY <1>0, <2>1, PrefixOutcome
  <2>3. EntriesUpTo(log')[durable] = EntriesUpTo(log)[durable]
    <3>1. /\ Len(log') \in Nat /\ Len(log) \in Nat /\ durable \in 0 .. Len(log')
          /\ durable <= Len(log) /\ durable \in 0 .. durable
      BY <1>0, <2>2
    <3> QED
      BY <2>2, <3>1, UpToAgree
  <2> QED
    BY <2>1, <2>3 DEF Service!vars, OnCard
<1>4. CASE PutReport \/ PutEntry
  <2>1. PICK line \in Line : f_puts(line)
    BY <1>4 DEF PutReport, PutEntry, Report, Reports, Line, Typed, Held
  <2>2. \A n \in 0 .. Len(log) : EntriesUpTo(log')[n] = EntriesUpTo(log)[n]
    BY <2>1, PutsEntries
  <2>3. durable' \in {durable, cached}
    BY <2>1 DEF f_puts, PutStuck, PutWhole, PutFails, MayFlushWindow
  <2>4. durable' \in durable .. Len(log) /\ durable' \in 0 .. Len(log)
    BY <1>0, <2>3
  <2>5. OnCard' = EntriesUpTo(log)[durable'] /\ UNCHANGED accepted
    BY <1>4, <2>2, <2>4 DEF OnCard, PutReport, PutEntry
  <2> QED
    BY <2>4, <2>5, CardGrows
<1>5. CASE Sync
  <2>1. f_sync /\ UNCHANGED accepted
    BY <1>5 DEF Sync
  <2>2. log' = log
    BY <2>1, SyncOutcome
  <2>3. durable' \in {durable, Len(log)}
    BY <2>1 DEF f_sync, SyncNothing, SyncDone, SyncDataFails, SyncDirectoryFails
  <2>4. durable' \in durable .. Len(log)
    BY <1>0, <2>3
  <2>5. OnCard' = EntriesUpTo(log)[durable']
    BY <2>2 DEF OnCard
  <2> QED
    BY <2>1, <2>4, <2>5, CardGrows
<1>6. CASE Reset
  <2>1. PowerCut /\ accepted' = OnCard'
    BY <1>6 DEF Reset
  <2>2. /\ log' \in Seq(Line) /\ Len(log') = durable' /\ durable' \in 0 .. Len(log)
        /\ log' = SubSeq(log, 1, durable')
    BY <2>1, PowerCutOutcome
  <2>3. durable' \in durable .. Len(log)
    <3>1. durable' \in {durable, cached, Len(log)}
      BY <2>1 DEF PowerCut
    <3> QED
      BY <1>0, <3>1
  <2>4. \A i \in 1 .. durable' : log'[i] = log[i]
    BY <2>2, PrefixOutcome
  <2>5. EntriesUpTo(log')[durable'] = EntriesUpTo(log)[durable']
    <3>1. /\ Len(log') \in Nat /\ Len(log) \in Nat /\ durable' \in 0 .. Len(log')
          /\ durable' <= Len(log) /\ durable' \in 0 .. durable'
      BY <1>0, <2>2
    <3> QED
      BY <2>4, <3>1, UpToAgree
  <2> DEFINE new == EntriesUpTo(log)[durable']
  <2>6. OnCard' = new
    BY <2>5 DEF OnCard
  <2>7. /\ OnCard \in Seq(Entry) /\ new \in Seq(Entry) /\ accepted \in Seq(Entry)
        /\ PrefixOf(OnCard, new) /\ PrefixOf(new, accepted)
    BY <2>3, CoveredPrefix DEF Accounted
  <2> HIDE DEF new
  <2>8. new = SubSeq(accepted, 1, Len(new)) /\ Len(new) \in Len(OnCard) .. Len(accepted)
    BY <2>7, PrefixIsSubSeq DEF PrefixOf
  <2>9. Service!Reset
    BY <2>1, <2>6, <2>8 DEF Service!Reset
  <2> QED
    BY <2>9 DEF Service!Next
<1> QED
  BY <1>1, <1>2, <1>3, <1>4, <1>5, <1>6
  DEF Next, Finish, LoggerTask, Call, SendFull, LoadDropped, StoreDropped, Mount,
      MakeDirectory, Passes, StartUpFails, NotOpened, Receive, LoadCount, ReloadCount,
      SubtractCount, vars

\* Whatever writes fail and whenever the board resets, the card holds a prefix of the
\* accepted entries in the order of acceptance, and never loses what it has got.
THEOREM LoggerImplementsDurableLog == Spec => ImplementsDurableLog
<1>1. Init => Service!Init
  <2>1. ASSUME Init
        PROVE  accepted = <<>> /\ EntriesUpTo(log)[durable] = <<>>
    <3>1. log = <<>> /\ Len(log) \in Nat /\ durable = 0 /\ accepted = <<>>
      BY <2>1, EmptySeq DEF Init, FileInit
    <3> QED
      BY <3>1, UpToDef
  <2> QED
    BY <2>1 DEF Service!Init, OnCard
<1> QED
  BY <1>1, InitTyped, NextTyped, InitAccounted, NextAccounted, NextImplements, PTL
  DEF Spec, ImplementsDurableLog

--------------------------------------------------------------------------------
\* No drop is silent.

\* What s_dropped and the calls under way still tell of a drop.
Shows == \/ s_dropped > 0
         \/ logger \in {"reload", "subtract"}
         \/ \E c \in Client : client[c] \in {"load", "store"}

\* The invariant: DropsNeverSilent, and that the file that f_open opens takes writes.
Traced ==
  /\ logger \in {"mount", "mkdir", "open"} => ~stuck
  /\ DropsNeverSilent

\* A step that leaves the history of drops alone keeps what shows of them, unless it is
\* the one that stores the counter.
LEMMA ShowsKept ==
  ASSUME Typed, Shows,
         \/ \E c \in Client : Call(c) \/ Send(c) \/ LoadDropped(c)
         \/ LoggerTask /\ ~SubtractCount
         \/ UNCHANGED vars
  PROVE  Shows'
<1> USE DEF queueVars, clientVars, loggerVars, dropVars
<1>1. ASSUME NEW c \in Client, Call(c) \/ Send(c) \/ LoadDropped(c)
      PROVE  Shows'
  <2>1. UNCHANGED <<s_dropped, logger>>
    BY <1>1 DEF Call, Send, LoadDropped
  <2>2. \A d \in Client : client[d] \in {"load", "store"} => client'[d] \in {"load", "store"}
    BY <1>1 DEF Call, Send, LoadDropped, Typed
  <2> QED
    BY <2>1, <2>2 DEF Shows
<1>2. CASE LoggerTask /\ ~SubtractCount
  <2>1. UNCHANGED <<s_dropped, client>>
    BY <1>2 DEF LoggerTask, Mount, MakeDirectory, Passes, StartUpFails, Open, Receive,
                LoadCount, ReloadCount, PutReport, PutEntry, Sync
  <2>2. logger \in {"reload", "subtract"} => logger' \in {"reload", "subtract"}
    BY <1>2 DEF LoggerTask, Mount, MakeDirectory, Passes, StartUpFails, Open, Receive,
                LoadCount, ReloadCount, PutReport, PutEntry, Sync
  <2> QED
    BY <2>1, <2>2 DEF Shows
<1>3. CASE UNCHANGED vars
  BY <1>3 DEF Shows, vars
<1> QED
  BY <1>1, <1>2, <1>3

\* What f_puts leaves without an error it has written whole; nothing but f_open and a
\* reset clears the error.
LEMMA PutsUnstuck ==
  ASSUME NEW line, f_puts(line), ~stuck'
  PROVE  ~stuck /\ log' = Append(log, line)
<1>1. CASE PutStuck
  BY <1>1, Zenon DEF PutStuck
<1>2. CASE PutWhole(line)
  BY <1>2, Zenon DEF PutWhole
<1>3. CASE PutFails
  <2>1. stuck' = TRUE
    BY <1>3, Zenon DEF PutFails
  <2> QED
    BY <2>1, Zenon
<1> QED
  BY <1>1, <1>2, <1>3, Zenon DEF f_puts

LEMMA SyncUnstuck ==
  ASSUME f_sync
  PROVE  stuck' = stuck
  BY Zenon DEF f_sync, SyncNothing, SyncDone, SyncDataFails, SyncDirectoryFails, fileVars

\* While writes get through they have got through before, but for a reset.
LEMMA UnstuckBefore ==
  ASSUME Traced, [Next]_vars, ~Reset, ~stuck'
  PROVE  ~stuck
<1> USE DEF queueVars, clientVars, loggerVars, dropVars
<1>1. CASE PutReport \/ PutEntry
  BY <1>1, PutsUnstuck, Zenon DEF PutReport, PutEntry
<1>2. CASE Sync
  BY <1>2, SyncUnstuck, Zenon DEF Sync
<1>3. CASE Open
  BY <1>3 DEF Open, Traced
<1>4. CASE StartUpFails
  BY <1>4, Zenon DEF StartUpFails, NotOpened
<1>5. CASE UNCHANGED fileVars
  BY <1>5, Zenon DEF fileVars
<1>6. \/ PutReport \/ PutEntry \/ Sync \/ Open \/ StartUpFails \/ UNCHANGED fileVars
  BY DEF Next, Finish, LoggerTask, Call, Send, SendFull, LoadDropped, StoreDropped,
         Mount, MakeDirectory, Passes, Receive, LoadCount, ReloadCount, SubtractCount,
         vars
<1> QED
  BY <1>1, <1>2, <1>3, <1>4, <1>5, <1>6

\* An increment that does not wrap leaves the counter above 0.
LEMMA StoreShows ==
  ASSUME Typed, Flagged, NEW c \in Client, StoreDropped(c), ~wrapped'
  PROVE  s_dropped' > 0
<1>1. loaded[c] + 1 # CounterRange
  BY Zenon DEF StoreDropped
<1>2. s_dropped' = (loaded[c] + 1) % CounterRange
  BY DEF StoreDropped
<1>3. loaded[c] \in 0 .. CounterRange - 1
  BY DEF Typed
<1> QED
  BY <1>1, <1>2, <1>3, LoggerAssumption

\* A drop shows until a subtraction takes it, and from there on logger_task goes straight
\* to its report.
LEMMA NextTraced == Typed /\ Flagged /\ Traced /\ [Next]_vars => Traced'
<1> SUFFICES ASSUME Typed, Flagged, Traced, [Next]_vars
             PROVE  Traced'
  OBVIOUS
<1> USE DEF queueVars, clientVars, loggerVars, dropVars
<1>1. CASE Reset
  <2>1. ~stuck' /\ ~untaken' /\ ~unwritten'
    BY <1>1, Zenon DEF Reset, PowerCut
  <2> QED
    BY <2>1, Zenon DEF Traced, DropsNeverSilent
<1>2. ASSUME ~Reset, logger' \in {"mount", "mkdir", "open"}
      PROVE  ~stuck'
  <2>1. logger \in {"mount", "mkdir", "open"} /\ UNCHANGED fileVars
    BY <1>2
    DEF Next, Finish, LoggerTask, Call, Send, SendFull, LoadDropped, StoreDropped, Mount,
        MakeDirectory, Passes, StartUpFails, Open, Receive, LoadCount, ReloadCount,
        SubtractCount, PutReport, PutEntry, Sync, vars
  <2> QED
    BY <2>1, Zenon DEF Traced, fileVars
<1>3. ASSUME ~Reset, ~stuck', unwritten'
      PROVE  logger' = "report"
  <2>1. unwritten => logger = "report"
    BY <1>3, UnstuckBefore, Zenon DEF Traced, DropsNeverSilent
  <2>2. CASE SubtractCount
    BY <2>2 DEF SubtractCount
  <2>3. CASE PutReport
    BY <1>3, <2>3, PutsUnstuck, Zenon DEF PutReport
  <2>4. CASE LoggerTask /\ ~SubtractCount /\ ~PutReport
    <3>1. unwritten' = unwritten /\ logger # "report"
      BY <2>4 DEF LoggerTask, Mount, MakeDirectory, Passes, StartUpFails, Open, Receive,
                  LoadCount, ReloadCount, PutEntry, Sync
    <3> QED
      BY <1>3, <2>1, <3>1, Zenon
  <2>5. CASE UNCHANGED <<unwritten, logger>>
    BY <1>3, <2>1, <2>5, Zenon
  <2>6. LoggerTask \/ UNCHANGED <<unwritten, logger>>
    BY <1>3, Zenon DEF Next, Finish, Call, Send, SendFull, LoadDropped, StoreDropped, vars
  <2> QED
    BY <2>2, <2>3, <2>4, <2>5, <2>6
<1>4. ASSUME ~Reset, ~stuck', untaken', ~wrapped'
      PROVE  Shows'
  <2>1. untaken /\ ~wrapped => Shows
    BY <1>4, UnstuckBefore, Zenon DEF Traced, DropsNeverSilent, Shows
  <2>2. ASSUME NEW c \in Client, SendFull(c)
        PROVE  Shows'
    BY <2>2 DEF SendFull, Typed, Shows
  <2>3. ASSUME NEW c \in Client, StoreDropped(c)
        PROVE  Shows'
    BY <1>4, <2>3, StoreShows DEF Shows
  <2>4. CASE SubtractCount
    BY <1>4, <2>4, Zenon DEF SubtractCount
  <2>5. CASE \/ \E c \in Client : Call(c) \/ Send(c) \/ LoadDropped(c)
             \/ LoggerTask /\ ~SubtractCount
             \/ UNCHANGED vars
    <3>1. UNCHANGED <<untaken, wrapped>>
      BY <2>5, Zenon
      DEF LoggerTask, Call, Send, LoadDropped, Mount, MakeDirectory, Passes,
          StartUpFails, Open, Receive, LoadCount, ReloadCount, PutReport, PutEntry, Sync,
          vars
    <3>2. Shows
      BY <1>4, <2>1, <3>1, Zenon
    <3> QED
      BY <2>5, <3>2, ShowsKept
  <2> QED
    BY <1>4, <2>2, <2>3, <2>4, <2>5 DEF Next, Finish
<1> QED
  BY <1>1, <1>2, <1>3, <1>4, Zenon DEF Traced, DropsNeverSilent, Shows

\* Before anything has been logged nothing has been dropped.
LEMMA InitTraced == Init => Traced
  BY Zenon DEF Init, FileInit, Traced, DropsNeverSilent

\* Whatever the number of tasks that log, and however their increments and logger_task's
\* subtraction race: a drop taken by a subtraction is reported, and any other keeps a
\* trace that leads to its report, until an increment wraps the counter to 0.
THEOREM DropsLeaveTrace == Spec => []DropsNeverSilent
<1>1. Traced => DropsNeverSilent
  BY DEF Traced
<1> QED
  BY <1>1, InitTyped, NextTyped, InitFlagged, NextFlagged, InitTraced, NextTraced, PTL
  DEF Spec

--------------------------------------------------------------------------------
\* One task that logs.

\* What DropsNeverSilent says, without its way out.
EveryDropShows == ~stuck => (unwritten => logger = "report") /\ (untaken => Shows)

\* With one task the counter never runs ahead of its calls, a value it has loaded is never
\* older than logger_task's subtraction, and the subtraction never goes below zero.
Exact(c) ==
  calls[c] < CounterRange =>
    /\ ~wrapped
    /\ s_dropped <= calls[c]
    /\ client[c] # "idle" => s_dropped < calls[c]
    /\ client[c] = "store" => s_dropped <= loaded[c] /\ loaded[c] < calls[c]
    /\ logger = "reload" => dropped <= s_dropped
    /\ logger = "subtract" => dropped <= reread /\ reread <= s_dropped

\* No step of the one task or of logger_task breaks this.
LEMMA NextExact ==
  ASSUME NEW c, Client = {c}, Typed, Flagged, Exact(c), [Next]_vars
  PROVE  Exact(c)'
<1> USE DEF queueVars, clientVars, loggerVars, dropVars
<1>0. /\ c \in Client /\ CounterRange \in Nat /\ CounterRange > 1
      /\ s_dropped \in Nat /\ s_dropped < CounterRange /\ loaded[c] \in Nat
      /\ loaded[c] < CounterRange /\ calls[c] \in Nat
      /\ dropped \in Nat /\ reread \in Nat /\ reread < CounterRange
  BY LoggerAssumption DEF Typed
<1>1. CASE Call(c)
  BY <1>0, <1>1 DEF Call, Typed, Exact
<1>2. CASE Send(c) \/ SendFull(c) \/ LoadDropped(c)
  BY <1>0, <1>2 DEF Send, SendFull, LoadDropped, Typed, Exact
<1>3. CASE StoreDropped(c)
  <2> SUFFICES ASSUME calls[c] < CounterRange
               PROVE  Exact(c)'
    BY <1>3 DEF StoreDropped, Exact
  <2>1. /\ client[c] = "store" /\ client'[c] = "idle" /\ calls' = calls
        /\ s_dropped' = (loaded[c] + 1) % CounterRange
        /\ UNCHANGED <<logger, dropped, reread>>
    BY <1>0, <1>3 DEF StoreDropped, Typed
  <2>2. /\ ~wrapped /\ s_dropped <= loaded[c] /\ loaded[c] < calls[c]
        /\ logger = "reload" => dropped <= s_dropped
        /\ logger = "subtract" => dropped <= reread /\ reread <= s_dropped
    BY <2>1 DEF Exact
  <2>3. loaded[c] + 1 # CounterRange /\ s_dropped' = loaded[c] + 1
    BY <1>0, <2>1, <2>2
  <2>4. ~wrapped'
    BY <1>3, <2>2, <2>3, Zenon DEF StoreDropped
  <2> QED
    BY <1>0, <2>1, <2>2, <2>3, <2>4 DEF Exact
<1>4. CASE LoadCount \/ ReloadCount
  BY <1>0, <1>4 DEF LoadCount, ReloadCount, Exact
<1>5. CASE SubtractCount
  <2> SUFFICES ASSUME calls[c] < CounterRange
               PROVE  Exact(c)'
    BY <1>5 DEF SubtractCount, Exact
  <2>1. /\ logger = "subtract" /\ logger' = "report"
        /\ s_dropped' = (reread - dropped) % CounterRange
        /\ UNCHANGED <<client, loaded, calls, wrapped>>
    BY <1>5 DEF SubtractCount
  <2>2. dropped <= reread /\ reread <= s_dropped
    BY <2>1 DEF Exact
  <2>3. s_dropped' = reread - dropped
    BY <1>0, <2>1, <2>2
  <2>4. s_dropped' \in Nat /\ s_dropped' <= s_dropped
    BY <1>0, <2>2, <2>3
  <2> QED
    BY <1>0, <2>1, <2>4 DEF Exact
<1>6. CASE Reset
  BY <1>0, <1>6 DEF Reset, Exact
<1>7. CASE \/ UNCHANGED <<client, loaded, calls, s_dropped, wrapped, logger, dropped, reread>>
           \/ UNCHANGED <<client, loaded, calls, s_dropped, wrapped, dropped, reread>>
              /\ logger' \notin {"reload", "subtract"}
  BY <1>7 DEF Exact
<1>8. \/ UNCHANGED <<client, loaded, calls, s_dropped, wrapped, logger, dropped, reread>>
      \/ UNCHANGED <<client, loaded, calls, s_dropped, wrapped, dropped, reread>>
         /\ logger' \notin {"reload", "subtract"}
      \/ LoadCount \/ ReloadCount \/ SubtractCount \/ Reset
      \/ Call(c) \/ Send(c) \/ SendFull(c) \/ LoadDropped(c) \/ StoreDropped(c)
  BY DEF Next, Finish, LoggerTask, Mount, MakeDirectory, Passes, StartUpFails, Open,
         Receive, PutReport, PutEntry, Sync, vars
<1> QED
  BY <1>1, <1>2, <1>3, <1>4, <1>5, <1>6, <1>7, <1>8

\* While one task logs, as main alone does today, and calls less often than the counter
\* can count, no drop at all is silent: the wrap takes two tasks, or a full counter.
THEOREM OneTaskDropsLeaveTrace ==
  ASSUME NEW c, Client = {c}
  PROVE  Spec => [](calls[c] < CounterRange => EveryDropShows)
<1>1. Init => Exact(c)
  BY LoggerAssumption DEF Init, Exact
<1>2. Typed /\ Flagged /\ Exact(c) /\ [Next]_vars => Exact(c)'
  BY NextExact
<1>3. Traced /\ Exact(c) => (calls[c] < CounterRange => EveryDropShows)
  BY Zenon DEF Traced, DropsNeverSilent, Exact, EveryDropShows, Shows
<1> QED
  BY <1>1, <1>2, <1>3, InitTyped, NextTyped, InitFlagged, NextFlagged, InitTraced,
     NextTraced, PTL DEF Spec

================================================================================
