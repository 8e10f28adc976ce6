-------------------------------- MODULE Logger ---------------------------------
(***************************************************************************)
(* Core/Src/logger.c: logger_log, which any task may call at any time, and *)
(* logger_task, which moves entries from the queue to the log file on the  *)
(* card (module FatFile), with card faults and resets of the board.        *)
(*                                                                         *)
(* s_dropped is shared without a lock, so each of its loads and stores is  *)
(* a step of its own; a queue operation is one step, as in the kernel.     *)
(***************************************************************************)
EXTENDS Integers, Sequences, FatFile

CONSTANTS Client,          \* the tasks that log
          LOG_QUEUE_DEPTH, \* entries the queue holds (16 in the firmware)
          NoEntry,         \* logger_task's entry before the first receive
          CounterRange,    \* s_dropped counts modulo this (2^32 in the firmware)
          MaxCalls,        \* bound: calls of logger_log by each client
          MaxResets        \* bound: resets of the board

ASSUME LoggerAssumption == /\ LOG_QUEUE_DEPTH \in Nat \ {0}
                           /\ CounterRange \in Nat \ {0, 1}
                           /\ MaxCalls \in Nat
                           /\ MaxResets \in Nat

VARIABLES
  s_log_queue, \* the queue of entries
  s_dropped,   \* the drop counter
  client,      \* each client: what its logger_log call does next
  loaded,      \* each client: the value of s_dropped its increment has read
  calls,       \* each client: calls so far, which also names its entries
  logger,      \* what logger_task does next
  entry,       \* logger_task's local variables of the same names
  dropped,
  reread,      \* the value of s_dropped that "s_dropped -= dropped" has read
  resets,      \* resets so far
  \* History, for the properties only: the entries on the card at the last reset
  \* and those accepted since, in that order; and, since that reset, whether an entry
  \* has been dropped after the last subtraction, whether one that was dropped before
  \* it has no report in the file yet, and whether an increment has wrapped to 0.
  accepted, untaken, unwritten, wrapped

queueVars == <<s_log_queue, accepted>>
clientVars == <<client, loaded, calls>>
loggerVars == <<logger, entry, dropped, reread>>
dropVars == <<untaken, unwritten, wrapped>>
vars == <<queueVars, s_dropped, clientVars, loggerVars, dropVars, resets, fileVars>>

Entry == [from : Client, nr : 1 .. MaxCalls]
Report(n) == [dropped |-> n]
Reports == [dropped : 0 .. CounterRange - 1]

ASSUME TornAssumption == Torn \notin Entry

ClientStep == {"idle", "send", "load", "store"}
LoggerStep == {"mount", "mkdir", "open", "parked", "receive", "load", "reload",
               "subtract", "report", "put", "sync"}

TypeOK ==
  /\ s_log_queue \in Seq(Entry)
  /\ Len(s_log_queue) <= LOG_QUEUE_DEPTH
  /\ s_dropped \in 0 .. CounterRange - 1
  /\ client \in [Client -> ClientStep]
  /\ loaded \in [Client -> 0 .. CounterRange - 1]
  /\ calls \in [Client -> 0 .. MaxCalls]
  /\ logger \in LoggerStep
  /\ entry \in Entry \cup {NoEntry}
  /\ dropped \in 0 .. CounterRange - 1
  /\ reread \in 0 .. CounterRange - 1
  /\ resets \in 0 .. MaxResets
  /\ accepted \in Seq(Entry)
  /\ untaken \in BOOLEAN
  /\ unwritten \in BOOLEAN
  /\ wrapped \in BOOLEAN
  /\ FileTypeOK(Entry \cup Reports)

\* main: logger_init, and the tasks created.  No entry is in hand yet.
Init ==
  /\ s_log_queue = <<>>
  /\ s_dropped = 0
  /\ client = [c \in Client |-> "idle"]
  /\ loaded = [c \in Client |-> 0]
  /\ logger = "mount"
  /\ entry = NoEntry
  /\ dropped = 0
  /\ reread = 0
  /\ untaken = FALSE
  /\ unwritten = FALSE
  /\ wrapped = FALSE
  /\ calls = [c \in Client |-> 0]
  /\ resets = 0
  /\ accepted = <<>>
  /\ FileInit

--------------------------------------------------------------------------------
\* logger_log, called by client c.

\* The entry is filled in from the arguments and the tick count.
Call(c) ==
  /\ client[c] = "idle"
  /\ calls[c] < MaxCalls
  /\ calls' = [calls EXCEPT ![c] = @ + 1]
  /\ client' = [client EXCEPT ![c] = "send"]
  /\ UNCHANGED <<queueVars, s_dropped, loaded, loggerVars, dropVars, resets, fileVars>>

EntryOf(c) == [from |-> c, nr |-> calls[c]]

\* xQueueSend(s_log_queue, &entry, 0): never waits.
SendUnbounded(c) ==   \* mutant: the queue's depth is not looked at
  /\ client[c] = "send"
  /\ s_log_queue' = Append(s_log_queue, EntryOf(c))
  /\ accepted' = Append(accepted, EntryOf(c))
  /\ client' = [client EXCEPT ![c] = "idle"]
  /\ UNCHANGED <<s_dropped, loaded, calls, loggerVars, dropVars, resets, fileVars>>

Send(c) ==
  /\ client[c] = "send"
  /\ Len(s_log_queue) < LOG_QUEUE_DEPTH
  /\ s_log_queue' = Append(s_log_queue, EntryOf(c))
  /\ accepted' = Append(accepted, EntryOf(c))
  /\ client' = [client EXCEPT ![c] = "idle"]
  /\ UNCHANGED <<s_dropped, loaded, calls, loggerVars, dropVars, resets, fileVars>>

SendFullWaits(c) ==   \* mutant: xQueueSend(s_log_queue, &entry, portMAX_DELAY)
  /\ client[c] = "send"
  /\ Len(s_log_queue) = LOG_QUEUE_DEPTH
  /\ UNCHANGED vars

SendFull(c) ==
  /\ client[c] = "send"
  /\ Len(s_log_queue) = LOG_QUEUE_DEPTH
  /\ client' = [client EXCEPT ![c] = "load"]
  /\ untaken' = TRUE
  /\ UNCHANGED <<queueVars, s_dropped, loaded, calls, loggerVars, unwritten, wrapped,
                 resets, fileVars>>

\* s_dropped++, a load and a store.
LoadDropped(c) ==
  /\ client[c] = "load"
  /\ loaded' = [loaded EXCEPT ![c] = s_dropped]
  /\ client' = [client EXCEPT ![c] = "store"]
  /\ UNCHANGED <<queueVars, s_dropped, calls, loggerVars, dropVars, resets, fileVars>>

StoreUnchanged(c) ==   \* mutant: the increment is lost
  /\ client[c] = "store"
  /\ s_dropped' = loaded[c]
  /\ loaded' = [loaded EXCEPT ![c] = 0]
  /\ client' = [client EXCEPT ![c] = "idle"]
  /\ UNCHANGED <<queueVars, calls, loggerVars, dropVars, resets, fileVars>>

StoreDropped(c) ==
  /\ client[c] = "store"
  /\ s_dropped' = (loaded[c] + 1) % CounterRange
  /\ loaded' = [loaded EXCEPT ![c] = 0] \* the register is dead from here on
  /\ client' = [client EXCEPT ![c] = "idle"]
  /\ wrapped' = (wrapped \/ loaded[c] + 1 = CounterRange)
  /\ UNCHANGED <<queueVars, calls, loggerVars, untaken, unwritten, resets, fileVars>>

\* The rest of a call that has begun.
Finish(c) == Send(c) \/ SendFull(c) \/ LoadDropped(c) \/ StoreDropped(c)

--------------------------------------------------------------------------------
\* logger_task.

\* A start-up step that succeeds.
Passes(step, next) ==
  /\ logger = step
  /\ logger' = next
  /\ UNCHANGED <<queueVars, s_dropped, clientVars, entry, dropped, reread, dropVars,
                 resets, fileVars>>

Mount == Passes("mount", "mkdir")
MakeDirectory == Passes("mkdir", "open")

\* f_mount, f_mkdir or f_open fails: the task sleeps for ever.
StartUpFails ==
  /\ logger \in {"mount", "mkdir", "open"}
  /\ NotOpened
  /\ logger' = "parked"
  /\ UNCHANGED <<queueVars, s_dropped, clientVars, entry, dropped, reread, dropVars,
                 resets>>

Open ==
  /\ logger = "open"
  /\ OpenAppend
  /\ logger' = "receive"
  /\ UNCHANGED <<queueVars, s_dropped, clientVars, entry, dropped, reread, dropVars,
                 resets, faults>>

\* xQueueReceive(s_log_queue, &entry, portMAX_DELAY).
Peek ==   \* mutant: xQueuePeek
  /\ logger = "receive"
  /\ s_log_queue # <<>>
  /\ entry' = Head(s_log_queue)
  /\ logger' = "load"
  /\ UNCHANGED <<queueVars, s_dropped, clientVars, dropped, reread, dropVars, resets,
                 fileVars>>

Receive ==
  /\ logger = "receive"
  /\ s_log_queue # <<>>
  /\ entry' = Head(s_log_queue)
  /\ s_log_queue' = Tail(s_log_queue)
  /\ logger' = "load"
  /\ UNCHANGED <<accepted, s_dropped, clientVars, dropped, reread, dropVars, resets,
                 fileVars>>

\* uint32_t dropped = s_dropped; if (dropped > 0)
LoadCount ==
  /\ logger = "load"
  /\ dropped' = s_dropped
  /\ logger' = IF s_dropped > 0 THEN "reload" ELSE "put"
  /\ UNCHANGED <<queueVars, s_dropped, clientVars, entry, reread, dropVars, resets,
                 fileVars>>

\* s_dropped -= dropped, a load and a store.
ReloadCount ==
  /\ logger = "reload"
  /\ reread' = s_dropped
  /\ logger' = "subtract"
  /\ UNCHANGED <<queueVars, s_dropped, clientVars, entry, dropped, dropVars, resets,
                 fileVars>>

SubtractCount ==
  /\ logger = "subtract"
  /\ s_dropped' = (reread - dropped) % CounterRange
  /\ reread' = 0 \* the register is dead from here on
  /\ logger' = "report"
  /\ untaken' = FALSE
  /\ unwritten' = (unwritten \/ untaken)
  /\ UNCHANGED <<queueVars, clientVars, entry, dropped, wrapped, resets, fileVars>>

\* The results of f_puts and f_sync are ignored.
PutReport ==
  /\ logger = "report"
  /\ f_puts(Report(dropped))
  /\ unwritten' = (unwritten /\ log' # Append(log, Report(dropped)))
  /\ logger' = "put"
  /\ UNCHANGED <<queueVars, s_dropped, clientVars, entry, dropped, reread, untaken,
                 wrapped, resets>>

PutEntry ==
  /\ logger = "put"
  /\ f_puts(entry)
  /\ logger' = "sync"
  /\ UNCHANGED <<queueVars, s_dropped, clientVars, entry, dropped, reread, dropVars,
                 resets>>

SyncWhenIdle ==   \* mutant: f_sync only once the queue has been drained
  /\ logger = "sync"
  /\ IF s_log_queue = <<>> THEN f_sync ELSE UNCHANGED fileVars
  /\ logger' = "receive"
  /\ UNCHANGED <<queueVars, s_dropped, clientVars, entry, dropped, reread, dropVars,
                 resets>>

Sync ==
  /\ logger = "sync"
  /\ f_sync
  /\ logger' = "receive"
  /\ UNCHANGED <<queueVars, s_dropped, clientVars, entry, dropped, reread, dropVars,
                 resets>>

LoggerTask == \/ Mount \/ MakeDirectory \/ Open \/ StartUpFails
              \/ Receive \/ LoadCount \/ ReloadCount \/ SubtractCount
              \/ PutReport \/ PutEntry \/ Sync

--------------------------------------------------------------------------------
\* The entries among the first n lines, for every n: reports and torn lines are none.
EntriesUpTo(lines) ==
  LET upTo[n \in 0 .. Len(lines)] ==
        IF n = 0 THEN <<>>
        ELSE IF lines[n] \in Entry THEN Append(upTo[n - 1], lines[n])
        ELSE upTo[n - 1]
  IN  upTo

Entries(lines) == EntriesUpTo(lines)[Len(lines)]

OnCard == EntriesUpTo(log)[durable]

\* The board resets: RAM is lost, the card keeps what it has got, inside a call of
\* FatFs as well as between two.
Reset ==
  /\ resets < MaxResets
  /\ resets' = resets + 1
  /\ s_log_queue' = <<>>
  /\ s_dropped' = 0
  /\ client' = [c \in Client |-> "idle"]
  /\ loaded' = [c \in Client |-> 0]
  /\ logger' = "mount"
  /\ entry' = NoEntry
  /\ dropped' = 0
  /\ reread' = 0
  /\ untaken' = FALSE
  /\ unwritten' = FALSE
  /\ wrapped' = FALSE
  /\ PowerCut
  /\ accepted' = OnCard'
  /\ UNCHANGED calls

Next == \/ \E c \in Client : Call(c) \/ Finish(c)
        \/ LoggerTask
        \/ Reset

\* The kernel's time slicing runs every task that is ready: the calls that have
\* begun and logger_task go on.  Nobody has to call logger_log again.
Fairness == /\ \A c \in Client : WF_vars(Finish(c))
            /\ WF_vars(LoggerTask)

Spec == Init /\ [][Next]_vars /\ Fairness

--------------------------------------------------------------------------------
\* The card holds a prefix of the accepted entries, in the order of acceptance:
\* whatever writes fail and whenever the board resets, the log has no holes, no
\* duplicates, nothing out of order, and keeps what is on the card.
Service == INSTANCE DurableLog WITH card <- OnCard

ImplementsDurableLog == Service!Init /\ [][Service!Next]_(Service!vars)

\* No accepted entry is lost between the queue and the file while writes get
\* through: each is in the file, in logger_task's hand, or in the queue.
InHand == IF logger \in {"load", "reload", "subtract", "report", "put"}
          THEN <<entry>> ELSE <<>>

NothingLost == ~stuck => accepted = Entries(log) \o InHand \o s_log_queue

\* Each task's entries are in the log in the order of its calls, and none of them
\* twice, whatever the other tasks, the drops and the resets do to the rest.
EachTaskInOrder ==
  \A i, j \in 1 .. Len(log) :
    i < j /\ log[i] \in Entry /\ log[j] \in Entry /\ log[i].from = log[j].from
      => log[i].nr < log[j].nr

\* "the event is no longer silent" (docs/LOGGER.md), of every drop, although the counter
\* is shared without a lock and its updates race.  As long as writes get through:
\* a drop that a subtraction has taken is in a report in the file before logger_task
\* goes on; any other is still to be counted, or counted, so that the next entry brings
\* its report.  But with two tasks that log, a late store can put back a count that the
\* logger then subtracts from, which leaves CounterRange - 1 at the least; the increment
\* that wraps from there to 0 is a drop that nothing shows.  The property ends with it.
DropsNeverSilent ==
  ~stuck =>
    /\ unwritten => logger = "report"
    /\ untaken /\ ~wrapped => \/ s_dropped > 0
                              \/ logger \in {"reload", "subtract"}
                              \/ \E c \in Client : client[c] \in {"load", "store"}

\* When logger_task waits for the next entry, everything before it is on the card:
\* a power cut costs the queue and the entry being written, nothing more.
OnlyCurrentEntryAtRisk == faults = 0 /\ logger = "receive" => durable = Len(log)

\* "a task doing real work is never held up waiting for the logger"
\* (docs/LOGGER.md): every call ends, even when logger_task sleeps for ever.
CallsReturn == \A c \in Client : client[c] # "idle" ~> client[c] = "idle"

\* An accepted entry gets to the card, unless the card fails or the board resets.
AcceptedBecomesDurable ==
  \A e \in Entry :
    (\E i \in 1 .. Len(accepted) : accepted[i] = e)
      ~> \/ \E i \in 1 .. durable : log[i] = e
         \/ faults > 0
         \/ resets > 0

\* "a recovery message is written to the log as soon as space becomes available"
\* (docs/LOGGER.md).
RecoveryReported == s_dropped > 0 ~> s_dropped = 0
================================================================================
