-------------------------------- MODULE FatFile --------------------------------
(***************************************************************************)
(* The log file as ThirdParty/FatFS/ff.c keeps it between the logger task  *)
(* and the card, reduced to whole lines: how far the file has been         *)
(* written, how much of it a reader of the card would find after a reset,  *)
(* and how a failing card shows.  Every fault of the card spends one of    *)
(* MaxFaults.                                                              *)
(*                                                                         *)
(* Assumption: the card writes one sector entirely or not at all, so       *)
(* rewriting the last, partly filled sector keeps the lines it held.       *)
(***************************************************************************)
EXTENDS Integers, Sequences

CONSTANTS Torn,      \* a line cut short by a failed write
          MaxFaults  \* bound: card faults in a behaviour

ASSUME FaultAssumption == MaxFaults \in Nat

VARIABLES
  log,      \* the lines of the file, as the FIL object sees them
  durable,  \* how many of them the directory entry on the card covers
  cached,   \* how many the directory entry in the FATFS sector window covers
  modified, \* FA_MODIFIED: f_sync has something to do
  stuck,    \* fp->err is set, or the volume is full: no write gets through
  faults    \* card faults so far

fileVars == <<log, durable, cached, modified, stuck, faults>>

FileTypeOK(Line) ==
  /\ log \in Seq(Line \cup {Torn})
  /\ durable \in 0 .. Len(log)
  /\ cached \in durable .. Len(log)
  /\ modified \in BOOLEAN
  /\ stuck \in BOOLEAN
  /\ faults \in 0 .. MaxFaults

FileInit ==
  /\ log = <<>>
  /\ durable = 0
  /\ cached = 0
  /\ modified = FALSE
  /\ stuck = FALSE
  /\ faults = 0

Fault == faults < MaxFaults /\ faults' = faults + 1

\* A step that can allocate a cluster moves the sector window, which writes a
\* directory entry left over from a failed f_sync.
MayFlushWindow == durable' \in {durable, cached} /\ UNCHANGED cached

--------------------------------------------------------------------------------
\* f_open(FA_WRITE | FA_OPEN_APPEND) on success: the write position is the size
\* in the directory entry, the error flag is clear.  A file that was not there is
\* marked modified.
OpenAppend ==
  /\ log' = SubSeq(log, 1, durable)
  /\ cached' = durable
  /\ modified' \in {FALSE, durable = 0}
  /\ stuck' = FALSE
  /\ UNCHANGED durable

\* f_puts of one line: a few f_write calls of at most 64 bytes.  Once a write has
\* failed, fp->err makes all later ones fail; on a full volume they write nothing
\* but still mark the file modified.
PutStuck ==
  /\ stuck
  /\ modified' \in {modified, TRUE}
  /\ MayFlushWindow
  /\ UNCHANGED <<log, stuck, faults>>

PutWhole(line) ==
  /\ ~stuck
  /\ log' = Append(log, line)
  /\ modified' = TRUE
  /\ MayFlushWindow
  /\ UNCHANGED <<stuck, faults>>

\* The write-back of the full sector or the allocation of a cluster fails, with
\* none or some of the line's bytes already part of the file.
PutFails ==
  /\ ~stuck
  /\ Fault
  /\ stuck' = TRUE
  /\ log' \in {log, Append(log, Torn)}
  /\ modified' \in {modified, TRUE}
  /\ MayFlushWindow

f_puts_ignoring_err(line) ==   \* mutant: f_write does not look at fp->err
  \/ /\ log' = Append(log, line)
     /\ modified' = TRUE
     /\ MayFlushWindow
     /\ UNCHANGED <<stuck, faults>>
  \/ PutFails

f_puts(line) == PutStuck \/ PutWhole(line) \/ PutFails

\* f_sync: write back the data sector, then the directory entry.
SyncNothing ==
  /\ ~modified
  /\ UNCHANGED fileVars

SyncWithoutDirectory ==   \* mutant: the directory entry is not rewritten
  /\ modified
  /\ modified' = FALSE
  /\ UNCHANGED <<log, durable, cached, stuck, faults>>

SyncDone ==
  /\ modified
  /\ durable' = Len(log)
  /\ cached' = Len(log)
  /\ modified' = FALSE
  /\ UNCHANGED <<log, stuck, faults>>

\* The data sector cannot be written: the file stays modified and dirty.
SyncDataFails ==
  /\ modified
  /\ Fault
  /\ UNCHANGED <<log, durable, cached, modified, stuck>>

\* The directory sector is reported as not written (the card may have written it
\* all the same): it stays in the window, but FA_MODIFIED is cleared.
SyncDirectoryFails ==
  /\ modified
  /\ Fault
  /\ cached' = Len(log)
  /\ durable' \in {durable, Len(log)}
  /\ modified' = FALSE
  /\ UNCHANGED <<log, stuck>>

f_sync == SyncNothing \/ SyncDone \/ SyncDataFails \/ SyncDirectoryFails

--------------------------------------------------------------------------------
\* The power goes, in a call or between two.  Inside f_sync the card may have the new
\* directory entry already, in other calls the one that was in the window.
PowerCut ==
  /\ durable' \in {durable, cached} \cup (IF modified THEN {Len(log)} ELSE {})
  /\ log' = SubSeq(log, 1, durable')
  /\ cached' = durable'
  /\ modified' = FALSE
  /\ stuck' = FALSE
  /\ UNCHANGED faults

\* A call of the API before the file is open fails.
NotOpened ==
  /\ Fault
  /\ UNCHANGED <<log, durable, cached, modified, stuck>>
================================================================================
