-------------------------------- MODULE BlockDevice --------------------------------
(***************************************************************************)
(* What disk_initialize, disk_read and disk_write promise to FatFs, sector *)
(* by sector.  A write that is reported as failed may have taken place, or *)
(* may take place later; but no sector is read or written successfully     *)
(* after it before that is decided.  So to FatFs a sector whose write      *)
(* failed is old or new from then on.  SdCard is shown to implement this.  *)
(***************************************************************************)
EXTENDS Integers

CONSTANTS Sector, Data, NoCall, NoWrite

VARIABLES
  contents, \* of the card's sectors
  late,     \* the sector write the card is doing, or NoWrite
  call,     \* the call in progress or the last one: [op, sector, count]
  running,  \* it is in progress
  buff,     \* its buffer
  done,     \* sectors of it that are done
  result,   \* what the last call returned
  excused   \* something happened that leaves no trace on the bus

vars == <<contents, late, call, running, buff, done, result, excused>>

Init ==
  /\ contents \in [Sector -> Data]
  /\ late = NoWrite
  /\ call = NoCall
  /\ ~running
  /\ buff = <<>>
  /\ done = 0
  /\ result = "RES_OK"
  /\ excused = FALSE

\* A call; without a card that is initialised it returns at once.
Call ==
  /\ ~running
  /\ done' = 0
  /\ \/ running' = TRUE /\ UNCHANGED result
     \/ call'.op # "initialize" /\ result' = "RES_NOTRDY" /\ UNCHANGED running
  /\ UNCHANGED <<contents, late, excused>>

\* The card takes the next sector of a write.
Take ==
  /\ running
  /\ call.op = "write"
  /\ late = NoWrite
  /\ late' = [sector |-> call.sector + done, data |-> buff[done]]
  /\ UNCHANGED <<contents, call, running, buff, done, result, excused>>

\* It does what it has taken, whatever has become of the call.
Land ==
  /\ late # NoWrite
  /\ contents' = [contents EXCEPT ![late.sector] = late.data]
  /\ late' = NoWrite
  /\ UNCHANGED <<call, running, buff, done, result, excused>>

\* A supply glitch: the sector old or new, and nobody notices.
Forget ==
  /\ late # NoWrite
  /\ contents' \in {contents, [contents EXCEPT ![late.sector] = late.data]}
  /\ late' = NoWrite
  /\ excused' = TRUE
  /\ UNCHANGED <<call, running, buff, done, result>>

\* A sector is done; the last one ends the call.
SectorDone ==
  /\ running
  /\ late = NoWrite
  /\ done' = done + 1
  /\ \/ /\ call.op = "write"
        /\ contents[call.sector + done] = buff[done] \/ excused
        /\ UNCHANGED <<buff, excused>>
     \/ /\ call.op = "read"
        /\ \/ /\ buff' = [buff EXCEPT ![done] = contents[call.sector + done]]
              /\ UNCHANGED excused
           \/ /\ \E damaged \in Data : buff' = [buff EXCEPT ![done] = damaged]
              /\ excused'
  /\ IF done' = call.count THEN ~running' /\ result' = "RES_OK"
                           ELSE UNCHANGED <<running, result>>
  /\ UNCHANGED <<contents, late, call>>

\* The call fails, or disk_initialize returns.
Fails ==
  /\ running
  /\ ~running'
  /\ result' \in IF call.op = "initialize" THEN {"0", "STA_NOINIT"} ELSE {"RES_ERROR"}
  /\ UNCHANGED <<contents, late, call, buff, done, excused>>

Next == Call \/ Take \/ Land \/ Forget \/ SectorDone \/ Fails

Spec == Init /\ [][Next]_vars
================================================================================
