------------------------------ MODULE BoundedFifo ------------------------------
(***************************************************************************)
(* What the circular buffer of Core/Src/cbuf.c promises to its two tasks:  *)
(* a first-in first-out queue of at most Capacity bytes.  A write waits    *)
(* for room and appends; a read waits for an item and hands out the oldest *)
(* one.  CircBuf is shown to implement this specification.                 *)
(***************************************************************************)
EXTENDS Naturals, Sequences

CONSTANTS Capacity, \* the number of slots (CBUF_SIZE)
          Value     \* the values that can be written

VARIABLES q,        \* the values written and not yet read, oldest first
          got       \* the value handed out by the latest read

vars == <<q, got>>

Init == q = <<>> /\ got \in Value

Put == /\ Len(q) < Capacity
       /\ \E v \in Value : q' = Append(q, v)
       /\ UNCHANGED got

Get == /\ q # <<>>
       /\ got' = Head(q)
       /\ q' = Tail(q)

Next == Put \/ Get

\* The safety part, which the proofs use, and the promise of progress.
SafeSpec == Init /\ [][Next]_vars

Spec == SafeSpec /\ WF_vars(Put) /\ WF_vars(Get)
================================================================================
