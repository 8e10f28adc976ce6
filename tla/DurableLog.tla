------------------------------ MODULE DurableLog -------------------------------
(***************************************************************************)
(* What the logger promises about the entries it accepts: the card holds   *)
(* a prefix of them, in the order in which they were accepted, and what is *)
(* on the card stays there.  A reset forgets the entries that have not     *)
(* reached the card.  Logger is shown to implement this specification.     *)
(***************************************************************************)
EXTENDS Naturals, Sequences

CONSTANT Entry

VARIABLES accepted, \* the entries on the card at start-up, then those accepted since
          card      \* the entries a reader of the card finds

vars == <<accepted, card>>

Init == accepted = <<>> /\ card = <<>>

\* A log call whose entry finds room in the queue.
Accept == /\ \E e \in Entry : accepted' = Append(accepted, e)
          /\ UNCHANGED card

\* Some more of the accepted entries reach the card.
Persist == /\ \E n \in Len(card) + 1 .. Len(accepted) :
                card' = SubSeq(accepted, 1, n)
           /\ UNCHANGED accepted

\* A reset of the board, when some more may just be reaching the card.
Reset == /\ \E n \in Len(card) .. Len(accepted) : card' = SubSeq(accepted, 1, n)
         /\ accepted' = card'

Next == Accept \/ Persist \/ Reset

Spec == Init /\ [][Next]_vars
================================================================================
