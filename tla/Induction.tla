------------------------------- MODULE Induction -------------------------------
(***************************************************************************)
(* Induction over the natural numbers, for provers of first-order logic:   *)
(* with a set in place of a predicate, and for a recursive function with   *)
(* its step and what is to be shown of it as constants that a user of this *)
(* module gives by INSTANCE ... WITH.                                      *)
(***************************************************************************)
EXTENDS Integers, WellFoundedInduction, TLAPS

CONSTANTS Step(_, _, _),     \* from the value at n - 1 to the value at n
          Good(_, _, _, _)   \* what is claimed of the value at n

\* Every non-empty set of natural numbers has a least element.
LEMMA LeastNumber ==
  ASSUME NEW T \in SUBSET Nat, T # {}
  PROVE  \E m \in T : \A n \in T : m <= n
<1>1. PICK m \in T : \A n \in T : <<n, m>> \notin OpToRel(<, Nat)
  BY NatLessThanWellFounded, WFMin
<1>2. \A n \in T : ~(n < m)
  BY <1>1 DEF OpToRel
<1> QED
  BY <1>2

\* A set that has 0, and with each number its successor, has all natural numbers.
LEMMA NatSetInduction ==
  ASSUME NEW S, 0 \in S, \A n \in Nat : n \in S => n + 1 \in S
  PROVE  \A n \in Nat : n \in S
<1> DEFINE T == Nat \ S
<1>1. SUFFICES ASSUME T # {}
               PROVE  FALSE
  OBVIOUS
<1>2. PICK m \in T : \A n \in T : m <= n
  BY <1>1, LeastNumber
<1>3. m \in Nat /\ m # 0
  BY <1>2
<1>4. m - 1 \in Nat /\ ~(m <= m - 1)
  BY <1>3
<1>5. m - 1 \in S
  BY <1>2, <1>4
<1>6. (m - 1) + 1 \in S
  BY <1>4, <1>5
<1> QED
  BY <1>2, <1>3, <1>6

\* The function on 0 .. max that starts with base and goes on by steps; p is whatever the
\* step depends on besides.
Recursive(p, base, max) ==
  LET f[n \in 0 .. max] == IF n = 0 THEN base ELSE Step(p, n, f[n - 1]) IN f

Satisfies(f, p, base, max) ==
  f = [n \in 0 .. max |-> IF n = 0 THEN base ELSE Step(p, n, f[n - 1])]

\* There is such a function.
LEMMA RecursionExists ==
  ASSUME NEW p, NEW base
  PROVE  \A max \in Nat : \E f : Satisfies(f, p, base, max)
<1> DEFINE S == {max \in Nat : \E f : Satisfies(f, p, base, max)}
<1>1. 0 \in S
  <2>1. Satisfies([n \in 0 .. 0 |-> base], p, base, 0)
    BY DEF Satisfies
  <2> QED
    BY <2>1
<1>2. ASSUME NEW m \in Nat, m \in S
      PROVE  m + 1 \in S
  <2>1. PICK f : Satisfies(f, p, base, m)
    BY <1>2
  <2> DEFINE g == [n \in 0 .. m + 1 |-> IF n = 0 THEN base ELSE Step(p, n, f[n - 1])]
  <2>2. \A n \in 0 .. m : g[n] = f[n]
    BY <2>1 DEF Satisfies
  <2>3. ASSUME NEW n \in 0 .. m + 1
        PROVE  g[n] = IF n = 0 THEN base ELSE Step(p, n, g[n - 1])
    <3>1. n # 0 => n - 1 \in 0 .. m
      OBVIOUS
    <3>2. n # 0 => g[n - 1] = f[n - 1]
      BY <2>2, <3>1
    <3> QED
      BY <3>2
  <2>4. g = [n \in 0 .. m + 1 |-> g[n]]
    OBVIOUS
  <2> HIDE DEF g
  <2>5. Satisfies(g, p, base, m + 1)
    BY <2>3, <2>4 DEF Satisfies
  <2> QED
    BY <2>5
<1> HIDE DEF S
<1>3. \A max \in Nat : max \in S
  BY <1>1, <1>2, NatSetInduction
<1> QED
  BY <1>3 DEF S

\* It is what its definition says.
LEMMA RecursionDef ==
  ASSUME NEW p, NEW base, NEW max \in Nat
  PROVE  /\ Recursive(p, base, max)[0] = base
         /\ \A n \in 1 .. max :
              Recursive(p, base, max)[n] = Step(p, n, Recursive(p, base, max)[n - 1])
<1>1. Satisfies(Recursive(p, base, max), p, base, max)
  <2>1. \E f : Satisfies(f, p, base, max)
    BY RecursionExists
  <2> QED
    BY <2>1 DEF Satisfies, Recursive
<1>2. \A n \in 0 .. max : Recursive(p, base, max)[n] =
        IF n = 0 THEN base ELSE Step(p, n, Recursive(p, base, max)[n - 1])
  BY <1>1 DEF Satisfies
<1>3. 0 \in 0 .. max /\ \A n \in 1 .. max : n \in 0 .. max /\ n # 0
  OBVIOUS
<1> QED
  BY <1>2, <1>3

\* What holds of its first value, and of each with the one before it, holds of all; q is
\* whatever the claim depends on besides.
LEMMA RecursionInduction ==
  ASSUME NEW p, NEW q, NEW base, NEW max \in Nat,
         Good(p, q, 0, base),
         \A n \in 1 .. max : \A x : Good(p, q, n - 1, x) => Good(p, q, n, Step(p, n, x))
  PROVE  \A n \in 0 .. max : Good(p, q, n, Recursive(p, base, max)[n])
<1> DEFINE f == Recursive(p, base, max)
           S == {n \in Nat : n <= max => Good(p, q, n, f[n])}
<1>0. f[0] = base /\ \A n \in 1 .. max : f[n] = Step(p, n, f[n - 1])
  BY RecursionDef
<1> HIDE DEF f
<1>1. 0 \in S
  BY <1>0
<1>2. ASSUME NEW n \in Nat, n \in S
      PROVE  n + 1 \in S
  <2>1. SUFFICES ASSUME n + 1 <= max
                 PROVE  Good(p, q, n + 1, f[n + 1])
    OBVIOUS
  <2>2. /\ n + 1 \in 1 .. max /\ (n + 1) - 1 = n
        /\ Good(p, q, n, f[n])
    BY <1>2, <2>1
  <2>3. f[n + 1] = Step(p, n + 1, f[n])
    BY <1>0, <2>2
  <2>4. Good(p, q, n + 1, Step(p, n + 1, f[n]))
    BY <2>2
  <2> QED
    BY <2>3, <2>4
<1> HIDE DEF S
<1>3. \A n \in Nat : n \in S
  BY <1>1, <1>2, NatSetInduction
<1>4. \A n \in 0 .. max : Good(p, q, n, f[n])
  BY <1>3 DEF S
<1> QED
  BY <1>4 DEF f
================================================================================
