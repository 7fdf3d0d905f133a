--------------------------- MODULE KeptPlacesProofs ----------------------------
(***************************************************************************)
(* What Kept of KeptPlaces computes, for every set of places and every     *)
(* length.                                                                 *)
(*                                                                         *)
(* The library's induction theorems are about operators, which the provers *)
(* cannot instantiate.  Induction over a set of numbers needs no operator: *)
(* it follows from the order on Nat being well-founded, of which the       *)
(* library has a statement about sets.                                     *)
(***************************************************************************)
EXTENDS KeptPlaces, WellFoundedInduction, TLAPS

\* Every non-empty set of natural numbers has a least element.
LEMMA LeastNumber ==
  ASSUME NEW T \in SUBSET Nat, T # {}
  PROVE  \E n \in T : \A m \in T : n <= m
  <1>1. IsWellFoundedOn(OpToRel(<, Nat), Nat)
    BY NatLessThanWellFounded
  <1>2. PICK n \in T : \A m \in T : ~ (<<m, n>> \in OpToRel(<, Nat))
    BY <1>1, WFMin
  <1>3. \A x, y \in Nat : x < y => <<x, y>> \in OpToRel(<, Nat)
    BY DEF OpToRel
  <1>4. \A m \in T : ~ (m < n)
    BY <1>2, <1>3, Zenon
  <1>5. \A m \in T : n <= m
    BY <1>4
  <1> QED
    BY <1>5

\* Induction: a set that has 0, and with every number its successor, has them all.
LEMMA Induction ==
  ASSUME NEW S, 0 \in S, \A n \in Nat : n \in S => n + 1 \in S
  PROVE  \A n \in Nat : n \in S
  <1> DEFINE missing == Nat \ S
  <1>1. SUFFICES ASSUME missing # {} PROVE FALSE
    OBVIOUS
  <1>2. PICK n \in missing : \A m \in missing : n <= m
    BY <1>1, LeastNumber
  <1>3. n # 0 /\ n \in Nat
    BY <1>2
  <1>4. n - 1 \in Nat /\ ~ (n <= n - 1) /\ (n - 1) + 1 = n
    BY <1>3
  <1>5. n - 1 \in S
    BY <1>2, <1>4
  <1> QED
    BY <1>2, <1>4, <1>5

-------------------------------------------------------------------------------
(* The recursive definition determines a function. *)

\* One turn of the loop, after which f is what it was before.
Turn(I, f, i) == IF i = 0 THEN <<>>
                 ELSE IF i \in I THEN Append(f[i - 1], i) ELSE f[i - 1]

\* f is what the loop computes in its first n turns.
Loop(I, f, n) == f = [i \in 0 .. n |-> Turn(I, f, i)]

\* Every number of turns can be computed.
LEMMA LoopExists ==
  ASSUME NEW I
  PROVE  \A n \in Nat : \E f : Loop(I, f, n)
  <1> DEFINE S == {n \in Nat : \E f : Loop(I, f, n)}
  <1>1. 0 \in S
    <2> DEFINE f == [i \in 0 .. 0 |-> <<>>]
    <2>1. Loop(I, f, 0)
      BY DEF Loop, Turn
    <2> QED
      BY <2>1
  <1>2. ASSUME NEW n \in Nat, n \in S
        PROVE  n + 1 \in S
    <2>1. PICK f : Loop(I, f, n)
      BY <1>2
    <2> DEFINE g == [i \in 0 .. n + 1 |-> Turn(I, f, i)]
    <2>2. \A i \in 0 .. n : g[i] = f[i]
      BY <2>1 DEF Loop
    <2>3. \A i \in 0 .. n + 1 : Turn(I, g, i) = Turn(I, f, i)
      <3> TAKE i \in 0 .. n + 1
      <3>1. i = 0 \/ i - 1 \in 0 .. n
        OBVIOUS
      <3> HIDE DEF g
      <3> QED
        BY <3>1, <2>2 DEF Turn
    <2>4. g = [i \in 0 .. n + 1 |-> Turn(I, g, i)]
      BY <2>3
    <2> HIDE DEF g
    <2>5. Loop(I, g, n + 1)
      BY <2>4 DEF Loop
    <2> QED
      BY <2>5
  <1> HIDE DEF S
  <1>3. \A n \in Nat : n \in S
    BY <1>1, <1>2, Induction
  <1> QED
    BY <1>3 DEF S

\* What it computes in a turn does not depend on how many turns follow.
LEMMA LoopUnique ==
  ASSUME NEW I, NEW n \in Nat, NEW f, Loop(I, f, n), NEW m \in Nat, NEW g, Loop(I, g, m)
  PROVE  \A i \in Nat : i <= n /\ i <= m => f[i] = g[i]
  <1> DEFINE S == {i \in Nat : i <= n /\ i <= m => f[i] = g[i]}
  <1>a. \A i \in 0 .. n : f[i] = Turn(I, f, i)
    BY DEF Loop
  <1>b. \A i \in 0 .. m : g[i] = Turn(I, g, i)
    BY DEF Loop
  <1>1. 0 \in S
    BY <1>a, <1>b DEF Turn
  <1>2. ASSUME NEW i \in Nat, i \in S
        PROVE  i + 1 \in S
    <2> SUFFICES ASSUME i + 1 <= n, i + 1 <= m
                 PROVE  f[i + 1] = g[i + 1]
      OBVIOUS
    <2>1. i + 1 # 0 /\ (i + 1) - 1 = i /\ i + 1 \in 0 .. n /\ i + 1 \in 0 .. m
      OBVIOUS
    <2>2. f[i] = g[i]
      BY <1>2
    <2>3. f[i + 1] = Turn(I, f, i + 1) /\ g[i + 1] = Turn(I, g, i + 1)
      BY <1>a, <1>b, <2>1
    <2>4. Turn(I, f, i + 1) = Turn(I, g, i + 1)
      BY <2>1, <2>2 DEF Turn
    <2> QED
      BY <2>3, <2>4
  <1> HIDE DEF S
  <1>3. \A i \in Nat : i \in S
    BY <1>1, <1>2, Induction
  <1> QED
    BY <1>3 DEF S

\* So there is one function of all turns, and it is the one Kept applies.
LEMMA KeptFunction ==
  ASSUME NEW I
  PROVE  \E f : f = [i \in Nat |-> Turn(I, f, i)] /\ \A n : Kept(I, n) = f[n]
  <1> DEFINE part(n) == CHOOSE f : Loop(I, f, n)
             f == [n \in Nat |-> part(n)[n]]
             g == CHOOSE h : h = [i \in Nat |-> Turn(I, h, i)]
  <1>1. \A n \in Nat : Loop(I, part(n), n)
    BY LoopExists
  <1>2. \A n \in Nat : f[n] = Turn(I, f, n)
    <2> TAKE n \in Nat
    <2>1. part(n)[n] = Turn(I, part(n), n)
      <3> HIDE DEF part
      <3> QED
        BY <1>1 DEF Loop
    <2>2. CASE n = 0
      BY <2>1, <2>2 DEF Turn
    <2>3. CASE n # 0
      <3>1. n - 1 \in Nat /\ n - 1 <= n
        BY <2>3
      <3> HIDE DEF part
      <3>2. part(n)[n - 1] = part(n - 1)[n - 1]
        BY <3>1, <1>1, LoopUnique
      <3>3. f[n - 1] = part(n)[n - 1] /\ f[n] = part(n)[n]
        BY <3>1, <3>2
      <3> HIDE DEF f
      <3> QED
        BY <2>1, <2>3, <3>3 DEF Turn
    <2> QED
      BY <2>2, <2>3
  <1>3. f = [i \in Nat |-> Turn(I, f, i)]
    <2> HIDE DEF part
    <2> QED
      BY <1>2
  <1>4. g = [i \in Nat |-> Turn(I, g, i)]
    <2> HIDE DEF f
    <2> QED
      BY <1>3
  <1>5. \A n : Kept(I, n) = g[n]
    BY DEF Kept, Turn
  <1> HIDE DEF g
  <1> QED
    BY <1>4, <1>5

\* The recursive equation, by cases.
LEMMA KeptNone == \A I : Kept(I, 0) = <<>>
  <1> TAKE I
  <1>1. PICK f : f = [i \in Nat |-> Turn(I, f, i)] /\ \A n : Kept(I, n) = f[n]
    BY KeptFunction
  <1>2. f[0] = Turn(I, f, 0)
    BY <1>1
  <1> QED
    BY <1>1, <1>2 DEF Turn

LEMMA KeptNext ==
  ASSUME NEW I, NEW n \in Nat
  PROVE  Kept(I, n + 1) = IF n + 1 \in I THEN Append(Kept(I, n), n + 1) ELSE Kept(I, n)
  <1>1. PICK f : f = [i \in Nat |-> Turn(I, f, i)] /\ \A m : Kept(I, m) = f[m]
    BY KeptFunction
  <1>2. n + 1 \in Nat /\ n + 1 # 0 /\ (n + 1) - 1 = n
    OBVIOUS
  <1>3. f[n + 1] = Turn(I, f, n + 1)
    BY <1>1, <1>2
  <1>4. f[n + 1] = IF n + 1 \in I THEN Append(f[n], n + 1) ELSE f[n]
    BY <1>2, <1>3 DEF Turn
  <1> QED
    BY <1>1, <1>4

-------------------------------------------------------------------------------
(* What the loop keeps. *)

\* Only places of I, each of those it has met, and no more of them than it has met.
LEMMA KeptType ==
  ASSUME NEW I
  PROVE  \A n \in Nat :
           /\ Kept(I, n) \in Seq(Nat)
           /\ Len(Kept(I, n)) <= n
           /\ \A k \in DOMAIN Kept(I, n) : Kept(I, n)[k] \in I /\ Kept(I, n)[k] \in 1 .. n
  <1> DEFINE Good(n, s) == /\ s \in Seq(Nat)
                           /\ Len(s) <= n
                           /\ \A k \in DOMAIN s : s[k] \in I /\ s[k] \in 1 .. n
             S == {n \in Nat : Good(n, Kept(I, n))}
  <1>1. 0 \in S
    <2>1. Good(0, <<>>)
      OBVIOUS
    <2> HIDE DEF Good
    <2> QED
      BY <2>1, KeptNone
  <1>2. ASSUME NEW n \in Nat, n \in S
        PROVE  n + 1 \in S
    <2>1. Good(n, Kept(I, n))
      BY <1>2
    <2>2. Kept(I, n + 1) = IF n + 1 \in I THEN Append(Kept(I, n), n + 1) ELSE Kept(I, n)
      BY KeptNext
    <2>3. ASSUME NEW s, Good(n, s)
          PROVE  Good(n + 1, s) /\ (n + 1 \in I => Good(n + 1, Append(s, n + 1)))
      BY <2>3
    <2> HIDE DEF Good
    <2>4. Good(n + 1, Kept(I, n + 1))
      BY <2>1, <2>2, <2>3
    <2> QED
      BY <2>4
  <1> HIDE DEF S
  <1>3. \A n \in Nat : n \in S
    BY <1>1, <1>2, Induction
  <1> QED
    BY <1>3 DEF S

\* Nothing that comes later changes what was kept.
LEMMA KeptSame ==
  ASSUME NEW I, NEW J, NEW n \in Nat, \A i \in 1 .. n : i \in I <=> i \in J
  PROVE  Kept(I, n) = Kept(J, n)
  <1> DEFINE S == {m \in Nat : m <= n => Kept(I, m) = Kept(J, m)}
  <1>1. 0 \in S
    BY KeptNone
  <1>2. ASSUME NEW m \in Nat, m \in S
        PROVE  m + 1 \in S
    <2> SUFFICES ASSUME m + 1 <= n PROVE Kept(I, m + 1) = Kept(J, m + 1)
      OBVIOUS
    <2>1. Kept(I, m) = Kept(J, m)
      BY <1>2
    <2>2. m + 1 \in I <=> m + 1 \in J
      OBVIOUS
    <2>3. /\ Kept(I, m + 1) = IF m + 1 \in I THEN Append(Kept(I, m), m + 1) ELSE Kept(I, m)
          /\ Kept(J, m + 1) = IF m + 1 \in J THEN Append(Kept(J, m), m + 1) ELSE Kept(J, m)
      BY KeptNext
    <2> QED
      BY <2>1, <2>2, <2>3
  <1> HIDE DEF S
  <1>3. \A m \in Nat : m \in S
    BY <1>1, <1>2, Induction
  <1> QED
    BY <1>3 DEF S

\* Where every item passes, all of them are kept, each in its place.
LEMMA KeptAll ==
  ASSUME NEW I
  PROVE  \A n \in Nat : (\A i \in 1 .. n : i \in I) => Kept(I, n) = [i \in 1 .. n |-> i]
  <1> DEFINE S == {n \in Nat : (\A i \in 1 .. n : i \in I) => Kept(I, n) = [i \in 1 .. n |-> i]}
  <1>1. 0 \in S
    <2>1. <<>> = [i \in 1 .. 0 |-> i]
      OBVIOUS
    <2> QED
      BY <2>1, KeptNone
  <1>2. ASSUME NEW n \in Nat, n \in S
        PROVE  n + 1 \in S
    <2> SUFFICES ASSUME \A i \in 1 .. n + 1 : i \in I
                 PROVE  Kept(I, n + 1) = [i \in 1 .. n + 1 |-> i]
      OBVIOUS
    <2>1. Kept(I, n) = [i \in 1 .. n |-> i]
      BY <1>2
    <2>2. Kept(I, n + 1) = Append(Kept(I, n), n + 1)
      <3>1. n + 1 \in I
        OBVIOUS
      <3> QED
        BY <3>1, KeptNext
    <2>3. Append([i \in 1 .. n |-> i], n + 1) = [i \in 1 .. n + 1 |-> i]
      OBVIOUS
    <2> QED
      BY <2>1, <2>2, <2>3
  <1> HIDE DEF S
  <1>3. \A n \in Nat : n \in S
    BY <1>1, <1>2, Induction
  <1> QED
    BY <1>3 DEF S

\* s lists the places of I among the first n, each once and from first to last.
Lists(s, I, n) ==
  /\ s \in Seq(Nat)
  /\ \A k \in 1 .. Len(s) : s[k] \in I /\ s[k] \in 1 .. n
  /\ \A k, m \in 1 .. Len(s) : k < m => s[k] < s[m]
  /\ \A i \in 1 .. n : i \in I => \E k \in 1 .. Len(s) : s[k] = i

LEMMA ListsGrow ==
  ASSUME NEW I, NEW n \in Nat, NEW s, Lists(s, I, n)
  PROVE  IF n + 1 \in I THEN Lists(Append(s, n + 1), I, n + 1) ELSE Lists(s, I, n + 1)
  <1>1. CASE n + 1 \in I
    <2> DEFINE t == Append(s, n + 1)
    <2>1. /\ t \in Seq(Nat) /\ Len(t) = Len(s) + 1 /\ Len(s) \in Nat
          /\ t[Len(s) + 1] = n + 1
          /\ \A k \in 1 .. Len(s) : t[k] = s[k]
      BY DEF Lists
    <2> HIDE DEF t
    <2>2. \A k \in 1 .. Len(t) : k \in 1 .. Len(s) \/ k = Len(s) + 1
      BY <2>1
    <2>3. \A k \in 1 .. Len(s) : s[k] \in I /\ s[k] \in 1 .. n
      BY DEF Lists
    <2>4. \A k \in 1 .. Len(t) : t[k] \in I /\ t[k] \in 1 .. n + 1
      BY <1>1, <2>1, <2>2, <2>3
    <2>5. ASSUME NEW k \in 1 .. Len(t), NEW m \in 1 .. Len(t), k < m
          PROVE  t[k] < t[m]
      <3>1. k \in 1 .. Len(s)
        BY <2>1, <2>5
      <3>2. CASE m \in 1 .. Len(s)
        BY <2>1, <2>5, <3>1, <3>2 DEF Lists
      <3>3. CASE m = Len(s) + 1
        BY <2>1, <2>3, <3>1, <3>3
      <3> QED
        BY <2>2, <3>2, <3>3
    <2>6. ASSUME NEW i \in 1 .. n + 1, i \in I
          PROVE  \E k \in 1 .. Len(t) : t[k] = i
      <3>1. CASE i = n + 1
        BY <2>1, <3>1
      <3>2. CASE i \in 1 .. n
        <4>1. PICK k \in 1 .. Len(s) : s[k] = i
          BY <2>6, <3>2 DEF Lists
        <4> QED
          BY <2>1, <4>1
      <3> QED
        BY <3>1, <3>2
    <2>7. Lists(t, I, n + 1)
      BY <2>1, <2>4, <2>5, <2>6 DEF Lists
    <2> QED
      BY <1>1, <2>7 DEF t
  <1>2. CASE n + 1 \notin I
    BY <1>2 DEF Lists
  <1> QED
    BY <1>1, <1>2

\* The loop keeps exactly the places that pass its test, in their order.
THEOREM KeptIsTheLoop == \A I : \A n \in Nat : Lists(Kept(I, n), I, n)
  <1> TAKE I
  <1> DEFINE S == {n \in Nat : Lists(Kept(I, n), I, n)}
  <1>1. 0 \in S
    <2>1. Lists(<<>>, I, 0)
      BY DEF Lists
    <2> QED
      BY <2>1, KeptNone
  <1>2. ASSUME NEW n \in Nat, n \in S
        PROVE  n + 1 \in S
    <2>1. Lists(Kept(I, n), I, n)
      BY <1>2
    <2>2. Kept(I, n + 1) = IF n + 1 \in I THEN Append(Kept(I, n), n + 1) ELSE Kept(I, n)
      BY KeptNext
    <2> QED
      BY <2>1, <2>2, ListsGrow
  <1> HIDE DEF S
  <1>3. \A n \in Nat : n \in S
    BY <1>1, <1>2, Induction
  <1> QED
    BY <1>3 DEF S
===============================================================================
