-------------------------------- MODULE Loop --------------------------------
(***************************************************************************)
(* A loop of the code over numbered items: what n rounds make of a start.  *)
(* Round(arg, s, k) is what the round for item k makes of s; arg is what   *)
(* the loop reads and does not change.                                     *)
(***************************************************************************)
EXTENDS Integers, WellFoundedInduction

CONSTANT Round(_, _, _)

Rounds(arg, start, n) ==
  LET after[k \in Nat] == IF k = 0 THEN start ELSE Round(arg, after[k - 1], k)
  IN  after[n]

-----------------------------------------------------------------------------
(* Induction, for a set in place of a property.                            *)
LEMMA SetInduction ==
  ASSUME NEW S, 0 \in S, \A n \in Nat : n \in S => n + 1 \in S
  PROVE  Nat \subseteq S
  <1> DEFINE T == Nat \ S
             R == OpToRel(<, Nat)
  <1>1. SUFFICES ASSUME T # {} PROVE FALSE
    OBVIOUS
  <1>2. IsWellFoundedOn(R, Nat)
    BY NatLessThanWellFounded
  <1>3. \E x \in T : \A y \in T : ~ (<<y, x>> \in R)
    <2>1. T \subseteq Nat
      OBVIOUS
    <2> HIDE DEF R, T
    <2> QED BY <1>1, <1>2, <2>1, WFMin
  <1>4. PICK x \in T : \A y \in T : ~ (<<y, x>> \in R)
    BY <1>3
  <1>5. x # 0 /\ x \in Nat
    OBVIOUS
  <1>6. x - 1 \in T /\ x - 1 < x /\ x - 1 \in Nat
    BY <1>5
  <1> QED BY <1>4, <1>5, <1>6 DEF OpToRel

(* The values of the first n rounds.                                       *)
IsRun(arg, start, g, n) == g[0] = start /\ \A k \in 1 .. n : g[k] = Round(arg, g[k - 1], k)

LEMMA RunExists ==
  ASSUME NEW arg, NEW start
  PROVE  \A n \in Nat : \E g : IsRun(arg, start, g, n)
  <1> DEFINE N == {n \in Nat : \E g : IsRun(arg, start, g, n)}
  <1>1. 0 \in N
    <2>1. IsRun(arg, start, [k \in {0} |-> start], 0)
      BY DEF IsRun
    <2> QED BY <2>1
  <1>2. ASSUME NEW n \in Nat, n \in N PROVE n + 1 \in N
    <2>1. PICK g : IsRun(arg, start, g, n)
      BY <1>2
    <2> DEFINE x == Round(arg, g[n], n + 1)
               h == [k \in 0 .. n + 1 |-> IF k = n + 1 THEN x ELSE g[k]]
    <2>2. h[0] = start /\ h[n + 1] = x /\ \A k \in 0 .. n : h[k] = g[k]
      BY <2>1 DEF IsRun
    <2> HIDE DEF h
    <2>3. ASSUME NEW k \in 1 .. n + 1 PROVE h[k] = Round(arg, h[k - 1], k)
      <3>1. CASE k = n + 1
        <4>1. k - 1 = n /\ n \in 0 .. n
          BY <3>1
        <4> QED BY <2>2, <3>1, <4>1
      <3>2. CASE k # n + 1
        <4>1. k \in 1 .. n /\ k \in 0 .. n /\ k - 1 \in 0 .. n
          BY <3>2
        <4>2. g[k] = Round(arg, g[k - 1], k)
          BY <2>1, <4>1 DEF IsRun
        <4> QED BY <2>2, <4>1, <4>2
      <3> QED BY <3>1, <3>2
    <2>4. IsRun(arg, start, h, n + 1)
      BY <2>2, <2>3 DEF IsRun
    <2> QED BY <2>4
  <1> HIDE DEF N
  <1>3. Nat \subseteq N
    BY <1>1, <1>2, SetInduction
  <1> QED BY <1>3 DEF N

LEMMA RunUnique ==
  ASSUME NEW arg, NEW start, NEW g, NEW h, NEW n \in Nat, IsRun(arg, start, g, n), IsRun(arg, start, h, n)
  PROVE  \A k \in 0 .. n : g[k] = h[k]
  <1> DEFINE N == {k \in Nat : k <= n => g[k] = h[k]}
  <1>1. 0 \in N
    BY DEF IsRun
  <1>2. ASSUME NEW k \in Nat, k \in N PROVE k + 1 \in N
    <2>1. CASE k + 1 <= n
      <3>1. g[k] = h[k] /\ k + 1 \in 1 .. n /\ (k + 1) - 1 = k
        BY <1>2, <2>1
      <3>2. g[k + 1] = Round(arg, g[k], k + 1) /\ h[k + 1] = Round(arg, h[k], k + 1)
        BY <3>1 DEF IsRun
      <3> QED BY <3>1, <3>2
    <2>2. CASE ~ (k + 1 <= n)
      BY <2>2
    <2> QED BY <2>1, <2>2
  <1> HIDE DEF N
  <1>3. Nat \subseteq N
    BY <1>1, <1>2, SetInduction
  <1> QED BY <1>3 DEF N

(* No round leaves the start as it is, and every round adds to the ones    *)
(* before it: the function that Rounds defines exists.                     *)
LEMMA RoundsAre ==
  ASSUME NEW arg, NEW start
  PROVE  /\ Rounds(arg, start, 0) = start
         /\ \A n \in Nat : Rounds(arg, start, n + 1) = Round(arg, Rounds(arg, start, n), n + 1)
  <1> DEFINE G(n) == CHOOSE g : IsRun(arg, start, g, n)
             f == [n \in Nat |-> G(n)[n]]
             Value(h, k) == IF k = 0 THEN start ELSE Round(arg, h[k - 1], k)
             IsAfter(h) == h = [k \in Nat |-> IF k = 0 THEN start ELSE Round(arg, h[k - 1], k)]
  <1>1. \A n \in Nat : IsRun(arg, start, G(n), n)
    BY RunExists
  <1>2. f[0] = start
    BY <1>1 DEF IsRun
  <1>3. ASSUME NEW n \in Nat PROVE f[n + 1] = Round(arg, f[n], n + 1)
    <2>1. IsRun(arg, start, G(n), n) /\ IsRun(arg, start, G(n + 1), n + 1)
      BY <1>1
    <2> HIDE DEF G
    <2>2. IsRun(arg, start, G(n + 1), n)
      BY <2>1 DEF IsRun
    <2>3. G(n + 1)[n] = G(n)[n]
      BY <2>1, <2>2, RunUnique
    <2>4. G(n + 1)[n + 1] = Round(arg, G(n + 1)[n], n + 1)
      <3>1. n + 1 \in 1 .. n + 1 /\ (n + 1) - 1 = n
        OBVIOUS
      <3> QED BY <2>1, <3>1 DEF IsRun
    <2>5. f[n] = G(n)[n] /\ f[n + 1] = G(n + 1)[n + 1]
      OBVIOUS
    <2> HIDE DEF f
    <2> QED BY <2>3, <2>4, <2>5
  <1>4. f = [k \in Nat |-> f[k]]
    OBVIOUS
  <1> HIDE DEF f
  <1>5. ASSUME NEW k \in Nat PROVE f[k] = Value(f, k)
    <2>1. CASE k = 0
      BY <1>2, <2>1
    <2>2. CASE k # 0
      <3>1. k - 1 \in Nat /\ (k - 1) + 1 = k
        BY <2>2
      <3>2. f[k] = Round(arg, f[k - 1], k)
        BY <1>3, <3>1
      <3> QED BY <2>2, <3>2
    <2> QED BY <2>1, <2>2
  <1>6. IsAfter(f)
    BY <1>4, <1>5
  <1> DEFINE after == CHOOSE h : IsAfter(h)
  <1>7. IsAfter(after)
    BY <1>6
  <1>8. \A n : Rounds(arg, start, n) = after[n]
    BY DEF Rounds
  <1> HIDE DEF after
  <1>9. \A k \in Nat : after[k] = Value(after, k)
    BY <1>7
  <1>10. after[0] = start
    BY <1>9
  <1>11. ASSUME NEW n \in Nat PROVE after[n + 1] = Round(arg, after[n], n + 1)
    <2>1. n + 1 \in Nat /\ n + 1 # 0 /\ (n + 1) - 1 = n
      OBVIOUS
    <2>2. after[n + 1] = Value(after, n + 1)
      BY <1>9, <2>1
    <2> QED BY <2>1, <2>2
  <1> QED BY <1>8, <1>10, <1>11
=============================================================================
