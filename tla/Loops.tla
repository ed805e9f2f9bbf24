------------------------------- MODULE Loops -------------------------------
(***************************************************************************)
(* What holds along a loop over a table: the recursive function that goes  *)
(* through it exists, and what every step keeps is kept by all of them.    *)
(* Step(g, i) is what entry i makes of g; Holds(c, g, i) is what is to be  *)
(* true of g after entry i, c being what the loop began with.              *)
(*                                                                         *)
(* Both facts take as a hypothesis that a set of numbers has a least one,  *)
(* which BoardGames_proofs proves (HasLeast): cited there, the library of  *)
(* well-founded orders is not copied into every instance of this module.   *)
(***************************************************************************)
EXTENDS Integers, TLAPS

CONSTANTS Step(_, _), Holds(_, _, _)

Loop(g, n) == LET after[i \in 0..n] == IF i = 0 THEN g ELSE Step(after[i - 1], i) IN after[n]

(* What holds of 0 and goes from each number to the next holds up to n.    *)
LEMMA Upwards ==
    ASSUME \A T : T \subseteq Nat /\ T # {} => \E m \in T : \A k \in T : m <= k,
           NEW n \in Nat, NEW S, 0 \in S,
           \A i \in 1..n : i - 1 \in S => i \in S
    PROVE  \A i \in 0..n : i \in S
<1> DEFINE T == {i \in 0..n : i \notin S}
<1> SUFFICES ASSUME T # {} PROVE FALSE
  OBVIOUS
<1>1. PICK k \in T : \A m \in T : k <= m
  <2>1. T \subseteq Nat
    OBVIOUS
  <2> HIDE DEF T
  <2> QED
    BY <2>1
<1>2. k \in 1..n /\ k - 1 \in 0..n /\ k - 1 < k
  OBVIOUS
<1>3. k - 1 \in S
  BY <1>1, <1>2
<1> QED
  BY <1>2, <1>3

(* The function that Loop chooses is the one its equations say.            *)
LEMMA Defined ==
    ASSUME \A T : T \subseteq Nat /\ T # {} => \E m \in T : \A k \in T : m <= k,
           NEW g, NEW n \in Nat
    PROVE  \E a : /\ a[0] = g /\ a[n] = Loop(g, n)
                  /\ \A i \in 1..n : a[i] = Step(a[i - 1], i)
<1> DEFINE Is(a, m) == a = [i \in 0..m |-> IF i = 0 THEN g ELSE Step(a[i - 1], i)]
           S == {m \in 0..n : \E a : Is(a, m)}
<1>1. 0 \in S
  <2> DEFINE a == [i \in 0..0 |-> g]
  <2>1. Is(a, 0)
    OBVIOUS
  <2> HIDE DEF a, Is
  <2> QED
    BY <2>1
<1>2. ASSUME NEW m \in 1..n, m - 1 \in S PROVE m \in S
  <2>1. PICK a : Is(a, m - 1)
    BY <1>2
  <2> DEFINE b == [i \in 0..m |-> IF i = m THEN Step(a[m - 1], m) ELSE a[i]]
             c == [i \in 0..m |-> IF i = 0 THEN g ELSE Step(b[i - 1], i)]
  <2>2. \A i \in 0..(m - 1) : a[i] = IF i = 0 THEN g ELSE Step(a[i - 1], i)
    BY <2>1
  <2>3. ASSUME NEW i \in 0..m PROVE b[i] = c[i]
    <3>1. i # 0 => b[i - 1] = a[i - 1]
      OBVIOUS
    <3>2. CASE i = m
      BY <3>1, <3>2
    <3>3. CASE i # m
      BY <2>2, <3>1, <3>3
    <3> QED
      BY <3>2, <3>3
  <2>4. Is(b, m)
    <3>1. b = c
      BY <2>3
    <3> QED
      BY <3>1
  <2> HIDE DEF b, Is
  <2> QED
    BY <2>4
<1>3. \E a : Is(a, n)
  <2> HIDE DEF S
  <2>1. \A i \in 0..n : i \in S
    BY <1>1, <1>2, Upwards
  <2> QED
    BY <2>1 DEF S
<1> DEFINE f == CHOOSE a : Is(a, n)
<1>4. Is(f, n)
  BY <1>3
<1>5. Loop(g, n) = f[n]
  BY DEF Loop
<1> HIDE DEF f
<1> QED
  BY <1>4, <1>5

(* What holds before the loop and is kept by each step holds after it:     *)
(* the loops over the tables of objects in game_update of the games.       *)
THEOREM Kept ==
    ASSUME \A T : T \subseteq Nat /\ T # {} => \E m \in T : \A k \in T : m <= k,
           NEW c, NEW g, NEW n \in Nat, Holds(c, g, 0),
           \A i \in 1..n : \A h : Holds(c, h, i - 1) => Holds(c, Step(h, i), i)
    PROVE  Holds(c, Loop(g, n), n)
<1>1. PICK a : /\ a[0] = g /\ a[n] = Loop(g, n)
               /\ \A i \in 1..n : a[i] = Step(a[i - 1], i)
  BY Defined
<1> DEFINE S == {i \in 0..n : Holds(c, a[i], i)}
<1>2. 0 \in S
  BY <1>1
<1>3. \A i \in 1..n : i - 1 \in S => i \in S
  BY <1>1
<1> HIDE DEF S
<1>4. \A i \in 0..n : i \in S
  BY <1>2, <1>3, Upwards
<1> QED
  BY <1>1, <1>4 DEF S
=============================================================================
