---------------------------- MODULE InductionLemmas ----------------------------
(* Induction over the positions of a sequence, stated of sets of numbers: what *)
(* the proofs about dictionaries and chains, which are built one step at a     *)
(* time, rest on.                                                              *)
EXTENDS Integers, WellFoundedInduction, TLAPS

(* A set of natural numbers has a least one. *)
LEMMA LeastIndex ==
    ASSUME NEW T, T \subseteq Nat, T # {}
    PROVE  \E m \in T : \A j \in T : m <= j
<1> DEFINE R == {ss \in Nat \X Nat : ss[1] < ss[2]}
<1>1. IsWellFoundedOn(R, Nat)
  BY NatLessThanWellFounded, Zenon DEF OpToRel
<1> HIDE DEF R
<1>2. \E m \in T : \A j \in T : <<j, m>> \notin R
  BY <1>1, WFMin
<1>3. \A m, j \in Nat : <<j, m>> \notin R => m <= j
  BY DEF R
<1> QED
  BY <1>2, <1>3

(* The greatest of finitely many positions. *)
LEMMA LastIndex ==
    ASSUME NEW N \in Nat, NEW T, T \subseteq 1 .. N, T # {}
    PROVE  \E i \in T : \A j \in T : j <= i
<1> DEFINE U == {N - i : i \in T}
<1>1. U \subseteq Nat /\ U # {}
  <2>1. \A i \in T : N - i \in Nat
    OBVIOUS
  <2>2. PICK i \in T : TRUE
    OBVIOUS
  <2>3. N - i \in U
    BY <2>2
  <2> QED
    BY <2>1, <2>3
<1>2. PICK u \in U : \A v \in U : u <= v
  BY <1>1, LeastIndex
<1>3. PICK i \in T : u = N - i
  BY <1>2
<1>4. \A j \in T : N - i <= N - j
  BY <1>2, <1>3
<1>5. \A j \in T : j <= i
  BY <1>3, <1>4
<1> QED
  BY <1>5

(* Induction up to N. *)
LEMMA InductionUpTo ==
    ASSUME NEW N \in Nat, NEW T, 0 \in T, \A i \in 1 .. N : i - 1 \in T => i \in T
    PROVE  \A i \in 0 .. N : i \in T
<1> SUFFICES ASSUME (0 .. N) \ T # {} PROVE FALSE
  OBVIOUS
<1>1. PICK m \in (0 .. N) \ T : \A j \in (0 .. N) \ T : m <= j
  <2>1. (0 .. N) \ T \subseteq Nat
    OBVIOUS
  <2> QED
    BY <2>1, LeastIndex
<1>2. m \in 1 .. N /\ m - 1 \in 0 .. N /\ ~(m <= m - 1)
  BY <1>1
<1> QED
  BY <1>1, <1>2

(* A loop that starts with x and makes N turns, turn i with the function F[i].  *)
LoopRun(f, N, S, x, F) ==
    f \in [0 .. N -> S] /\ f[0] = x /\ \A i \in 1 .. N : f[i] = F[i][f[i - 1]]

(* A loop has a run: what a recursive function on 0 .. N defines exists.        *)
LEMMA LoopRuns ==
    ASSUME NEW N \in Nat, NEW S, NEW x \in S, NEW F \in [1 .. N -> [S -> S]]
    PROVE  \E f : LoopRun(f, N, S, x, F)
<1> DEFINE T == {m \in 0 .. N : \E f : LoopRun(f, m, S, x, F)}
<1>1. 0 \in T
  <2> DEFINE f == [i \in 0 .. 0 |-> x]
  <2>1. LoopRun(f, 0, S, x, F)
    BY DEF LoopRun
  <2> HIDE DEF f
  <2> QED
    BY <2>1
<1>2. ASSUME NEW m \in 1 .. N, m - 1 \in T PROVE m \in T
  <2>1. PICK f : LoopRun(f, m - 1, S, x, F)
    BY <1>2
  <2>2. f \in [0 .. m - 1 -> S] /\ f[0] = x /\ \A i \in 1 .. m - 1 : f[i] = F[i][f[i - 1]]
    BY <2>1, Zenon DEF LoopRun
  <2> DEFINE g == [i \in 0 .. m |-> IF i = m THEN F[m][f[m - 1]] ELSE f[i]]
  <2>3. F[m][f[m - 1]] \in S
    <3>1. m - 1 \in 0 .. m - 1
      OBVIOUS
    <3> QED
      BY <2>2, <3>1
  <2>4. g \in [0 .. m -> S]
    <3>1. ASSUME NEW i \in 0 .. m PROVE g[i] \in S
      <4>1. i # m => i \in 0 .. m - 1
        OBVIOUS
      <4> QED
        BY <2>2, <2>3, <4>1
    <3> QED
      BY <3>1
  <2>5. g[0] = x
    BY <2>2
  <2>6. ASSUME NEW i \in 1 .. m PROVE g[i] = F[i][g[i - 1]]
    <3>1. g[i - 1] = f[i - 1]
      OBVIOUS
    <3>2. i # m => i \in 1 .. m - 1 /\ g[i] = f[i]
      OBVIOUS
    <3>3. g[m] = F[m][f[m - 1]]
      OBVIOUS
    <3> HIDE DEF g
    <3> QED
      BY <2>2, <3>1, <3>2, <3>3
  <2> HIDE DEF g
  <2>7. LoopRun(g, m, S, x, F)
    BY <2>4, <2>5, <2>6, Zenon DEF LoopRun
  <2> QED
    BY <2>7
<1> HIDE DEF T
<1>3. \A m \in 0 .. N : m \in T
  BY <1>1, <1>2, InductionUpTo, Zenon
<1> QED
  BY <1>3 DEF T
================================================================================
