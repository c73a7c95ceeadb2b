----------------------------- MODULE Recursion -----------------------------
(***************************************************************************)
(* Induction and recursion over the integers of an interval, stated for    *)
(* sets and functions rather than for operators, so that the first-order   *)
(* provers can instantiate them: a loop of the code that files, adds up or *)
(* relaxes one thing after the other is a recursive function of the number *)
(* of turns it has made.  And division, by which the code finds its place  *)
(* in a list or a word.                                                    *)
(***************************************************************************)
EXTENDS Integers, WellFoundedInduction, TLAPS

\* Every set of natural numbers has a least element.
LEMMA LeastNumber ==
  ASSUME NEW T, T \subseteq Nat, T # {}
  PROVE  \E n \in T : \A m \in T : n <= m
<1> DEFINE R == {p \in Nat \X Nat : p[1] < p[2]}
<1>1. IsWellFoundedOn(R, Nat)  BY NatLessThanWellFounded DEF OpToRel
<1>2. \A m, n \in Nat : m < n => <<m, n>> \in R  OBVIOUS
<1> HIDE DEF R
<1>3. PICK n \in T : \A m \in T : ~(<<m, n>> \in R)  BY <1>1, WFMin, Zenon
<1>4. \A m \in T : m \in Nat /\ n \in Nat /\ ~(m < n)  BY <1>2, <1>3
<1>5. \A m \in T : n <= m  BY <1>4
<1> QED  BY <1>5

\* What holds at first and is handed on from each number to the next holds in the
\* whole interval.
LEMMA IntervalInduction ==
  ASSUME NEW first \in Int, NEW last \in Int, NEW T,
         first <= last => first \in T,
         \A i \in first .. last - 1 : i \in T => i + 1 \in T
  PROVE  first .. last \subseteq T
<1> SUFFICES ASSUME NEW k \in first .. last, k \notin T PROVE FALSE  OBVIOUS
<1> DEFINE missing == {n \in Nat : first + n <= last /\ first + n \notin T}
<1>1. k - first \in missing  OBVIOUS
<1>2. PICK n \in missing : \A m \in missing : n <= m
  <2>1. missing \subseteq Nat /\ missing # {}  BY <1>1
  <2> HIDE DEF missing
  <2> QED  BY <2>1, LeastNumber
<1>3. n # 0  BY <1>2
<1>4. n - 1 \in Nat /\ n - 1 \notin missing  BY <1>2, <1>3
<1>5. first + (n - 1) \in T /\ first + (n - 1) \in first .. last - 1  BY <1>4
<1>6. first + n \in T  BY <1>5
<1> QED  BY <1>6

\* The states a loop of n turns runs through.
IsRun(f, n, S, start, step) ==
  /\ f \in [0 .. n -> S]
  /\ f[0] = start
  /\ \A i \in 1 .. n : f[i] = step[<<i, f[i - 1]>>]

\* Every loop of n turns has such a run.
LEMMA PrimitiveRecursion ==
  ASSUME NEW S, NEW n \in Nat, NEW start \in S, NEW step \in [(1 .. n) \X S -> S]
  PROVE  \E f : IsRun(f, n, S, start, step)
<1> DEFINE Runs(m, f) == f[0] = start /\ \A i \in 1 .. m : f[i] = step[<<i, f[i - 1]>>]
           T == {m \in 0 .. n : \E f \in [0 .. m -> S] : Runs(m, f)}
<1>1. 0 \in T
  <2> DEFINE f == [i \in 0 .. 0 |-> start]
  <2>1. f \in [0 .. 0 -> S] /\ Runs(0, f)  OBVIOUS
  <2> HIDE DEF f, Runs
  <2>2. \E h \in [0 .. 0 -> S] : Runs(0, h)  BY <2>1
  <2> QED  BY <2>2
<1>2. ASSUME NEW m \in 0 .. n - 1, m \in T
      PROVE  m + 1 \in T
  <2>1. PICK f \in [0 .. m -> S] : Runs(m, f)  BY <1>2
  <2> DEFINE g == [i \in 0 .. m + 1 |-> IF i <= m THEN f[i] ELSE step[<<m + 1, f[m]>>]]
  <2>2. f[m] \in S /\ step[<<m + 1, f[m]>>] \in S  OBVIOUS
  <2>3. g \in [0 .. m + 1 -> S]  BY <2>2
  <2>4. /\ \A i \in 0 .. m : g[i] = f[i]
        /\ g[m + 1] = step[<<m + 1, f[m]>>]
    OBVIOUS
  <2> HIDE DEF g
  <2>5. ASSUME NEW i \in 1 .. m + 1
        PROVE  g[i] = step[<<i, g[i - 1]>>]
    <3>1. CASE i <= m
      <4>1. i \in 1 .. m /\ i \in 0 .. m /\ i - 1 \in 0 .. m  BY <3>1
      <4> QED  BY <2>1, <2>4, <4>1
    <3>2. CASE i = m + 1
      <4>1. i - 1 = m /\ m \in 0 .. m  BY <3>2
      <4> QED  BY <2>4, <3>2, <4>1
    <3> QED  BY <3>1, <3>2
  <2>6. g[0] = start  BY <2>1, <2>4
  <2>7. Runs(m + 1, g)  BY <2>5, <2>6
  <2> HIDE DEF Runs
  <2>8. \E h \in [0 .. m + 1 -> S] : Runs(m + 1, h)  BY <2>3, <2>7
  <2> QED  BY <2>8
<1>3. 0 .. n \subseteq T
  <2> HIDE DEF T
  <2> QED  BY <1>1, <1>2, IntervalInduction
<1>4. n \in T  BY <1>3
<1> QED  BY <1>4 DEF IsRun

-----------------------------------------------------------------------------
(* Division.                                                               *)

LEMMA DivisionBounds ==
  ASSUME NEW k \in Nat, NEW p \in Nat \ {0}
  PROVE  k \div p \in Nat /\ p * (k \div p) <= k /\ k < p * (k \div p) + p
OBVIOUS

LEMMA DivisionMonotone ==
  ASSUME NEW k \in Nat, NEW l \in Nat, NEW p \in Nat \ {0}, k <= l
  PROVE  k \div p <= l \div p
<1> DEFINE q == k \div p
           r == l \div p
<1>1. q \in Nat /\ p * q <= k /\ r \in Nat /\ l < p * r + p
  BY DivisionBounds
<1> HIDE DEF q, r
<1>2. SUFFICES ASSUME q > r PROVE FALSE  BY <1>1 DEF q, r
<1>3. PICK d \in Nat : q = r + 1 + d  BY <1>1, <1>2, q - r - 1 \in Nat
<1>4. p * q = p * r + p + p * d /\ p * d \in Nat /\ p * r \in Nat  BY <1>1, <1>3
<1> QED  BY <1>1, <1>4

LEMMA DivisionUnique ==
  ASSUME NEW k \in Nat, NEW p \in Nat \ {0}, NEW q \in Nat, p * q <= k, k < p * q + p
  PROVE  k \div p = q
<1> DEFINE r == k \div p
<1>1. r \in Nat /\ p * r <= k /\ k < p * r + p  BY DivisionBounds
<1> HIDE DEF r
<1>2. ~(q < r)
  <2> SUFFICES ASSUME q < r PROVE FALSE  OBVIOUS
  <2>1. PICK d \in Nat : r = q + 1 + d  BY <1>1, r - q - 1 \in Nat
  <2>2. p * r = p * q + p + p * d /\ p * d \in Nat /\ p * q \in Nat  BY <2>1
  <2> QED  BY <1>1, <2>2
<1>3. ~(r < q)
  <2> SUFFICES ASSUME r < q PROVE FALSE  OBVIOUS
  <2>1. PICK d \in Nat : q = r + 1 + d  BY <1>1, q - r - 1 \in Nat
  <2>2. p * q = p * r + p + p * d /\ p * d \in Nat /\ p * r \in Nat  BY <1>1, <2>1
  <2> QED  BY <1>1, <2>2
<1>4. r = q  BY <1>1, <1>2, <1>3
<1> QED  BY <1>4 DEF r

LEMMA DivisionOf ==
  ASSUME NEW p \in Nat \ {0}, NEW q \in Nat, NEW r \in 0 .. p - 1
  PROVE  /\ p * q + r \in Nat
         /\ (p * q + r) \div p = q /\ (p * q + r) % p = r
<1>1. p * q \in Nat /\ p * q + r \in Nat  OBVIOUS
<1>2. (p * q + r) \div p = q  BY <1>1, DivisionUnique
<1>3. (p * q + r) % p = (p * q + r) - p * ((p * q + r) \div p)  BY <1>1
<1> QED  BY <1>1, <1>2, <1>3

LEMMA DivisionOrder ==
  ASSUME NEW p \in Nat \ {0}, NEW q \in Nat, NEW r \in 0 .. p - 1, NEW w \in Nat
  PROVE  p * q + r < p * w <=> q < w
<1>1. CASE q < w
  <2>1. PICK e \in Nat : w = q + 1 + e  BY <1>1, w - q - 1 \in Nat
  <2>2. p * w = p * q + p + p * e /\ p * e \in Nat /\ p * q \in Nat  BY <2>1
  <2> QED  BY <1>1, <2>2
<1>2. CASE ~(q < w)
  <2>1. PICK e \in Nat : q = w + e  BY <1>2, q - w \in Nat
  <2>2. p * q = p * w + p * e /\ p * e \in Nat /\ p * w \in Nat  BY <2>1
  <2> QED  BY <1>2, <2>2
<1> QED  BY <1>1, <1>2

-----------------------------------------------------------------------------
(* A loop that goes from a place to one before it, until it comes to 0.    *)

\* f is what such a loop computes, from each of its places.
IsDescent(f, n, S, base, next, step) ==
  /\ f \in [1 .. n -> S]
  /\ \A i \in 1 .. n : f[i] = IF next[i] = 0 THEN base ELSE step[<<i, f[next[i]]>>]

\* There is such an f.
LEMMA DescendingRecursion ==
  ASSUME NEW S, NEW n \in Nat, NEW base \in S,
         NEW next \in [1 .. n -> 0 .. n], \A i \in 1 .. n : next[i] < i,
         NEW step \in [(1 .. n) \X S -> S]
  PROVE  \E f : IsDescent(f, n, S, base, next, step)
<1> DEFINE F == [1 .. n -> S]
           value(i, f) == IF next[i] = 0 THEN base ELSE step[<<i, f[next[i]]>>]
           Turn == [if \in (1 .. n) \X F |-> [if[2] EXCEPT ![if[1]] = value(if[1], if[2])]]
           start == [i \in 1 .. n |-> base]
<1>1. \A i \in 1 .. n : \A f \in F : value(i, f) \in S  OBVIOUS
<1>2. Turn \in [(1 .. n) \X F -> F]
  <2>1. ASSUME NEW i \in 1 .. n, NEW f \in F PROVE [f EXCEPT ![i] = value(i, f)] \in F
    <3>1. value(i, f) \in S  BY <1>1
    <3> HIDE DEF value
    <3> QED  BY <3>1
  <2> DEFINE D == (1 .. n) \X F
  <2>2. \A if \in D : [if[2] EXCEPT ![if[1]] = value(if[1], if[2])] \in F
    <3> HIDE DEF F, value
    <3> QED  BY <2>1
  <2> HIDE DEF F, D, value
  <2>3. [if \in D |-> [if[2] EXCEPT ![if[1]] = value(if[1], if[2])]] \in [D -> F]  BY <2>2
  <2> QED  BY <2>3 DEF D
<1>3. start \in F  OBVIOUS
<1>4. PICK run : IsRun(run, n, F, start, Turn)
  <2> HIDE DEF F, start, Turn
  <2> QED  BY <1>2, <1>3, PrimitiveRecursion
<1>5. /\ run \in [0 .. n -> F]
      /\ \A k \in 1 .. n : run[k] = [run[k - 1] EXCEPT ![k] = value(k, run[k - 1])]
  <2> HIDE DEF F, start, value
  <2>1. /\ run \in [0 .. n -> F]
        /\ \A k \in 1 .. n : run[k] = Turn[<<k, run[k - 1]>>]
    BY <1>4 DEF IsRun
  <2>2. ASSUME NEW k \in 1 .. n
        PROVE  run[k] = [run[k - 1] EXCEPT ![k] = value(k, run[k - 1])]
    <3>1. k - 1 \in 0 .. n  OBVIOUS
    <3>2. run[k - 1] \in F  BY <2>1, <3>1
    <3> QED  BY <2>1, <3>2
  <2> QED  BY <2>1, <2>2
<1> HIDE DEF Turn, start
\* A turn changes the value of its own place only.
<1>6. ASSUME NEW k \in 1 .. n
      PROVE  /\ run[k][k] = value(k, run[k - 1])
             /\ \A i \in 1 .. n : i # k => run[k][i] = run[k - 1][i]
  <2>1. k - 1 \in 0 .. n  OBVIOUS
  <2>2. run[k - 1] \in [1 .. n -> S]  BY <1>5, <2>1
  <2>3. run[k] = [run[k - 1] EXCEPT ![k] = value(k, run[k - 1])]  BY <1>5
  <2> HIDE DEF value
  <2> QED  BY <2>2, <2>3
<1>7. ASSUME NEW i \in 1 .. n
      PROVE  \A k \in i .. n : run[k][i] = run[i][i]
  <2> DEFINE T == {k \in i .. n : run[k][i] = run[i][i]}
  <2>1. i \in T  OBVIOUS
  <2>2. ASSUME NEW k \in i .. n - 1, k \in T PROVE k + 1 \in T
    <3>1. k + 1 \in 1 .. n /\ k + 1 \in i .. n /\ i # k + 1 /\ (k + 1) - 1 = k  OBVIOUS
    <3>2. run[k + 1][i] = run[(k + 1) - 1][i]
      <4> HIDE DEF value
      <4> QED  BY <1>6, <3>1
    <3> QED  BY <2>2, <3>1, <3>2
  <2>3. i .. n \subseteq T
    <3> HIDE DEF T
    <3>1. i \in Int /\ n \in Int /\ (i <= n => i \in T)  BY <2>1
    <3> QED  BY <2>2, <3>1, IntervalInduction
  <2> QED  BY <2>3
<1> DEFINE f == run[n]
<1>8. n \in 0 .. n /\ f \in [1 .. n -> S]  BY <1>5
<1>9. ASSUME NEW i \in 1 .. n
      PROVE  f[i] = value(i, f)
  <2>1. f[i] = value(i, run[i - 1])
    <3>1. n \in i .. n  OBVIOUS
    <3> QED  BY <1>6, <1>7, <3>1
  <2>2. ASSUME next[i] # 0 PROVE run[i - 1][next[i]] = f[next[i]]
    <3>1. next[i] \in 1 .. n /\ next[i] < i  BY <2>2
    <3>2. i - 1 \in next[i] .. n /\ n \in next[i] .. n  BY <3>1
    <3> QED  BY <1>7, <3>1, <3>2
  <2> QED  BY <2>1, <2>2
<1> HIDE DEF f
<1>10. IsDescent(f, n, S, base, next, step)  BY <1>8, <1>9 DEF IsDescent
<1> QED  BY <1>10
=============================================================================
