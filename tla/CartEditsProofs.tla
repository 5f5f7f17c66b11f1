--------------------------- MODULE CartEditsProofs --------------------------
(***************************************************************************)
(* What the loops over a cart's lines compute, for lists of any length.    *)
(*                                                                         *)
(* A loop is a recursive function over 0..n, and what it computes is shown *)
(* by induction.  The induction principle is that a set of numbers has a   *)
(* least element (a first-order instance of WFMin), so the sets of numbers *)
(* below are where a proof by induction says what it is about.             *)
(***************************************************************************)
EXTENDS CartEdits, SequenceTheorems, WellFoundedInduction, TLAPS

(* Induction and recursion. *)

LEMMA LeastNumber ==
    ASSUME NEW T \in SUBSET Nat, T # {}
    PROVE  \E n \in T : \A m \in T : n <= m
<1> DEFINE R == {p \in Nat \X Nat : p[1] < p[2]}
<1>1. OpToRel(<, Nat) = R
  BY DEF OpToRel
<1>2. IsWellFoundedOn(R, Nat)
  BY <1>1, NatLessThanWellFounded
<1>3. \A m, n \in Nat : m < n => <<m, n>> \in R
  OBVIOUS
<1> HIDE DEF R
<1>4. PICK n \in T : \A m \in T : <<m, n>> \notin R
  BY <1>2, WFMin
<1>5. \A m \in T : ~(m < n)
  BY <1>3, <1>4
<1> QED
  BY <1>5

\* T is closed under "and one more", from 0 up to m.
Inductive(T, m) == 0 \in T /\ \A n \in 1..m : n - 1 \in T => n \in T

LEMMA Induction ==
    ASSUME NEW m \in Nat, NEW T, Inductive(T, m)
    PROVE  \A n \in 0..m : n \in T
<1> SUFFICES ASSUME {k \in 0..m : k \notin T} # {} PROVE FALSE
  OBVIOUS
<1> DEFINE rest == {k \in 0..m : k \notin T}
<1>1. rest \in SUBSET Nat /\ rest # {}
  OBVIOUS
<1>2. PICK n \in rest : \A k \in rest : n <= k
  <2> HIDE DEF rest
  <2> QED
    BY <1>1, LeastNumber
<1>3. n \in 1..m /\ n - 1 \in T
  BY <1>2 DEF Inductive
<1> QED
  BY <1>2, <1>3 DEF Inductive

\* A loop that starts with b and does step[n] in its n-th turn, and a run of it.
Loop(S, b, m, step) == b \in S /\ m \in Nat /\ \A n \in 1..m : step[n] \in [S -> S]

Runs(f, S, b, m, step) ==
    f \in [0..m -> S] /\ f[0] = b /\ \A n \in 1..m : f[n] = step[n][f[n - 1]]

LEMMA LoopRuns ==
    ASSUME NEW S, NEW b, NEW m, NEW step, Loop(S, b, m, step)
    PROVE  \E f : Runs(f, S, b, m, step)
<1> DEFINE T == {k \in Nat : \E f : Runs(f, S, b, k, step)}
<1>0. m \in Nat /\ b \in S
  BY DEF Loop
<1>1. 0 \in T
  <2> DEFINE f == [n \in 0..0 |-> b]
  <2>1. Runs(f, S, b, 0, step)
    BY <1>0 DEF Runs
  <2> HIDE DEF f
  <2> QED
    BY <2>1
<1>2. ASSUME NEW k \in 1..m, k - 1 \in T
      PROVE  k \in T
  <2>1. PICK f : Runs(f, S, b, k - 1, step)
    BY <1>2
  <2> PICK g : g = [n \in 0..k |-> IF n = k THEN step[k][f[k - 1]] ELSE f[n]]
    OBVIOUS
  <2>2. step[k] \in [S -> S] /\ f[k - 1] \in S /\ f[0] = b /\ k \in Nat \ {0}
    BY <1>0, <2>1 DEF Loop, Runs
  <2>3. \A n \in 0..k - 1 : g[n] = f[n] /\ f[n] \in S
    BY <2>1 DEF Runs
  <2>4. g[0] = b /\ g[k] = step[k][g[k - 1]] /\ g[k] \in S
    BY <2>2, <2>3
  <2>5. g \in [0..k -> S]
    <3>1. ASSUME NEW n \in 0..k PROVE g[n] \in S
      <4>1. n = k \/ n \in 0..k - 1
        BY <2>2
      <4> QED
        BY <2>3, <2>4, <4>1
    <3> QED
      BY <3>1
  <2>6. ASSUME NEW n \in 1..k
        PROVE  g[n] = step[n][g[n - 1]]
    <3>1. CASE n \in 1..k - 1
      BY <2>1, <2>3, <3>1 DEF Runs
    <3>2. CASE n = k
      BY <2>4, <3>2
    <3> QED
      BY <2>2, <3>1, <3>2
  <2>7. Runs(g, S, b, k, step)
    BY <2>4, <2>5, <2>6 DEF Runs
  <2> QED
    BY <2>7
<1>3. m \in T
  <2> HIDE DEF T
  <2>1. Inductive(T, m)
    BY <1>1, <1>2 DEF Inductive
  <2> QED
    BY <1>0, <2>1, Induction
<1> QED
  BY <1>3

-----------------------------------------------------------------------------
(* Sums. *)

Sums(f, w) ==
    f \in [0..Len(w) -> Int] /\ f[0] = 0 /\ \A n \in 1..Len(w) : f[n] = f[n - 1] + w[n]

LEMMA SumRuns ==
    ASSUME NEW w \in Seq(Int)
    PROVE  \E f : Sums(f, w) /\ SumOf(w) = f[Len(w)]
<1> DEFINE step == [k \in 1..Len(w) |-> [x \in Int |-> x + w[k]]]
           sum[n \in 0..Len(w)] == IF n = 0 THEN 0 ELSE sum[n - 1] + w[n]
<1>1. Len(w) \in Nat /\ Loop(Int, 0, Len(w), step)
  BY DEF Loop
<1>2. \A n \in 1..Len(w) : \A x \in Int : step[n][x] = x + w[n]
  OBVIOUS
<1>3. PICK g : Runs(g, Int, 0, Len(w), step)
  <2> HIDE DEF step
  <2> QED
    BY <1>1, LoopRuns
<1>4. Sums(g, w)
  <2> HIDE DEF step
  <2>1. g \in [0..Len(w) -> Int] /\ g[0] = 0
    BY <1>3 DEF Runs
  <2>2. ASSUME NEW n \in 1..Len(w)
        PROVE  g[n] = g[n - 1] + w[n]
    <3>1. g[n] = step[n][g[n - 1]]
      BY <1>3 DEF Runs
    <3>2. g[n - 1] \in Int
      BY <1>1, <2>1
    <3> QED
      BY <1>2, <3>1, <3>2
  <2> QED
    BY <2>1, <2>2 DEF Sums
<1>5. g = [n \in 0..Len(w) |-> IF n = 0 THEN 0 ELSE g[n - 1] + w[n]]
  BY <1>4 DEF Sums
<1>6. sum = [n \in 0..Len(w) |-> IF n = 0 THEN 0 ELSE sum[n - 1] + w[n]]
  BY <1>5
<1>7. SumOf(w) = sum[Len(w)]
  BY DEF SumOf
<1>8. \A n \in 0..Len(w) : n \in {k \in Nat : sum[k] = g[k]}
  <2> HIDE DEF sum, step
  <2> DEFINE T == {k \in Nat : sum[k] = g[k]}
  <2>1. sum[0] = 0 /\ \A n \in 1..Len(w) : sum[n] = sum[n - 1] + w[n]
    BY <1>1, <1>6
  <2>2. Inductive(T, Len(w))
    BY <1>4, <2>1 DEF Sums, Inductive
  <2> HIDE DEF T
  <2>3. \A n \in 0..Len(w) : n \in T
    BY <1>1, <2>2, Induction
  <2> QED
    BY <2>3 DEF T
<1>9. sum[Len(w)] = g[Len(w)]
  <2> HIDE DEF sum, step
  <2> QED
    BY <1>1, <1>8
<1> QED
  <2> HIDE DEF sum, step
  <2> QED
    BY <1>4, <1>7, <1>9

\* A longer list has the same sums up to there.
LEMMA SumsAgree ==
    ASSUME NEW v \in Seq(Int), NEW w \in Seq(Int), Len(v) <= Len(w),
           \A n \in 1..Len(v) : v[n] = w[n], NEW f, NEW g, Sums(f, v), Sums(g, w)
    PROVE  f[Len(v)] = g[Len(v)]
<1> DEFINE T == {n \in Nat : f[n] = g[n]}
<1>1. Len(v) \in Nat /\ Len(w) \in Nat
  OBVIOUS
<1>2. Inductive(T, Len(v))
  BY <1>1 DEF Inductive, Sums
<1>3. Len(v) \in T
  <2> HIDE DEF T
  <2> QED
    BY <1>1, <1>2, Induction
<1> QED
  BY <1>3

LEMMA SumAppend ==
    ASSUME NEW w \in Seq(Int), NEW x \in Int
    PROVE  SumOf(Append(w, x)) = SumOf(w) + x
<1> DEFINE v == Append(w, x)
<1>1. /\ v \in Seq(Int) /\ Len(w) \in Nat /\ Len(v) = Len(w) + 1
      /\ v[Len(w) + 1] = x /\ \A n \in 1..Len(w) : w[n] = v[n]
  OBVIOUS
<1> HIDE DEF v
<1>2. PICK f : Sums(f, w) /\ SumOf(w) = f[Len(w)]
  BY SumRuns
<1>3. PICK g : Sums(g, v) /\ SumOf(v) = g[Len(v)]
  BY <1>1, SumRuns
<1>4. f[Len(w)] = g[Len(w)]
  <2>1. Len(w) <= Len(v)
    BY <1>1
  <2> QED
    BY <1>1, <1>2, <1>3, <2>1, SumsAgree
<1>5. g[Len(v)] = g[Len(w)] + x
  BY <1>1, <1>3 DEF Sums
<1> QED
  BY <1>2, <1>3, <1>4, <1>5 DEF v

LEMMA SumEmpty == SumOf(<<>>) = 0
<1>1. <<>> \in Seq(Int) /\ Len(<<>>) = 0
  OBVIOUS
<1>2. PICK f : Sums(f, <<>>) /\ SumOf(<<>>) = f[Len(<<>>)]
  BY <1>1, SumRuns
<1> QED
  BY <1>1, <1>2 DEF Sums

LEMMA SumIsInt ==
    ASSUME NEW w \in Seq(Int)
    PROVE  SumOf(w) \in Int
<1>1. PICK f : Sums(f, w) /\ SumOf(w) = f[Len(w)]
  BY SumRuns
<1> QED
  BY <1>1 DEF Sums

\* One number is another.
LEMMA SumChange ==
    ASSUME NEW v \in Seq(Int), NEW w \in Seq(Int), Len(v) = Len(w), NEW i \in 1..Len(w),
           \A n \in 1..Len(w) : n # i => v[n] = w[n]
    PROVE  SumOf(v) = SumOf(w) + (v[i] - w[i])
<1>1. PICK f : Sums(f, w) /\ SumOf(w) = f[Len(w)]
  BY SumRuns
<1>2. PICK g : Sums(g, v) /\ SumOf(v) = g[Len(v)]
  BY SumRuns
<1> DEFINE d == v[i] - w[i]
           T == {n \in Nat : (n < i => g[n] = f[n]) /\ (n >= i => g[n] = f[n] + d)}
<1>3. Len(w) \in Nat /\ v[i] \in Int /\ w[i] \in Int /\ i \in Nat \ {0}
  OBVIOUS
<1>4. 0 \in T
  BY <1>1, <1>2, <1>3 DEF Sums
<1>5. ASSUME NEW n \in 1..Len(w), n - 1 \in T
      PROVE  n \in T
  <2>1. f[n] = f[n - 1] + w[n] /\ g[n] = g[n - 1] + v[n]
    BY <1>1, <1>2 DEF Sums
  <2>2. f[n - 1] \in Int /\ v[n] \in Int /\ w[n] \in Int
    <3>1. n - 1 \in 0..Len(w) /\ f \in [0..Len(w) -> Int]
      BY <1>1, <1>3 DEF Sums
    <3>2. f[n - 1] \in Int
      BY <3>1
    <3>3. v[n] \in Int /\ w[n] \in Int
      OBVIOUS
    <3> QED
      BY <3>2, <3>3
  <2>3. CASE n < i
    <3>1. g[n - 1] = f[n - 1] /\ v[n] = w[n]
      BY <1>3, <1>5, <2>3
    <3> QED
      BY <1>3, <2>1, <2>3, <3>1
  <2>4. CASE n = i
    <3>1. g[n - 1] = f[n - 1]
      BY <1>3, <1>5, <2>4
    <3>2. g[n] = f[n] + d
      BY <2>1, <2>2, <2>4, <3>1
    <3> QED
      BY <1>3, <2>4, <3>2
  <2>5. CASE n > i
    <3>1. g[n - 1] = f[n - 1] + d /\ v[n] = w[n]
      BY <1>3, <1>5, <2>5
    <3>2. g[n] = f[n] + d
      BY <1>3, <2>1, <2>2, <3>1
    <3> QED
      BY <1>3, <2>5, <3>2
  <2> QED
    BY <1>3, <2>3, <2>4, <2>5
<1>6. Len(w) \in T
  <2> HIDE DEF T
  <2>1. Inductive(T, Len(w))
    BY <1>4, <1>5 DEF Inductive
  <2> QED
    BY <1>3, <2>1, Induction
<1> QED
  BY <1>1, <1>2, <1>3, <1>6

LEMMA ConcatAt ==
    ASSUME NEW v \in Seq(Int), NEW w \in Seq(Int)
    PROVE  /\ v \o w \in Seq(Int) /\ Len(v \o w) = Len(v) + Len(w)
           /\ \A n \in 1..Len(v) : (v \o w)[n] = v[n]
           /\ \A n \in 1..Len(w) : (v \o w)[Len(v) + n] = w[n]
OBVIOUS

\* The numbers of two lists, one after the other.
LEMMA SumSplit ==
    ASSUME NEW v \in Seq(Int), NEW w \in Seq(Int)
    PROVE  SumOf(v \o w) = SumOf(v) + SumOf(w)
<1> DEFINE u == v \o w
<1>1. /\ u \in Seq(Int) /\ Len(v) \in Nat /\ Len(w) \in Nat
      /\ Len(u) = Len(v) + Len(w) /\ Len(v) <= Len(u)
      /\ \A n \in 1..Len(v) : v[n] = u[n]
      /\ \A n \in 1..Len(w) : w[n] = u[Len(v) + n]
  OBVIOUS
<1> HIDE DEF u
<1>2. PICK f : Sums(f, v) /\ SumOf(v) = f[Len(v)]
  BY SumRuns
<1>3. PICK g : Sums(g, w) /\ SumOf(w) = g[Len(w)]
  BY SumRuns
<1>4. PICK h : Sums(h, u) /\ SumOf(u) = h[Len(u)]
  BY <1>1, SumRuns
<1>5. f[Len(v)] = h[Len(v)]
  <2>1. u \in Seq(Int) /\ Len(v) <= Len(u) /\ \A n \in 1..Len(v) : v[n] = u[n]
    BY <1>1
  <2> QED
    BY <1>2, <1>4, <2>1, SumsAgree
<1>6. h[Len(v)] \in Int
  BY <1>1, <1>4 DEF Sums
<1> DEFINE T == {n \in Nat : h[Len(v) + n] = h[Len(v)] + g[n]}
<1>7. 0 \in T
  BY <1>1, <1>3, <1>6 DEF Sums
<1>8. ASSUME NEW n \in 1..Len(w), n - 1 \in T
      PROVE  n \in T
  <2>1. g[n] = g[n - 1] + w[n]
    BY <1>3 DEF Sums
  <2>2. h[Len(v) + n] = h[Len(v) + (n - 1)] + u[Len(v) + n]
    <3>1. Len(v) + n \in 1..Len(u) /\ (Len(v) + n) - 1 = Len(v) + (n - 1)
      BY <1>1
    <3> QED
      BY <1>4, <3>1 DEF Sums
  <2>3. g[n - 1] \in Int
    <3>1. n - 1 \in 0..Len(w) /\ g \in [0..Len(w) -> Int]
      BY <1>1, <1>3 DEF Sums
    <3> QED
      BY <3>1
  <2>4. w[n] \in Int /\ u[Len(v) + n] = w[n]
    BY <1>1
  <2>5. h[Len(v) + (n - 1)] = h[Len(v)] + g[n - 1]
    BY <1>8
  <2> QED
    BY <1>6, <2>1, <2>2, <2>3, <2>4, <2>5
<1>9. Len(w) \in T
  <2> HIDE DEF T
  <2>1. Inductive(T, Len(w))
    BY <1>7, <1>8 DEF Inductive
  <2> QED
    BY <1>1, <2>1, Induction
<1> QED
  BY <1>1, <1>2, <1>3, <1>4, <1>5, <1>9 DEF u

-----------------------------------------------------------------------------
(* Numbers that differ by whole turns of m. *)

Congruent(a, b, m) == \E k \in Int : a = b + k * m

LEMMA CongruentTrans ==
    ASSUME NEW m \in Nat, NEW a, NEW b, NEW c \in Int, NEW d \in Int,
           Congruent(a, b, m), Congruent(b, c, m)
    PROVE  Congruent(a, c, m) /\ Congruent(a + d, b + d, m)
<1>1. PICK k \in Int, j \in Int : a = b + k * m /\ b = c + j * m
  BY DEF Congruent
<1>2. k + j \in Int /\ k * m \in Int /\ j * m \in Int /\ k * m + j * m = (k + j) * m
  OBVIOUS
<1>3. a = c + (k + j) * m /\ a + d = (b + d) + k * m
  BY <1>1, <1>2
<1> QED
  BY <1>2, <1>3 DEF Congruent

LEMMA CongruentRefl ==
    ASSUME NEW m \in Nat, NEW a \in Int
    PROVE  Congruent(a, a, m)
<1>1. a = a + 0 * m
  OBVIOUS
<1> QED
  BY <1>1 DEF Congruent

\* Two of them less than a turn apart are equal.
LEMMA CongruentUnique ==
    ASSUME NEW m \in Nat \ {0}, NEW a \in Int, NEW b \in Int, Congruent(a, b, m),
           a - b < m, b - a < m
    PROVE  a = b
<1>1. PICK k \in Int : a = b + k * m
  BY DEF Congruent
<1>2. k * m < m /\ k * m > -m
  BY <1>1
<1>3. k = 0
  BY <1>2
<1> QED
  BY <1>1, <1>3

LEMMA ModCongruent ==
    ASSUME NEW m \in Nat \ {0}, NEW a \in Int
    PROVE  a % m \in 0..(m - 1) /\ Congruent(a, a % m, m) /\ Congruent(a % m, a, m)
<1>1. a % m \in 0..(m - 1) /\ a \div m \in Int /\ a = (a % m) + (a \div m) * m
  OBVIOUS
<1>2. -(a \div m) \in Int /\ (-(a \div m)) * m = -((a \div m) * m)
  BY <1>1
<1>3. a % m = a + (-(a \div m)) * m
  BY <1>1, <1>2
<1> QED
  BY <1>1, <1>2, <1>3 DEF Congruent

LEMMA CongruentMod ==
    ASSUME NEW m \in Nat \ {0}, NEW a \in Int, NEW b \in Int, Congruent(a, b, m)
    PROVE  a % m = b % m
<1>1. /\ a % m \in 0..(m - 1) /\ b % m \in 0..(m - 1)
      /\ Congruent(a % m, a, m) /\ Congruent(b, b % m, m)
  BY ModCongruent
<1>2. Congruent(a % m, b, m)
  BY <1>1, CongruentTrans
<1>3. Congruent(a % m, b % m, m)
  BY <1>1, <1>2, CongruentTrans
<1> QED
  BY <1>1, <1>3, CongruentUnique

-----------------------------------------------------------------------------
(* The amount of a transaction. *)

LEMMA WrapCongruent ==
    ASSUME NEW x \in Int
    PROVE  /\ Wrap64(x) \in -Int64Half .. Int64Half - 1
           /\ Congruent(Wrap64(x), x, 2 * Int64Half) /\ Congruent(x, Wrap64(x), 2 * Int64Half)
<1> DEFINE m == 2 * Int64Half
           r == (x + Int64Half) % m
<1>1. m \in Nat \ {0} /\ x + Int64Half \in Int /\ Int64Half \in Nat \ {0}
  BY AmountsAssumption
<1>2. Wrap64(x) = r - Int64Half
  BY DEF Wrap64
<1> HIDE DEF m
<1>3. r \in 0..(m - 1) /\ Congruent(r, x + Int64Half, m) /\ Congruent(x + Int64Half, r, m)
  BY <1>1, ModCongruent
<1> HIDE DEF r
<1>4. PICK k \in Int, j \in Int : r = (x + Int64Half) + k * m /\ x + Int64Half = r + j * m
  BY <1>3 DEF Congruent
<1>5. k * m \in Int /\ j * m \in Int
  BY <1>1
<1>6. Wrap64(x) = x + k * m /\ x = Wrap64(x) + j * m
  BY <1>1, <1>2, <1>3, <1>4, <1>5
<1>7. Wrap64(x) \in -Int64Half .. Int64Half - 1
  BY <1>1, <1>2, <1>3 DEF m
<1> QED
  BY <1>6, <1>7 DEF Congruent, m

Prices == [Products -> 0..(Uint32 - 1)]

LEMMA LineFields ==
    ASSUME NEW list \in Seq(LineSet)
    PROVE  /\ Len(list) \in Nat /\ DOMAIN list = 1..Len(list)
           /\ \A n \in 1..Len(list) :
                 /\ list[n] \in LineSet /\ list[n].id \in Products
                 /\ list[n].qty \in 0..(Uint32 - 1) /\ list[n].qty \in Nat
<1>1. Uint32 \in Nat
  BY CartLinesAssumption
<1>2. Len(list) \in Nat /\ DOMAIN list = 1..Len(list) /\ \A n \in 1..Len(list) : list[n] \in LineSet
  OBVIOUS
<1> QED
  BY <1>1, <1>2 DEF LineSet

LEMMA AddedCongruent ==
    ASSUME NEW total \in Int, NEW price \in Nat, NEW qty \in Nat
    PROVE  /\ Added(total, price, qty) \in -Int64Half .. Int64Half - 1
           /\ Added(total, price, qty) \in Int
           /\ Congruent(total + price * qty, Added(total, price, qty), 2 * Int64Half)
<1> DEFINE m == 2 * Int64Half
           sub == Wrap64(price * qty)
<1>1. m \in Nat /\ Int64Half \in Nat /\ price * qty \in Int
  BY AmountsAssumption
<1>2. sub \in Int /\ Congruent(price * qty, sub, m)
  BY <1>1, WrapCongruent
<1>3. Added(total, price, qty) = Wrap64(total + sub)
  BY DEF Added
<1> HIDE DEF sub, m
<1>4. /\ Wrap64(total + sub) \in -Int64Half .. Int64Half - 1
      /\ Congruent(total + sub, Wrap64(total + sub), m)
  BY <1>2, WrapCongruent DEF m
<1>5. Congruent(price * qty + total, sub + total, m)
  <2>1. Congruent(sub, sub, m)
    BY <1>1, <1>2, CongruentRefl
  <2> QED
    BY <1>1, <1>2, <2>1, CongruentTrans
<1>6. price * qty + total = total + price * qty /\ sub + total = total + sub
  BY <1>1, <1>2
<1>7. total + sub \in Int /\ Wrap64(total + sub) \in Int
  BY <1>1, <1>2, <1>4
<1>8. Congruent(total + price * qty, Wrap64(total + sub), m)
  BY <1>1, <1>4, <1>5, <1>6, <1>7, CongruentTrans
<1> QED
  BY <1>3, <1>4, <1>7, <1>8 DEF m

Charges(f, list, prices) ==
    f[0] = 0 /\ \A n \in 1..Len(list) : f[n] = Added(f[n - 1], prices[list[n].id], list[n].qty)

LEMMA AmountRuns ==
    ASSUME NEW list \in Seq(LineSet), NEW prices \in Prices
    PROVE  \E f : Charges(f, list, prices) /\ AmountOf(list, prices) = f[Len(list)]
<1> DEFINE step == [k \in 1..Len(list) |->
                       [x \in Int |-> Added(x, prices[list[k].id], list[k].qty)]]
           total[n \in 0..Len(list)] ==
               IF n = 0 THEN 0 ELSE Added(total[n - 1], prices[list[n].id], list[n].qty)
<1>1. Len(list) \in Nat
  OBVIOUS
<1>2. \A n \in 1..Len(list) : prices[list[n].id] \in Nat /\ list[n].qty \in Nat
  BY LineFields, CartLinesAssumption DEF Prices
<1>3. \A n \in 1..Len(list) : \A x \in Int :
         Added(x, prices[list[n].id], list[n].qty) \in Int
  BY <1>2, AddedCongruent
<1>4. Loop(Int, 0, Len(list), step)
  BY <1>1, <1>3 DEF Loop
<1>5. \A n \in 1..Len(list) : \A x \in Int :
         step[n][x] = Added(x, prices[list[n].id], list[n].qty)
  OBVIOUS
<1>6. PICK g : Runs(g, Int, 0, Len(list), step)
  <2> HIDE DEF step
  <2> QED
    BY <1>4, LoopRuns
<1>7. g = [n \in 0..Len(list) |->
             IF n = 0 THEN 0 ELSE Added(g[n - 1], prices[list[n].id], list[n].qty)]
  <2> HIDE DEF step
  <2>1. g \in [0..Len(list) -> Int] /\ g[0] = 0 /\ \A n \in 1..Len(list) : g[n] = step[n][g[n - 1]]
    BY <1>6 DEF Runs
  <2>2. ASSUME NEW n \in 1..Len(list)
        PROVE  g[n] = Added(g[n - 1], prices[list[n].id], list[n].qty)
    <3>1. g[n - 1] \in Int
      BY <1>1, <2>1
    <3> QED
      BY <1>5, <2>1, <3>1
  <2>3. \A n \in 0..Len(list) : n = 0 \/ n \in 1..Len(list)
    OBVIOUS
  <2> QED
    BY <2>1, <2>2, <2>3
<1>8. total = [n \in 0..Len(list) |->
                 IF n = 0 THEN 0 ELSE Added(total[n - 1], prices[list[n].id], list[n].qty)]
  BY <1>7
<1>9. AmountOf(list, prices) = total[Len(list)]
  BY DEF AmountOf
<1> HIDE DEF total
<1>10. Charges(total, list, prices)
  BY <1>1, <1>8 DEF Charges
<1> QED
  BY <1>9, <1>10

LEMMA CostsType ==
    ASSUME NEW list \in Seq(LineSet), NEW prices \in Prices
    PROVE  /\ Costs(list, prices) \in Seq(Int) /\ Len(Costs(list, prices)) = Len(list)
           /\ \A n \in 1..Len(list) :
                 /\ prices[list[n].id] \in Nat /\ list[n].qty \in Nat
                 /\ Costs(list, prices)[n] = prices[list[n].id] * list[n].qty
                 /\ Costs(list, prices)[n] \in Nat
<1>1. /\ Len(list) \in Nat /\ DOMAIN list = 1..Len(list)
      /\ \A n \in 1..Len(list) : prices[list[n].id] \in Nat /\ list[n].qty \in Nat
  BY LineFields, CartLinesAssumption DEF Prices
<1>2. \A n \in 1..Len(list) : prices[list[n].id] * list[n].qty \in Nat
  BY <1>1
<1> DEFINE costs == [n \in 1..Len(list) |-> prices[list[n].id] * list[n].qty]
<1>3. costs \in [1..Len(list) -> Nat]
  BY <1>2
<1>4. Costs(list, prices) = costs
  BY <1>1 DEF Costs
<1>5. costs \in Seq(Int) /\ Len(costs) = Len(list)
  BY <1>1, <1>3
<1> QED
  BY <1>1, <1>2, <1>4, <1>5

LEMMA AmountCongruent ==
    ASSUME NEW list \in Seq(LineSet), NEW prices \in Prices
    PROVE  /\ AmountOf(list, prices) \in -Int64Half .. Int64Half - 1
           /\ SumOf(Costs(list, prices)) \in Nat
           /\ Congruent(SumOf(Costs(list, prices)), AmountOf(list, prices), 2 * Int64Half)
<1> DEFINE costs == Costs(list, prices)
           m == 2 * Int64Half
<1>1. /\ Int64Half \in Nat \ {0} /\ m \in Nat \ {0} /\ Len(list) \in Nat
      /\ costs \in Seq(Int) /\ Len(costs) = Len(list)
  BY AmountsAssumption, CostsType
<1>2. \A n \in 1..Len(list) :
         /\ prices[list[n].id] \in Nat /\ list[n].qty \in Nat
         /\ costs[n] = prices[list[n].id] * list[n].qty /\ costs[n] \in Nat
  BY CostsType
<1> HIDE DEF costs, m
<1>3. PICK f : Charges(f, list, prices) /\ AmountOf(list, prices) = f[Len(list)]
  BY AmountRuns
<1>4. PICK h : Sums(h, costs) /\ SumOf(costs) = h[Len(list)]
  BY <1>1, SumRuns
<1> DEFINE T == {n \in Nat : /\ f[n] \in -Int64Half .. Int64Half - 1 /\ h[n] \in Nat
                             /\ Congruent(h[n], f[n], m)}
<1>5. 0 \in T
  <2>1. f[0] = 0 /\ h[0] = 0
    BY <1>3, <1>4 DEF Charges, Sums
  <2>2. Congruent(0, 0, m)
    BY <1>1, CongruentRefl
  <2> QED
    BY <1>1, <2>1, <2>2
<1>6. ASSUME NEW n \in 1..Len(list), n - 1 \in T
      PROVE  n \in T
  <2>1. h[n] = h[n - 1] + costs[n]
    BY <1>1, <1>4 DEF Sums
  <2>2. f[n] = Added(f[n - 1], prices[list[n].id], list[n].qty)
    BY <1>3 DEF Charges
  <2>3. h[n - 1] \in Nat /\ f[n - 1] \in Int /\ Congruent(h[n - 1], f[n - 1], m)
    BY <1>1, <1>6
  <2>4. /\ f[n] \in -Int64Half .. Int64Half - 1 /\ f[n] \in Int
        /\ Congruent(f[n - 1] + costs[n], f[n], m)
    BY <1>2, <2>2, <2>3, AddedCongruent DEF m
  <2>5. Congruent(h[n - 1] + costs[n], f[n - 1] + costs[n], m)
    <3>1. Congruent(f[n - 1], f[n - 1], m)
      BY <1>1, <2>3, CongruentRefl
    <3>2. costs[n] \in Int
      BY <1>2
    <3> QED
      BY <1>1, <2>3, <3>1, <3>2, CongruentTrans
  <2>6. Congruent(h[n], f[n], m)
    <3>1. f[n - 1] + costs[n] \in Int
      BY <1>2, <2>3
    <3>2. Congruent(h[n - 1] + costs[n], f[n], m)
      BY <1>1, <2>4, <2>5, <3>1, CongruentTrans
    <3> QED
      BY <2>1, <3>2
  <2>7. h[n] \in Nat
    BY <1>2, <2>1, <2>3
  <2> QED
    BY <2>4, <2>6, <2>7
<1>7. Len(list) \in T
  <2> HIDE DEF T
  <2>1. Inductive(T, Len(list))
    BY <1>5, <1>6 DEF Inductive
  <2> QED
    BY <1>1, <2>1, Induction
<1> QED
  BY <1>3, <1>4, <1>7 DEF costs, m

LEMMA AmountExact ==
    ASSUME LinesTypeOK
    PROVE  AmountIsExact
<1> SUFFICES ASSUME NEW prices \in Prices
             PROVE  LET exact == SumOf(Costs(lines, prices))
                        charged == AmountOf(lines, prices)
                    IN  /\ exact < Int64Half => charged = exact
                        /\ (exact - charged) % (2 * Int64Half) = 0
                        /\ charged \in -Int64Half .. Int64Half - 1
  BY DEF AmountIsExact, Prices
<1> PICK exact, charged : exact = SumOf(Costs(lines, prices)) /\ charged = AmountOf(lines, prices)
  OBVIOUS
<1> DEFINE m == 2 * Int64Half
<1>1. /\ charged \in -Int64Half .. Int64Half - 1 /\ exact \in Nat /\ Congruent(exact, charged, m)
  BY AmountCongruent DEF LinesTypeOK
<1>2. /\ m \in Nat \ {0} /\ Int64Half \in Nat /\ charged \in Int
      /\ exact < Int64Half => exact - charged < m /\ charged - exact < m
  BY <1>1, AmountsAssumption
<1> HIDE DEF m
<1>3. exact < Int64Half => charged = exact
  BY <1>1, <1>2, CongruentUnique
<1>4. (exact - charged) % m = 0
  <2>1. PICK k \in Int : exact = charged + k * m
    BY <1>1 DEF Congruent
  <2> PICK d : d = exact - charged
    OBVIOUS
  <2>2. k * m \in Int /\ d = 0 + k * m /\ d \in Int
    BY <1>1, <1>2, <2>1
  <2>3. Congruent(d, 0, m) /\ 0 \in Int
    BY <2>2 DEF Congruent
  <2>4. d % m = 0 % m
    BY <1>2, <2>2, <2>3, CongruentMod
  <2>5. 0 % m = 0
    BY <1>2
  <2> QED
    BY <2>4, <2>5
<1> QED
  BY <1>1, <1>3, <1>4 DEF m

-----------------------------------------------------------------------------
(* One line more, or a line that grows: what AddToCart and each turn of     *)
(* CreateCart's loop do.                                                    *)

\* The pieces of p as a whole number, of which Pieces keeps the uint32.
Total(list, p) == SumOf(PiecesIn(list, p))

PiecesOf(l, p) == IF l.id = p THEN l.qty ELSE 0

LEMMA PiecesInType ==
    ASSUME NEW list \in Seq(LineSet), NEW p
    PROVE  /\ PiecesIn(list, p) \in Seq(Int) /\ Len(PiecesIn(list, p)) = Len(list)
           /\ \A n \in 1..Len(list) : PiecesIn(list, p)[n] = PiecesOf(list[n], p)
<1>1. /\ Len(list) \in Nat /\ DOMAIN list = 1..Len(list)
      /\ \A n \in 1..Len(list) : PiecesOf(list[n], p) \in Int
  BY LineFields DEF PiecesOf
<1> DEFINE pieces == [n \in 1..Len(list) |-> PiecesOf(list[n], p)]
<1>2. pieces \in [1..Len(list) -> Int]
  BY <1>1
<1>3. PiecesIn(list, p) = pieces
  BY <1>1 DEF PiecesIn, PiecesOf
<1>4. pieces \in Seq(Int) /\ Len(pieces) = Len(list)
  BY <1>1, <1>2
<1> QED
  BY <1>3, <1>4

LEMMA TotalType ==
    ASSUME NEW list \in Seq(LineSet), NEW p
    PROVE  Total(list, p) \in Int
BY PiecesInType, SumIsInt DEF Total

LEMMA TotalAppend ==
    ASSUME NEW list \in Seq(LineSet), NEW l \in LineSet, NEW p
    PROVE  Total(Append(list, l), p) = Total(list, p) + PiecesOf(l, p)
<1> DEFINE new == Append(list, l)
           v == PiecesIn(list, p)
           x == PiecesOf(l, p)
<1>1. /\ Len(list) \in Nat /\ new \in Seq(LineSet) /\ Len(new) = Len(list) + 1
      /\ \A n \in 1..Len(list) : new[n] = list[n]
      /\ new[Len(list) + 1] = l
  OBVIOUS
<1>2. v \in Seq(Int) /\ Len(v) = Len(list) /\ \A n \in 1..Len(list) : v[n] = PiecesOf(list[n], p)
  BY PiecesInType
<1> HIDE DEF new, v
<1>3. /\ PiecesIn(new, p) \in Seq(Int) /\ Len(PiecesIn(new, p)) = Len(list) + 1
      /\ \A n \in 1..Len(new) : PiecesIn(new, p)[n] = PiecesOf(new[n], p)
  BY <1>1, PiecesInType
<1>4. x \in Int
  BY CartLinesAssumption DEF PiecesOf, LineSet
<1> HIDE DEF x
<1>5. PiecesIn(new, p) = Append(v, x)
  <2>1. /\ Append(v, x) \in Seq(Int) /\ Len(Append(v, x)) = Len(list) + 1
        /\ Append(v, x)[Len(list) + 1] = x
        /\ \A n \in 1..Len(list) : Append(v, x)[n] = v[n]
    BY <1>2, <1>4
  <2>2. \A n \in 1..(Len(list) + 1) : PiecesIn(new, p)[n] = Append(v, x)[n]
    <3>1. \A n \in 1..(Len(list) + 1) : n \in 1..Len(list) \/ n = Len(list) + 1
      BY <1>1
    <3>2. \A n \in 1..Len(list) : PiecesIn(new, p)[n] = v[n]
      BY <1>1, <1>2, <1>3
    <3>3. PiecesIn(new, p)[Len(list) + 1] = x
      BY <1>1, <1>3 DEF x
    <3> QED
      BY <2>1, <3>1, <3>2, <3>3
  <2> QED
    BY <1>3, <2>1, <2>2, SeqEqual
<1>6. SumOf(Append(v, x)) = SumOf(v) + x
  BY <1>2, <1>4, SumAppend
<1> QED
  BY <1>5, <1>6 DEF Total, new, v, x

\* new is old with the line l: appended, or added to a line of the product.
Grown(new, old, l) ==
    \/ ~InCart(old, l.id) /\ new = Append(old, l)
    \/ \E i \in 1..Len(old) : old[i].id = l.id /\ new = AddQty(old, i, l.qty)

LEMMA FirstAndLast ==
    ASSUME NEW list \in Seq(LineSet), NEW p, InCart(list, p)
    PROVE  /\ Positions(list, p) \subseteq 1..Len(list)
           /\ \E i \in Positions(list, p) : \A j \in Positions(list, p) : i <= j
           /\ \E i \in Positions(list, p) : \A j \in Positions(list, p) : j <= i
<1> DEFINE T == Positions(list, p)
           U == {n \in 0..Len(list) : Len(list) - n \in T}
<1>1. Len(list) \in Nat /\ DOMAIN list = 1..Len(list)
  BY LineFields
<1>2. T \subseteq 1..Len(list) /\ T # {} /\ T \in SUBSET Nat
  BY <1>1 DEF Positions, InCart
<1> HIDE DEF T
<1>3. \E i \in T : \A j \in T : i <= j
  BY <1>2, LeastNumber
<1>4. U # {} /\ U \in SUBSET Nat
  <2>1. PICK i \in T : i \in 1..Len(list)
    BY <1>2
  <2>2. Len(list) - i \in U
    <3>1. Len(list) - (Len(list) - i) = i /\ Len(list) - i \in 0..Len(list)
      BY <1>1, <2>1
    <3> QED
      BY <2>1, <3>1
  <2> QED
    BY <2>2
<1>5. \E i \in T : \A j \in T : j <= i
  <2>1. PICK n \in U : \A k \in U : n <= k
    <3> HIDE DEF U
    <3> QED
      BY <1>4, LeastNumber
  <2>2. ASSUME NEW j \in T
        PROVE  j <= Len(list) - n
    <3>1. j \in 1..Len(list) /\ Len(list) - (Len(list) - j) = j /\ Len(list) - j \in 0..Len(list)
      BY <1>1, <1>2
    <3>2. n <= Len(list) - j
      BY <2>1, <3>1
    <3> QED
      BY <1>1, <2>1, <3>1, <3>2
  <2> QED
    BY <2>1, <2>2
<1> QED
  BY <1>2, <1>3, <1>5 DEF T

LEMMA AddLineGrows ==
    ASSUME NEW list \in Seq(LineSet), NEW p, NEW q
    PROVE  Grown(AddLine(list, p, q), list, Line(p, q))
<1>1. CASE InCart(list, p)
  <2> DEFINE first == CHOOSE i \in Positions(list, p) :
                         \A j \in Positions(list, p) : i <= j
  <2>1. first \in Positions(list, p) /\ first \in 1..Len(list)
    BY <1>1, FirstAndLast
  <2>2. list[first].id = p
    BY <2>1 DEF Positions
  <2>3. AddLine(list, p, q) = AddQty(list, first, q)
    BY <1>1 DEF AddLine
  <2> HIDE DEF first
  <2> QED
    BY <2>1, <2>2, <2>3 DEF Grown, Line
<1>2. CASE ~InCart(list, p)
  BY <1>2 DEF Grown, AddLine, Line
<1> QED
  BY <1>1, <1>2

LEMMA MergeOneGrows ==
    ASSUME NEW list \in Seq(LineSet), NEW l \in LineSet
    PROVE  Grown(MergeOne(list, l), list, l)
<1>1. CASE InCart(list, l.id)
  <2> DEFINE last == CHOOSE i \in Positions(list, l.id) :
                        \A j \in Positions(list, l.id) : j <= i
  <2>1. last \in Positions(list, l.id) /\ last \in 1..Len(list)
    BY <1>1, FirstAndLast
  <2>2. list[last].id = l.id
    BY <2>1 DEF Positions
  <2>3. MergeOne(list, l) = AddQty(list, last, l.qty)
    BY <1>1 DEF MergeOne
  <2> HIDE DEF last
  <2> QED
    BY <2>1, <2>2, <2>3 DEF Grown
<1>2. CASE ~InCart(list, l.id)
  BY <1>2 DEF Grown, MergeOne
<1> QED
  BY <1>1, <1>2

LEMMA AddQtyEffect ==
    ASSUME NEW list \in Seq(LineSet), NEW i \in 1..Len(list), NEW q \in Nat
    PROVE  LET new == AddQty(list, i, q)
           IN  /\ new \in Seq(LineSet) /\ Len(new) = Len(list)
               /\ \A n \in 1..Len(list) : new[n].id = list[n].id /\ (n # i => new[n] = list[n])
               /\ new[i].qty = (list[i].qty + q) % Uint32
<1> DEFINE sum == (list[i].qty + q) % Uint32
           l == [list[i] EXCEPT !.qty = sum]
           new == [list EXCEPT ![i] = l]
<1>1. AddQty(list, i, q) = new
  BY DEF AddQty
<1>2. list[i] \in LineSet /\ list[i].qty + q \in Int /\ Len(list) \in Nat
  BY LineFields
<1>3. sum \in 0..(Uint32 - 1)
  BY <1>2, ModCongruent, CartLinesAssumption
<1> HIDE DEF sum
<1>4. l \in LineSet /\ l.id = list[i].id /\ l.qty = sum
  BY <1>2, <1>3 DEF LineSet
<1> HIDE DEF l
<1>5. /\ new \in Seq(LineSet) /\ Len(new) = Len(list)
      /\ new[i] = l /\ \A n \in 1..Len(list) : n # i => new[n] = list[n]
  BY <1>2, <1>4
<1> HIDE DEF new
<1>6. \A n \in 1..Len(list) : new[n].id = list[n].id
  BY <1>4, <1>5
<1> QED
  BY <1>1, <1>4, <1>5, <1>6 DEF sum

LEMMA GrownEffect ==
    ASSUME NEW old \in Seq(LineSet), NEW l \in LineSet, NEW new, Grown(new, old, l)
    PROVE  /\ new \in Seq(LineSet)
           /\ NoDuplicates(old) => NoDuplicates(new)
           /\ \A p : Congruent(Total(new, p), Total(old, p) + PiecesOf(l, p), Uint32)
<1>1. /\ Uint32 \in Nat \ {0} /\ Len(old) \in Nat /\ DOMAIN old = 1..Len(old)
      /\ l.qty \in Nat /\ l.id \in Products
  BY CartLinesAssumption, LineFields DEF LineSet
<1>2. CASE ~InCart(old, l.id) /\ new = Append(old, l)
  <2>1. /\ new \in Seq(LineSet) /\ DOMAIN new = 1..(Len(old) + 1) /\ new[Len(old) + 1] = l
        /\ \A n \in 1..Len(old) : new[n] = old[n]
    BY <1>2
  <2>2. NoDuplicates(old) => NoDuplicates(new)
    <3>1. \A n \in 1..Len(old) : old[n].id # l.id
      BY <1>1, <1>2 DEF InCart, Positions
    <3>2. \A n \in DOMAIN new : n \in 1..Len(old) \/ n = Len(old) + 1
      BY <1>1, <2>1
    <3> QED
      BY <1>1, <2>1, <3>1, <3>2 DEF NoDuplicates
  <2>3. ASSUME NEW p
        PROVE  Congruent(Total(new, p), Total(old, p) + PiecesOf(l, p), Uint32)
    <3>1. Total(new, p) = Total(old, p) + PiecesOf(l, p)
      BY <1>2, TotalAppend
    <3>2. Total(new, p) \in Int
      BY <2>1, TotalType
    <3> QED
      BY <1>1, <3>1, <3>2, CongruentRefl
  <2> QED
    BY <2>1, <2>2, <2>3
<1>3. CASE \E i \in 1..Len(old) : old[i].id = l.id /\ new = AddQty(old, i, l.qty)
  <2> PICK i \in 1..Len(old) : old[i].id = l.id /\ new = AddQty(old, i, l.qty)
    BY <1>3
  <2>1. /\ new \in Seq(LineSet) /\ Len(new) = Len(old)
        /\ \A n \in 1..Len(old) : new[n].id = old[n].id /\ (n # i => new[n] = old[n])
        /\ new[i].qty = (old[i].qty + l.qty) % Uint32
    BY <1>1, AddQtyEffect
  <2>2. NoDuplicates(old) => NoDuplicates(new)
    <3>1. DOMAIN new = 1..Len(old)
      BY <2>1
    <3> QED
      BY <1>1, <2>1, <3>1 DEF NoDuplicates
  <2>3. ASSUME NEW p
        PROVE  Congruent(Total(new, p), Total(old, p) + PiecesOf(l, p), Uint32)
    <3> PICK a, b : a = PiecesIn(new, p) /\ b = PiecesIn(old, p)
      OBVIOUS
    <3>1. /\ a \in Seq(Int) /\ Len(a) = Len(old)
          /\ \A n \in 1..Len(old) : a[n] = PiecesOf(new[n], p)
      BY <2>1, PiecesInType
    <3>2. /\ b \in Seq(Int) /\ Len(b) = Len(old)
          /\ \A n \in 1..Len(old) : b[n] = PiecesOf(old[n], p)
      BY PiecesInType
    <3>3. \A n \in 1..Len(old) : n # i => a[n] = b[n]
      BY <2>1, <3>1, <3>2
    <3>4. SumOf(a) = SumOf(b) + (a[i] - b[i])
      <4>1. Len(a) = Len(b) /\ i \in 1..Len(b) /\ \A n \in 1..Len(b) : n # i => a[n] = b[n]
        BY <3>1, <3>2, <3>3
      <4> QED
        BY <3>1, <3>2, <4>1, SumChange
    <3>5. SumOf(b) \in Int /\ old[i].qty \in Nat
      BY <3>2, SumIsInt, LineFields
    <3>6. \E k \in Int : a[i] - b[i] = PiecesOf(l, p) + k * Uint32
      <4>1. CASE p = l.id
        <5>1. a[i] = (old[i].qty + l.qty) % Uint32 /\ b[i] = old[i].qty /\ PiecesOf(l, p) = l.qty
          BY <2>1, <3>1, <3>2, <4>1 DEF PiecesOf
        <5>2. PICK k \in Int : (old[i].qty + l.qty) % Uint32 = (old[i].qty + l.qty) + k * Uint32
          <6> PICK sum : sum = old[i].qty + l.qty
            OBVIOUS
          <6>1. sum \in Int
            BY <1>1, <3>5
          <6>2. Congruent(sum % Uint32, sum, Uint32)
            BY <1>1, <6>1, ModCongruent
          <6> QED
            BY <6>2 DEF Congruent
        <5>3. k * Uint32 \in Int
          BY <1>1
        <5>4. a[i] - b[i] = l.qty + k * Uint32
          BY <1>1, <3>5, <5>1, <5>2, <5>3
        <5> QED
          BY <5>1, <5>4
      <4>2. CASE p # l.id
        <5>1. a[i] = 0 /\ b[i] = 0 /\ PiecesOf(l, p) = 0
          BY <2>1, <3>1, <3>2, <4>2 DEF PiecesOf
        <5>2. a[i] - b[i] = PiecesOf(l, p) + 0 * Uint32
          BY <1>1, <5>1
        <5> QED
          BY <5>2
      <4> QED
        BY <4>1, <4>2
    <3>7. PICK k \in Int : a[i] - b[i] = PiecesOf(l, p) + k * Uint32
      BY <3>6
    <3>8. PiecesOf(l, p) \in Int /\ k * Uint32 \in Int
      BY <1>1 DEF PiecesOf
    <3>9. SumOf(a) = (SumOf(b) + PiecesOf(l, p)) + k * Uint32
      BY <3>4, <3>5, <3>7, <3>8
    <3> QED
      BY <3>9 DEF Congruent, Total
  <2> QED
    BY <2>1, <2>2, <2>3
<1> QED
  BY <1>2, <1>3 DEF Grown

-----------------------------------------------------------------------------
(* CreateCart's loop. *)

LEMMA TotalConcat ==
    ASSUME NEW list \in Seq(LineSet), NEW more \in Seq(LineSet), NEW p
    PROVE  Total(list \o more, p) = Total(list, p) + SumOf(PiecesIn(more, p))
<1> DEFINE all == list \o more
           v == PiecesIn(list, p)
           w == PiecesIn(more, p)
           u == PiecesIn(all, p)
<1>1. /\ Len(list) \in Nat /\ Len(more) \in Nat /\ all \in Seq(LineSet)
      /\ Len(all) = Len(list) + Len(more)
      /\ \A n \in 1..Len(list) : all[n] = list[n]
      /\ \A n \in 1..Len(more) : all[Len(list) + n] = more[n]
  OBVIOUS
<1>2. /\ v \in Seq(Int) /\ Len(v) = Len(list) /\ \A n \in 1..Len(list) : v[n] = PiecesOf(list[n], p)
      /\ w \in Seq(Int) /\ Len(w) = Len(more) /\ \A n \in 1..Len(more) : w[n] = PiecesOf(more[n], p)
  BY PiecesInType
<1> HIDE DEF v, w, all
<1>3. u \in Seq(Int) /\ Len(u) = Len(all) /\ \A n \in 1..Len(all) : u[n] = PiecesOf(all[n], p)
  BY <1>1, PiecesInType
<1> HIDE DEF u
<1>4. /\ v \o w \in Seq(Int) /\ Len(v \o w) = Len(all)
      /\ \A n \in 1..Len(list) : (v \o w)[n] = v[n]
      /\ \A n \in 1..Len(more) : (v \o w)[Len(list) + n] = w[n]
  <2>1. /\ v \o w \in Seq(Int) /\ Len(v \o w) = Len(v) + Len(w)
        /\ \A n \in 1..Len(v) : (v \o w)[n] = v[n]
        /\ \A n \in 1..Len(w) : (v \o w)[Len(v) + n] = w[n]
    <3>1. v \in Seq(Int) /\ w \in Seq(Int)
      BY <1>2
    <3> QED
      BY <3>1, ConcatAt
  <2> QED
    BY <1>1, <1>2, <2>1
<1>5. ASSUME NEW n \in 1..Len(all)
      PROVE  u[n] = (v \o w)[n]
  <2>1. CASE n \in 1..Len(list)
    BY <1>1, <1>2, <1>3, <1>4, <2>1
  <2>2. CASE n \notin 1..Len(list)
    <3> PICK k : k = n - Len(list)
      OBVIOUS
    <3>1. k \in 1..Len(more) /\ n = Len(list) + k
      BY <1>1, <2>2
    <3>2. u[n] = PiecesOf(more[k], p)
      BY <1>1, <1>3, <3>1
    <3>3. (v \o w)[n] = w[k] /\ w[k] = PiecesOf(more[k], p)
      BY <1>2, <1>4, <3>1
    <3> QED
      BY <3>2, <3>3
  <2> QED
    BY <2>1, <2>2
<1>6. u = v \o w
  BY <1>3, <1>4, <1>5, SeqEqual
<1> QED
  BY <1>2, <1>6, SumSplit DEF Total, u, v, w, all

Merges(f, list, incoming) ==
    f[0] = list /\ \A n \in 1..Len(incoming) : f[n] = MergeOne(f[n - 1], incoming[n])

LEMMA MergeRuns ==
    ASSUME NEW list \in Seq(LineSet), NEW incoming \in Seq(LineSet)
    PROVE  \E f : Merges(f, list, incoming) /\ MergeLines(list, incoming) = f[Len(incoming)]
<1> DEFINE step == [k \in 1..Len(incoming) |-> [x \in Seq(LineSet) |-> MergeOne(x, incoming[k])]]
           merged[n \in 0..Len(incoming)] ==
               IF n = 0 THEN list ELSE MergeOne(merged[n - 1], incoming[n])
<1>1. Len(incoming) \in Nat /\ \A n \in 1..Len(incoming) : incoming[n] \in LineSet
  OBVIOUS
<1>2. \A n \in 1..Len(incoming) : \A x \in Seq(LineSet) : MergeOne(x, incoming[n]) \in Seq(LineSet)
  BY <1>1, MergeOneGrows, GrownEffect
<1>3. Loop(Seq(LineSet), list, Len(incoming), step)
  BY <1>1, <1>2 DEF Loop
<1>4. \A n \in 1..Len(incoming) : \A x \in Seq(LineSet) : step[n][x] = MergeOne(x, incoming[n])
  OBVIOUS
<1>5. PICK g : Runs(g, Seq(LineSet), list, Len(incoming), step)
  <2> HIDE DEF step
  <2> QED
    BY <1>3, LoopRuns
<1>6. g = [n \in 0..Len(incoming) |-> IF n = 0 THEN list ELSE MergeOne(g[n - 1], incoming[n])]
  <2> HIDE DEF step
  <2>1. /\ g \in [0..Len(incoming) -> Seq(LineSet)] /\ g[0] = list
        /\ \A n \in 1..Len(incoming) : g[n] = step[n][g[n - 1]]
    BY <1>5 DEF Runs
  <2>2. ASSUME NEW n \in 1..Len(incoming)
        PROVE  g[n] = MergeOne(g[n - 1], incoming[n])
    <3>1. g[n - 1] \in Seq(LineSet)
      BY <1>1, <2>1
    <3> QED
      BY <1>4, <2>1, <3>1
  <2>3. \A n \in 0..Len(incoming) : n = 0 \/ n \in 1..Len(incoming)
    OBVIOUS
  <2> QED
    BY <2>1, <2>2, <2>3
<1>7. merged = [n \in 0..Len(incoming) |->
                  IF n = 0 THEN list ELSE MergeOne(merged[n - 1], incoming[n])]
  BY <1>6
<1>8. MergeLines(list, incoming) = merged[Len(incoming)]
  BY DEF MergeLines
<1> HIDE DEF merged
<1>9. Merges(merged, list, incoming)
  BY <1>1, <1>7 DEF Merges
<1> QED
  BY <1>8, <1>9

LEMMA MergeLinesEffect ==
    ASSUME NEW list \in Seq(LineSet), NEW incoming \in Seq(LineSet)
    PROVE  LET new == MergeLines(list, incoming)
           IN  /\ new \in Seq(LineSet)
               /\ NoDuplicates(list) => NoDuplicates(new)
               /\ \A p : Congruent(Total(new, p), Total(list \o incoming, p), Uint32)
<1>1. PICK f : Merges(f, list, incoming) /\ MergeLines(list, incoming) = f[Len(incoming)]
  BY MergeRuns
<1>2. /\ Len(incoming) \in Nat /\ Uint32 \in Nat
      /\ \A n \in 1..Len(incoming) : incoming[n] \in LineSet
  BY CartLinesAssumption
<1> DEFINE T == {n \in Nat : f[n] \in Seq(LineSet) /\ (NoDuplicates(list) => NoDuplicates(f[n]))}
<1>3. \A n \in 0..Len(incoming) : n \in T
  <2>1. 0 \in T
    BY <1>1 DEF Merges
  <2>2. ASSUME NEW n \in 1..Len(incoming), n - 1 \in T
        PROVE  n \in T
    <3>1. f[n - 1] \in Seq(LineSet) /\ Grown(f[n], f[n - 1], incoming[n])
      BY <1>1, <1>2, <2>2, MergeOneGrows DEF Merges
    <3>2. f[n] \in Seq(LineSet) /\ (NoDuplicates(f[n - 1]) => NoDuplicates(f[n]))
      BY <1>2, <3>1, GrownEffect
    <3> QED
      BY <2>2, <3>2
  <2> HIDE DEF T
  <2>3. Inductive(T, Len(incoming))
    BY <2>1, <2>2 DEF Inductive
  <2> QED
    BY <1>2, <2>3, Induction
<1>4. ASSUME NEW p
      PROVE  Congruent(Total(f[Len(incoming)], p), Total(list \o incoming, p), Uint32)
  <2> PICK w : w = PiecesIn(incoming, p)
    OBVIOUS
  <2>1. /\ w \in Seq(Int) /\ Len(w) = Len(incoming)
        /\ \A n \in 1..Len(incoming) : w[n] = PiecesOf(incoming[n], p) /\ w[n] \in Int
    BY PiecesInType
  <2>2. PICK h : Sums(h, w) /\ SumOf(w) = h[Len(incoming)]
    BY <2>1, SumRuns
  <2>3. Total(list, p) \in Int
    BY TotalType
  <2> DEFINE a(n) == Total(f[n], p)
             b(n) == Total(list, p) + h[n]
             C == {n \in Nat : h[n] \in Int /\ Congruent(a(n), b(n), Uint32)}
  <2>4. 0 \in C
    <3>1. h[0] = 0 /\ a(0) = Total(list, p) /\ b(0) = Total(list, p)
      BY <1>1, <2>2, <2>3 DEF Merges, Sums
    <3>2. Congruent(a(0), b(0), Uint32)
      BY <1>2, <2>3, <3>1, CongruentRefl
    <3> QED
      BY <3>1, <3>2
  <2>5. ASSUME NEW n \in 1..Len(incoming), n - 1 \in C
        PROVE  n \in C
    <3>1. f[n - 1] \in Seq(LineSet) /\ Grown(f[n], f[n - 1], incoming[n])
      <4>1. n - 1 \in T
        BY <1>2, <1>3
      <4> QED
        BY <1>1, <1>2, <4>1, MergeOneGrows DEF Merges
    <3>2. Congruent(a(n), a(n - 1) + w[n], Uint32)
      BY <1>2, <2>1, <3>1, GrownEffect
    <3>3. h[n] = h[n - 1] + w[n] /\ h[n - 1] \in Int /\ w[n] \in Int
      BY <2>1, <2>2, <2>5 DEF Sums
    <3>4. Congruent(a(n - 1), b(n - 1), Uint32) /\ a(n - 1) \in Int /\ b(n - 1) \in Int
      BY <2>3, <2>5, <3>1, <3>3, TotalType
    <3>5. b(n) = b(n - 1) + w[n] /\ b(n) \in Int
      BY <2>3, <3>3
    <3> HIDE DEF a, b
    <3>6. Congruent(a(n - 1) + w[n], b(n - 1) + w[n], Uint32)
      <4>1. Congruent(b(n - 1), b(n - 1), Uint32)
        BY <1>2, <3>4, CongruentRefl
      <4> QED
        BY <1>2, <3>3, <3>4, <4>1, CongruentTrans
    <3>7. Congruent(a(n), b(n), Uint32)
      BY <1>2, <3>2, <3>5, <3>6, CongruentTrans
    <3> QED
      BY <3>3, <3>7
  <2>6. Len(incoming) \in C
    <3> HIDE DEF C
    <3>1. Inductive(C, Len(incoming))
      BY <2>4, <2>5 DEF Inductive
    <3> QED
      BY <1>2, <3>1, Induction
  <2>7. Total(list \o incoming, p) = b(Len(incoming))
    BY <2>2, TotalConcat
  <2> QED
    BY <2>6, <2>7
<1> QED
  BY <1>1, <1>2, <1>3, <1>4

-----------------------------------------------------------------------------
(* The loops of RemoveProductFromCart and UpdateProductQty. *)

\* A turn of RemoveProductFromCart's loop.
Kept(new, old, l, p) == new = IF l.id = p THEN old ELSE Append(old, l)

Keeps(f, list, p) ==
    f[0] = <<>> /\ \A n \in 1..Len(list) : Kept(f[n], f[n - 1], list[n], p)

LEMMA RemoveRuns ==
    ASSUME NEW list \in Seq(LineSet), NEW p
    PROVE  \E f : Keeps(f, list, p) /\ RemoveLines(list, p) = f[Len(list)]
<1> DEFINE step == [k \in 1..Len(list) |-> [x \in Seq(LineSet) |->
                       IF list[k].id = p THEN x ELSE Append(x, list[k])]]
           kept[n \in 0..Len(list)] ==
               IF n = 0 THEN <<>>
               ELSE IF list[n].id = p THEN kept[n - 1] ELSE Append(kept[n - 1], list[n])
<1>1. Len(list) \in Nat /\ \A n \in 1..Len(list) : list[n] \in LineSet
  OBVIOUS
<1>2. \A n \in 1..Len(list) : \A x \in Seq(LineSet) :
         (IF list[n].id = p THEN x ELSE Append(x, list[n])) \in Seq(LineSet)
  BY <1>1
<1>3. Loop(Seq(LineSet), <<>>, Len(list), step)
  BY <1>1, <1>2 DEF Loop
<1>4. \A n \in 1..Len(list) : \A x \in Seq(LineSet) :
         step[n][x] = IF list[n].id = p THEN x ELSE Append(x, list[n])
  OBVIOUS
<1>5. PICK g : Runs(g, Seq(LineSet), <<>>, Len(list), step)
  <2> HIDE DEF step
  <2> QED
    BY <1>3, LoopRuns
<1>6. g = [n \in 0..Len(list) |->
             IF n = 0 THEN <<>>
             ELSE IF list[n].id = p THEN g[n - 1] ELSE Append(g[n - 1], list[n])]
  <2> HIDE DEF step
  <2>1. /\ g \in [0..Len(list) -> Seq(LineSet)] /\ g[0] = <<>>
        /\ \A n \in 1..Len(list) : g[n] = step[n][g[n - 1]]
    BY <1>5 DEF Runs
  <2>2. ASSUME NEW n \in 1..Len(list)
        PROVE  g[n] = IF list[n].id = p THEN g[n - 1] ELSE Append(g[n - 1], list[n])
    <3>1. g[n - 1] \in Seq(LineSet)
      BY <1>1, <2>1
    <3> QED
      BY <1>4, <2>1, <3>1
  <2>3. \A n \in 0..Len(list) : n = 0 \/ n \in 1..Len(list)
    OBVIOUS
  <2> QED
    BY <2>1, <2>2, <2>3
<1>7. kept = [n \in 0..Len(list) |->
                IF n = 0 THEN <<>>
                ELSE IF list[n].id = p THEN kept[n - 1] ELSE Append(kept[n - 1], list[n])]
  BY <1>6
<1>8. RemoveLines(list, p) = kept[Len(list)]
  BY DEF RemoveLines
<1> HIDE DEF kept
<1>9. Keeps(kept, list, p)
  <2>1. kept[0] = <<>>
    BY <1>1, <1>7
  <2>2. ASSUME NEW n \in 1..Len(list)
        PROVE  kept[n] = IF list[n].id = p THEN kept[n - 1] ELSE Append(kept[n - 1], list[n])
    <3>1. n \in 0..Len(list) /\ n # 0
      OBVIOUS
    <3> QED
      BY <1>7, <3>1
  <2> QED
    BY <2>1, <2>2 DEF Keeps, Kept
<1> QED
  BY <1>8, <1>9

\* new is made of some of the first n lines of list, none of them of p, and has
\* a product once if list does.
KeptOf(new, list, n, p) ==
    /\ new \in Seq(LineSet)
    /\ \A j \in 1..Len(new) : new[j].id # p /\ \E i \in 1..n : new[j] = list[i]
    /\ NoDuplicates(list) => NoDuplicates(new)

LEMMA KeptStep ==
    ASSUME NEW list \in Seq(LineSet), NEW n \in 1..Len(list), NEW p, NEW old, NEW new,
           KeptOf(old, list, n - 1, p), Kept(new, old, list[n], p)
    PROVE  KeptOf(new, list, n, p)
<1>1. n \in Nat \ {0} /\ list[n] \in LineSet /\ DOMAIN list = 1..Len(list) /\ Len(list) \in Nat
  OBVIOUS
<1>2. /\ old \in Seq(LineSet) /\ (NoDuplicates(list) => NoDuplicates(old))
      /\ \A j \in 1..Len(old) : old[j].id # p /\ \E i \in 1..n - 1 : old[j] = list[i]
  BY DEF KeptOf
<1>3. \A i \in 1..n - 1 : i \in 1..n /\ i # n /\ i \in 1..Len(list)
  BY <1>1
<1>4. CASE list[n].id = p
  <2>1. new = old
    BY <1>4 DEF Kept
  <2> QED
    BY <1>2, <1>3, <2>1 DEF KeptOf
<1>5. CASE list[n].id # p
  <2>1. new = Append(old, list[n])
    BY <1>5 DEF Kept
  <2>2. /\ new \in Seq(LineSet) /\ Len(old) \in Nat /\ Len(new) = Len(old) + 1
        /\ DOMAIN new = 1..(Len(old) + 1) /\ DOMAIN old = 1..Len(old)
        /\ new[Len(old) + 1] = list[n] /\ \A j \in 1..Len(old) : new[j] = old[j]
        /\ \A j \in 1..(Len(old) + 1) : j \in 1..Len(old) \/ j = Len(old) + 1
    BY <1>1, <1>2, <2>1
  <2>3. \A j \in 1..Len(new) : new[j].id # p /\ \E i \in 1..n : new[j] = list[i]
    <3>1. n \in 1..n
      BY <1>1
    <3> QED
      BY <1>2, <1>3, <1>5, <2>2, <3>1
  <2>4. ASSUME NoDuplicates(list)
        PROVE  NoDuplicates(new)
    <3>1. \A j \in 1..Len(old) : old[j].id # list[n].id
      BY <1>1, <1>2, <1>3, <2>4 DEF NoDuplicates
    <3>2. \A i, j \in 1..Len(old) : old[i].id = old[j].id => i = j
      BY <1>2, <2>2, <2>4 DEF NoDuplicates
    <3> QED
      BY <2>2, <3>1, <3>2 DEF NoDuplicates
  <2> QED
    BY <2>2, <2>3, <2>4 DEF KeptOf
<1> QED
  BY <1>4, <1>5

LEMMA RemoveLinesEffect ==
    ASSUME NEW list \in Seq(LineSet), NEW p
    PROVE  LET new == RemoveLines(list, p)
           IN  /\ new \in Seq(LineSet)
               /\ \A j \in 1..Len(new) : new[j].id # p
               /\ NoDuplicates(list) => NoDuplicates(new)
               /\ \A r : r # p => Total(new, r) = Total(list, r)
<1>1. PICK f : Keeps(f, list, p) /\ RemoveLines(list, p) = f[Len(list)]
  BY RemoveRuns
<1>2. Len(list) \in Nat /\ \A n \in 1..Len(list) : list[n] \in LineSet
  OBVIOUS
<1> DEFINE T == {n \in Nat : KeptOf(f[n], list, n, p)}
<1>3. \A n \in 0..Len(list) : n \in T
  <2>1. 0 \in T
    <3>1. f[0] = <<>> /\ <<>> \in Seq(LineSet) /\ DOMAIN <<>> = 1..0 /\ Len(<<>>) = 0
      BY <1>1 DEF Keeps
    <3>2. KeptOf(f[0], list, 0, p)
      BY <3>1 DEF KeptOf, NoDuplicates
    <3> QED
      BY <3>2
  <2>2. ASSUME NEW n \in 1..Len(list), n - 1 \in T
        PROVE  n \in T
    <3>1. KeptOf(f[n - 1], list, n - 1, p) /\ Kept(f[n], f[n - 1], list[n], p)
      BY <1>1, <2>2 DEF Keeps
    <3>2. KeptOf(f[n], list, n, p)
      BY <3>1, KeptStep
    <3> QED
      BY <3>2
  <2> HIDE DEF T
  <2>3. Inductive(T, Len(list))
    BY <2>1, <2>2 DEF Inductive
  <2> QED
    BY <1>2, <2>3, Induction
<1>4. ASSUME NEW r, r # p
      PROVE  Total(f[Len(list)], r) = Total(list, r)
  <2> PICK w : w = PiecesIn(list, r)
    OBVIOUS
  <2>1. /\ w \in Seq(Int) /\ Len(w) = Len(list)
        /\ \A n \in 1..Len(list) : w[n] = PiecesOf(list[n], r) /\ w[n] \in Int
    BY PiecesInType
  <2>2. PICK h : Sums(h, w) /\ SumOf(w) = h[Len(list)]
    BY <2>1, SumRuns
  <2> DEFINE C == {n \in Nat : Total(f[n], r) = h[n]}
  <2>3. 0 \in C
    <3>1. f[0] = <<>> /\ h[0] = 0
      BY <1>1, <2>2 DEF Keeps, Sums
    <3>2. PiecesIn(<<>>, r) = <<>>
      BY DEF PiecesIn
    <3> QED
      BY <3>1, <3>2, SumEmpty DEF Total
  <2>4. ASSUME NEW n \in 1..Len(list), n - 1 \in C
        PROVE  n \in C
    <3>1. /\ f[n - 1] \in Seq(LineSet) /\ Kept(f[n], f[n - 1], list[n], p)
      <4>1. n - 1 \in T
        BY <1>2, <1>3
      <4> QED
        BY <1>1, <4>1 DEF Keeps, KeptOf
    <3>2. h[n] = h[n - 1] + w[n] /\ Total(f[n - 1], r) = h[n - 1] /\ h[n - 1] \in Int
      <4>1. Total(f[n - 1], r) \in Int
        BY <3>1, TotalType
      <4> QED
        BY <2>1, <2>2, <2>4, <4>1 DEF Sums
    <3>3. CASE list[n].id = p
      <4>1. w[n] = 0
        BY <1>4, <2>1, <3>3 DEF PiecesOf
      <4>2. h[n] = h[n - 1]
        BY <3>2, <4>1
      <4> QED
        BY <3>1, <3>2, <3>3, <4>2 DEF Kept
    <3>4. CASE list[n].id # p
      <4>1. f[n] = Append(f[n - 1], list[n])
        BY <3>1, <3>4 DEF Kept
      <4>2. Total(f[n], r) = Total(f[n - 1], r) + PiecesOf(list[n], r)
        BY <1>2, <3>1, <4>1, TotalAppend
      <4> QED
        BY <2>1, <3>2, <4>2
    <3> QED
      BY <3>3, <3>4
  <2>5. Len(list) \in C
    <3> HIDE DEF C
    <3>1. Inductive(C, Len(list))
      BY <2>3, <2>4 DEF Inductive
    <3> QED
      BY <1>2, <3>1, Induction
  <2> QED
    BY <2>2, <2>5 DEF Total
<1>5. KeptOf(f[Len(list)], list, Len(list), p)
  BY <1>2, <1>3
<1> QED
  BY <1>1, <1>4, <1>5 DEF KeptOf

\* After UpdateProductQty(p, q), or with q = 0 RemoveProductFromCart(p).
IsSet(new, list, p, q) ==
    /\ new \in Seq(LineSet)
    /\ \A j \in 1..Len(new) : new[j].id = p => new[j].qty = q
    /\ InCart(new, p) <=> q # 0
    /\ NoDuplicates(list) => NoDuplicates(new)
    /\ \A r : r # p => Total(new, r) = Total(list, r)

LEMMA RemoveLinesSets ==
    ASSUME NEW list \in Seq(LineSet), NEW p
    PROVE  IsSet(RemoveLines(list, p), list, p, 0)
<1> PICK new : new = RemoveLines(list, p)
  OBVIOUS
<1>1. /\ new \in Seq(LineSet)
      /\ \A j \in 1..Len(new) : new[j].id # p
      /\ NoDuplicates(list) => NoDuplicates(new)
      /\ \A r : r # p => Total(new, r) = Total(list, r)
  BY RemoveLinesEffect
<1>2. ~InCart(new, p)
  BY <1>1, LineFields DEF InCart, Positions
<1> QED
  BY <1>1, <1>2 DEF IsSet

LEMMA SetQtySets ==
    ASSUME NEW list \in Seq(LineSet), NEW p \in Products, NEW q \in 0..(Uint32 - 1)
    PROVE  IsSet(SetQty(list, p, q), list, p, q)
<1> PICK new : new = SetQty(list, p, q)
  OBVIOUS
<1>1. /\ Len(list) \in Nat /\ DOMAIN list = 1..Len(list)
      /\ \A n \in 1..Len(list) : list[n] \in LineSet
  BY LineFields
<1>2. Line(p, q) \in LineSet /\ Line(p, q).id = p /\ Line(p, q).qty = q
  BY DEF Line, LineSet
<1>3. CASE q = 0
  <2>1. new = RemoveLines(list, p)
    BY <1>3 DEF SetQty
  <2> QED
    BY <1>3, <2>1, RemoveLinesSets
<1>4. CASE q # 0 /\ InCart(list, p)
  <2>1. new = [i \in 1..Len(list) |-> IF list[i].id = p THEN Line(p, q) ELSE list[i]]
    BY <1>1, <1>4 DEF SetQty
  <2>2. /\ \A n \in 1..Len(list) : new[n] = IF list[n].id = p THEN Line(p, q) ELSE list[n]
        /\ new \in [1..Len(list) -> LineSet]
    BY <1>1, <1>2, <2>1
  <2>3. new \in Seq(LineSet) /\ Len(new) = Len(list) /\ DOMAIN new = 1..Len(list)
    BY <1>1, <2>2
  <2>4. \A n \in 1..Len(list) : /\ new[n].id = list[n].id
                                /\ new[n].id = p => new[n].qty = q
                                /\ list[n].id # p => new[n] = list[n]
    BY <1>2, <2>2
  <2>5. InCart(new, p)
    BY <1>1, <1>4, <2>3, <2>4 DEF InCart, Positions
  <2>6. NoDuplicates(list) => NoDuplicates(new)
    BY <1>1, <2>3, <2>4 DEF NoDuplicates
  <2>7. ASSUME NEW r, r # p
        PROVE  Total(new, r) = Total(list, r)
    <3>1. \A n \in 1..Len(list) : PiecesOf(new[n], r) = PiecesOf(list[n], r)
      BY <2>4, <2>7 DEF PiecesOf
    <3>2. PiecesIn(new, r) \in Seq(Int) /\ Len(PiecesIn(new, r)) = Len(list)
          /\ \A n \in 1..Len(list) : PiecesIn(new, r)[n] = PiecesOf(new[n], r)
      BY <2>3, PiecesInType
    <3>3. PiecesIn(list, r) \in Seq(Int) /\ Len(PiecesIn(list, r)) = Len(list)
          /\ \A n \in 1..Len(list) : PiecesIn(list, r)[n] = PiecesOf(list[n], r)
      BY PiecesInType
    <3>4. PiecesIn(new, r) = PiecesIn(list, r)
      BY <3>1, <3>2, <3>3, SeqEqual
    <3> QED
      BY <3>4 DEF Total
  <2> QED
    BY <1>4, <2>3, <2>4, <2>5, <2>6, <2>7 DEF IsSet
<1>5. CASE q # 0 /\ ~InCart(list, p)
  <2>1. new = Append(list, Line(p, q))
    BY <1>5 DEF SetQty
  <2>2. /\ new \in Seq(LineSet) /\ Len(new) = Len(list) + 1 /\ DOMAIN new = 1..(Len(list) + 1)
        /\ new[Len(list) + 1] = Line(p, q)
        /\ \A n \in 1..Len(list) : new[n] = list[n]
        /\ \A n \in 1..(Len(list) + 1) : n \in 1..Len(list) \/ n = Len(list) + 1
        /\ Len(list) + 1 \in 1..(Len(list) + 1)
    BY <1>1, <1>2, <2>1
  <2>3. \A n \in 1..Len(list) : list[n].id # p
    BY <1>1, <1>5 DEF InCart, Positions
  <2>4. \A j \in 1..Len(new) : new[j].id = p => new[j].qty = q
    BY <1>2, <2>2, <2>3
  <2>5. InCart(new, p)
    BY <1>2, <2>2 DEF InCart, Positions
  <2>6. NoDuplicates(list) => NoDuplicates(new)
    <3>1. Grown(new, list, Line(p, q))
      BY <1>2, <1>5, <2>1 DEF Grown
    <3> QED
      BY <1>2, <3>1, GrownEffect
  <2>7. ASSUME NEW r, r # p
        PROVE  Total(new, r) = Total(list, r)
    <3>1. Total(new, r) = Total(list, r) + PiecesOf(Line(p, q), r)
      BY <1>2, <2>1, TotalAppend
    <3>2. PiecesOf(Line(p, q), r) = 0 /\ Total(list, r) \in Int
      BY <1>2, <2>7, TotalType DEF PiecesOf
    <3> QED
      BY <3>1, <3>2
  <2> QED
    BY <1>5, <2>2, <2>4, <2>5, <2>6, <2>7 DEF IsSet
<1> QED
  BY <1>3, <1>4, <1>5

-----------------------------------------------------------------------------
(* The steps. *)

\* Every list a request carries is a list of lines, of any length.
LEMMA IncomingType ==
    Incoming \subseteq Seq(LineSet)
BY CartEditsAssumption DEF Incoming, BoundedSeq, SeqOf

\* What a step does to the list, by the request.
LEMMA StepEffect ==
    ASSUME LinesTypeOK, Next
    PROVE  \/ \E p \in Products, q \in 0..(Uint32 - 1) :
                 /\ request' = [name |-> "add", id |-> p, qty |-> q]
                 /\ Grown(lines', lines, Line(p, q)) /\ Line(p, q) \in LineSet
           \/ \E incoming \in Seq(LineSet) :
                 /\ request' = [name |-> "merge", incoming |-> incoming]
                 /\ lines' = MergeLines(lines, incoming)
           \/ \E p \in Products, q \in 0..(Uint32 - 1) :
                 /\ request' = [name |-> "set", id |-> p, qty |-> q]
                 /\ IsSet(lines', lines, p, q)
<1>1. lines \in Seq(LineSet)
  BY DEF LinesTypeOK
<1>2. CASE AddPieces
  <2>1. \A p \in Products, q \in 0..(Uint32 - 1) : Line(p, q) \in LineSet
    BY DEF Line, LineSet
  <2> QED
    BY <1>1, <1>2, <2>1, AddLineGrows DEF AddPieces
<1>3. CASE MergePieces
  BY <1>3, IncomingType DEF MergePieces
<1>4. CASE SetPieces
  BY <1>1, <1>4, SetQtySets DEF SetPieces
<1>5. CASE RemoveProduct
  <2>1. 0 \in 0..(Uint32 - 1)
    BY CartLinesAssumption
  <2> QED
    BY <1>1, <1>5, <2>1, RemoveLinesSets DEF RemoveProduct
<1> QED
  BY <1>2, <1>3, <1>4, <1>5 DEF Next

LEMMA TypeStep ==
    ASSUME LinesTypeOK, [Next]_listVars
    PROVE  LinesTypeOK'
<1>1. lines \in Seq(LineSet)
  BY DEF LinesTypeOK
<1>2. CASE Next
  <2>1. CASE \E p \in Products, q \in 0..(Uint32 - 1) :
                 Grown(lines', lines, Line(p, q)) /\ Line(p, q) \in LineSet
    BY <1>1, <2>1, GrownEffect DEF LinesTypeOK
  <2>2. CASE \E incoming \in Seq(LineSet) : lines' = MergeLines(lines, incoming)
    BY <1>1, <2>2, MergeLinesEffect DEF LinesTypeOK
  <2>3. CASE \E p \in Products, q \in 0..(Uint32 - 1) : IsSet(lines', lines, p, q)
    BY <2>3 DEF IsSet, LinesTypeOK
  <2> QED
    BY <1>2, <2>1, <2>2, <2>3, StepEffect
<1>3. CASE UNCHANGED listVars
  BY <1>3 DEF LinesTypeOK, listVars
<1> QED
  BY <1>2, <1>3

LEMMA TypeInit ==
    Init => LinesTypeOK
BY IncomingType DEF Init, LinesTypeOK

\* Every quantity of a stored line is a uint32, whatever was added to it.
THEOREM LinesTypeCorrect == Spec => []LinesTypeOK
BY TypeInit, TypeStep, PTL DEF Spec

\* What a transaction is charged is what the lines cost, up to whole turns of
\* 2^64, and exactly that if it fits an int64.
THEOREM AmountCorrect == Spec => []AmountIsExact
BY LinesTypeCorrect, AmountExact, PTL

\* AddToCart and CreateCart: after the request the list stands for the pieces it
\* stood for and those of the request, whatever lines they were in.
THEOREM PiecesAddCorrect == Spec => PiecesAdd
<1>1. ASSUME LinesTypeOK, Next, NEW p \in Products
      PROVE  /\ request'.name = "add" =>
                   Pieces(lines', p) = Pieces(Append(lines, Line(request'.id, request'.qty)), p)
             /\ request'.name = "merge" =>
                   Pieces(lines', p) = Pieces(lines \o request'.incoming, p)
  <2>1. lines \in Seq(LineSet) /\ lines' \in Seq(LineSet) /\ Uint32 \in Nat \ {0}
    BY <1>1, TypeStep, CartLinesAssumption DEF LinesTypeOK
  <2>2. Total(lines', p) \in Int
    BY <2>1, TotalType
  <2>3. CASE \E r \in Products, q \in 0..(Uint32 - 1) :
                 /\ request' = [name |-> "add", id |-> r, qty |-> q]
                 /\ Grown(lines', lines, Line(r, q)) /\ Line(r, q) \in LineSet
    <3> PICK r \in Products, q \in 0..(Uint32 - 1) :
                 /\ request' = [name |-> "add", id |-> r, qty |-> q]
                 /\ Grown(lines', lines, Line(r, q)) /\ Line(r, q) \in LineSet
      BY <2>3
    <3> PICK all : all = Append(lines, Line(r, q))
      OBVIOUS
    <3>1. all \in Seq(LineSet) /\ Total(all, p) = Total(lines, p) + PiecesOf(Line(r, q), p)
      BY <2>1, TotalAppend
    <3>2. Congruent(Total(lines', p), Total(all, p), Uint32) /\ Total(all, p) \in Int
      BY <2>1, <3>1, GrownEffect, TotalType
    <3>3. Total(lines', p) % Uint32 = Total(all, p) % Uint32
      BY <2>1, <2>2, <3>2, CongruentMod
    <3>4. Pieces(lines', p) = Pieces(Append(lines, Line(r, q)), p)
      BY <3>3 DEF Pieces, Total
    <3> QED
      BY <3>4
  <2>4. CASE \E incoming \in Seq(LineSet) :
                 /\ request' = [name |-> "merge", incoming |-> incoming]
                 /\ lines' = MergeLines(lines, incoming)
    <3> PICK incoming \in Seq(LineSet) :
                 /\ request' = [name |-> "merge", incoming |-> incoming]
                 /\ lines' = MergeLines(lines, incoming)
      BY <2>4
    <3> PICK all : all = lines \o incoming
      OBVIOUS
    <3>1. all \in Seq(LineSet) /\ Congruent(Total(lines', p), Total(all, p), Uint32)
      BY <2>1, MergeLinesEffect
    <3>2. Total(all, p) \in Int
      BY <3>1, TotalType
    <3>3. Total(lines', p) % Uint32 = Total(all, p) % Uint32
      BY <2>1, <2>2, <3>1, <3>2, CongruentMod
    <3>4. Pieces(lines', p) = Pieces(lines \o incoming, p)
      BY <3>3 DEF Pieces, Total
    <3> QED
      BY <3>4
  <2>5. CASE \E r \in Products, q \in 0..(Uint32 - 1) :
                 request' = [name |-> "set", id |-> r, qty |-> q]
    BY <2>5
  <2> QED
    BY <1>1, <2>3, <2>4, <2>5, StepEffect
<1>2. ASSUME LinesTypeOK, [Next]_listVars
      PROVE  [\A p \in Products :
                 /\ request'.name = "add" =>
                       Pieces(lines', p) = Pieces(Append(lines, Line(request'.id, request'.qty)), p)
                 /\ request'.name = "merge" =>
                       Pieces(lines', p) = Pieces(lines \o request'.incoming, p)]_listVars
  BY <1>1, <1>2
<1> QED
  BY <1>2, LinesTypeCorrect, PTL DEF Spec, PiecesAdd

\* UpdateProductQty and RemoveProductFromCart: every line of the product, and no
\* piece of another.
THEOREM PiecesSetCorrect == Spec => PiecesSet
<1>1. ASSUME LinesTypeOK, Next, request'.name = "set"
      PROVE  /\ \A l \in Range(lines') : l.id = request'.id => l.qty = request'.qty
             /\ InCart(lines', request'.id) <=> request'.qty # 0
             /\ \A p \in Products \ {request'.id} : Pieces(lines', p) = Pieces(lines, p)
  <2>1. PICK r \in Products, q \in 0..(Uint32 - 1) :
           /\ request' = [name |-> "set", id |-> r, qty |-> q]
           /\ IsSet(lines', lines, r, q)
    BY <1>1, StepEffect
  <2>2. request'.id = r /\ request'.qty = q
    BY <2>1
  <2>3. /\ lines' \in Seq(LineSet)
        /\ \A j \in 1..Len(lines') : lines'[j].id = r => lines'[j].qty = q
        /\ InCart(lines', r) <=> q # 0
        /\ \A p : p # r => Total(lines', p) = Total(lines, p)
    BY <2>1 DEF IsSet
  <2>4. \A l \in Range(lines') : l.id = r => l.qty = q
    BY <2>3, LineFields DEF Range
  <2>5. \A p \in Products \ {r} : Pieces(lines', p) = Pieces(lines, p)
    BY <2>3 DEF Pieces, Total
  <2> QED
    BY <2>2, <2>3, <2>4, <2>5
<1>2. ASSUME LinesTypeOK, [Next]_listVars
      PROVE  [request'.name = "set" =>
                 /\ \A l \in Range(lines') : l.id = request'.id => l.qty = request'.qty
                 /\ InCart(lines', request'.id) <=> request'.qty # 0
                 /\ \A p \in Products \ {request'.id} : Pieces(lines', p) = Pieces(lines, p)]_listVars
  BY <1>1, <1>2
<1> QED
  BY <1>2, LinesTypeCorrect, PTL DEF Spec, PiecesSet

\* No edit brings a second line of a product in: not an addition, not a merge of
\* a request that names a new product twice, not a PUT of one quantity.
THEOREM DuplicatesOnlyFromPutCorrect == Spec => DuplicatesOnlyFromPut
<1>1. ASSUME LinesTypeOK, Next, NoDuplicates(lines)
      PROVE  NoDuplicates(lines')
  <2>1. lines \in Seq(LineSet)
    BY <1>1 DEF LinesTypeOK
  <2>2. CASE \E p \in Products, q \in 0..(Uint32 - 1) :
                 Grown(lines', lines, Line(p, q)) /\ Line(p, q) \in LineSet
    BY <1>1, <2>1, <2>2, GrownEffect
  <2>3. CASE \E incoming \in Seq(LineSet) : lines' = MergeLines(lines, incoming)
    BY <1>1, <2>1, <2>3, MergeLinesEffect
  <2>4. CASE \E p \in Products, q \in 0..(Uint32 - 1) : IsSet(lines', lines, p, q)
    BY <1>1, <2>4 DEF IsSet
  <2> QED
    BY <1>1, <2>2, <2>3, <2>4, StepEffect
<1>2. ASSUME LinesTypeOK, [Next]_listVars
      PROVE  [NoDuplicates(lines) => NoDuplicates(lines')]_listVars
  BY <1>1, <1>2
<1> QED
  BY <1>2, LinesTypeCorrect, PTL DEF Spec, DuplicatesOnlyFromPut
=============================================================================
