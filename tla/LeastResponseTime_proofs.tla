----------------------- MODULE LeastResponseTime_proofs -----------------------
(***************************************************************************)
(* Theorems of LeastResponseTime for every list of endpoints, every set of *)
(* response times and every number of reports.                             *)
(***************************************************************************)
EXTENDS LeastResponseTime, WellFoundedInduction, TLAPS

-----------------------------------------------------------------------------
(* Numbers: least and greatest elements, induction and recursion. *)

LEMMA LeastElement ==
  ASSUME NEW N \in SUBSET Nat, N # {}
  PROVE  \E x \in N : \A y \in N : x <= y
<1> DEFINE R == {ss \in Nat \X Nat : ss[1] < ss[2]}
<1>1. IsWellFoundedOn(R, Nat)
  BY NatLessThanWellFounded DEF OpToRel
<1>2. \E x \in N : \A y \in N : ~(<<y, x>> \in R)
  <2> HIDE DEF R
  <2> QED BY <1>1, WFMin
<1>3. PICK x \in N : \A y \in N : ~(<<y, x>> \in R)
  BY <1>2
<1>4. ASSUME NEW y \in N PROVE x <= y
  <2>1. x \in Nat /\ y \in Nat /\ ~(<<y, x>> \in R)
    BY <1>3
  <2>2. ~(y < x)
    BY <2>1
  <2> QED BY <2>1, <2>2
<1> QED BY <1>4

LEMMA MaxProperties ==
  ASSUME NEW l \in Nat, NEW N \in SUBSET (1 .. l), N # {}
  PROVE  Max(N) \in N /\ \A y \in N : y <= Max(N)
<1> DEFINE M == {l - x : x \in N}
<1>1. M \in SUBSET Nat /\ M # {}
  <2>1. \A x \in N : x \in 1 .. l /\ l - x \in Nat
    OBVIOUS
  <2> QED BY <2>1
<1>2. PICK m \in M : \A y \in M : m <= y
  BY <1>1, LeastElement
<1>3. PICK x \in N : m = l - x
  BY <1>2
<1>4. ASSUME NEW y \in N PROVE x >= y
  <2>1. l - x <= l - y /\ x \in 1 .. l /\ y \in 1 .. l
    BY <1>2, <1>3
  <2> QED BY <2>1
<1>5. Max(N) \in N /\ \A y \in N : Max(N) >= y
  BY <1>4 DEF Max
<1> QED BY <1>5

LEMMA Induction ==
  ASSUME NEW N \in SUBSET Nat, 0 \in N, \A n \in N : n + 1 \in N
  PROVE  N = Nat
<1> SUFFICES ASSUME N # Nat PROVE FALSE
  OBVIOUS
<1> DEFINE M == Nat \ N
<1>1. M \in SUBSET Nat /\ M # {}
  OBVIOUS
<1>2. PICK x \in M : \A y \in M : x <= y
  BY <1>1, LeastElement
<1>3. x \in Nat /\ x # 0 /\ x - 1 \in Nat
  OBVIOUS
<1>4. x - 1 \in N
  BY <1>2, <1>3
<1>5. (x - 1) + 1 = x
  BY <1>3
<1> QED BY <1>4, <1>5

\* g is defined by recursion from a, as far as n or everywhere.
FollowsUpto(g, a, step, n) == g[0] = a /\ \A k \in 0 .. n - 1 : g[k + 1] = step[k][g[k]]
Follows(g, a, step) == g[0] = a /\ \A n \in Nat : g[n + 1] = step[n][g[n]]

LEMMA Recursion ==
  ASSUME NEW X, NEW a \in X, NEW step \in [Nat -> [X -> X]]
  PROVE  \E g \in [Nat -> X] : Follows(g, a, step)
<1> DEFINE Upto(g, n) == FollowsUpto(g, a, step, n)
           N == {n \in Nat : \E g \in [0 .. n -> X] : Upto(g, n)}
<1>1. N = Nat
  <2>1. 0 \in N
    <3>1. [k \in 0 .. 0 |-> a] \in [0 .. 0 -> X] /\ Upto([k \in 0 .. 0 |-> a], 0)
      BY DEF FollowsUpto
    <3> QED BY <3>1
  <2>2. ASSUME NEW n \in N PROVE n + 1 \in N
    <3>1. PICK g \in [0 .. n -> X] : Upto(g, n)
      OBVIOUS
    <3> DEFINE h == [k \in 0 .. n + 1 |-> IF k = n + 1 THEN step[n][g[n]] ELSE g[k]]
    <3>2. n \in Nat /\ g[n] \in X
      OBVIOUS
    <3>3. h \in [0 .. n + 1 -> X]
      BY <3>2
    <3>4. h[0] = a
      BY <3>1, <3>2 DEF FollowsUpto
    <3>5. \A k \in 0 .. n : h[k] = g[k] /\ (k # n => h[k + 1] = g[k + 1])
      BY <3>2
    <3>6. h[n + 1] = step[n][h[n]]
      <4>1. n \in 0 .. n /\ n + 1 \in 0 .. n + 1
        BY <3>2
      <4>2. h[n] = g[n] /\ h[n + 1] = step[n][g[n]]
        BY <3>5, <4>1
      <4> QED BY <4>2
    <3>7. \A k \in 0 .. (n + 1) - 1 : h[k + 1] = step[k][h[k]]
      <4>3. (n + 1) - 1 = n
        BY <3>2
      <4> SUFFICES ASSUME NEW k \in 0 .. n PROVE h[k + 1] = step[k][h[k]]
        BY <4>3
      <4>1. CASE k = n
        BY <3>6, <4>1
      <4>2. CASE k # n
        <5>1. k \in 0 .. n - 1
          BY <3>2, <4>2
        <5> QED BY <3>1, <3>5, <4>2, <5>1 DEF FollowsUpto
      <4> QED BY <4>1, <4>2
    <3> HIDE DEF h
    <3>8. Upto(h, n + 1)
      BY <3>4, <3>7 DEF FollowsUpto
    <3> QED BY <3>2, <3>3, <3>8
  <2> HIDE DEF N
  <2>3. N \in SUBSET Nat
    BY DEF N
  <2> QED BY <2>1, <2>2, <2>3, Induction
<1>2. \A n \in Nat : \E g \in [0 .. n -> X] : Upto(g, n)
  BY <1>1
<1> DEFINE G(n) == CHOOSE g \in [0 .. n -> X] : Upto(g, n)
<1>3. \A n \in Nat : G(n) \in [0 .. n -> X] /\ Upto(G(n), n)
  BY <1>2
\* one that goes further agrees
<1>4. ASSUME NEW n \in Nat, NEW m \in Nat, m <= n PROVE \A k \in 0 .. m : G(m)[k] = G(n)[k]
  <2> DEFINE A == {k \in Nat : k <= m => G(m)[k] = G(n)[k]}
  <2>1. 0 \in A
    BY <1>3 DEF FollowsUpto
  <2>2. ASSUME NEW k \in A PROVE k + 1 \in A
    <3> SUFFICES ASSUME k + 1 <= m PROVE G(m)[k + 1] = G(n)[k + 1]
      OBVIOUS
    <3>1. k \in 0 .. m - 1 /\ k \in 0 .. n - 1 /\ k <= m
      BY <1>4
    <3>2. G(m)[k + 1] = step[k][G(m)[k]] /\ G(n)[k + 1] = step[k][G(n)[k]]
      <4> HIDE DEF G
      <4> QED BY <1>3, <3>1 DEF FollowsUpto
    <3>3. G(m)[k] = G(n)[k]
      BY <3>1
    <3> QED BY <3>2, <3>3
  <2> HIDE DEF A
  <2>3. A \in SUBSET Nat
    BY DEF A
  <2>4. A = Nat
    BY <2>1, <2>2, <2>3, Induction
  <2>5. ASSUME NEW k \in 0 .. m PROVE G(m)[k] = G(n)[k]
    <3>1. k \in A /\ k <= m
      BY <2>4
    <3> QED BY <3>1 DEF A
  <2> QED BY <2>5
<1> DEFINE f == [n \in Nat |-> G(n)[n]]
<1> HIDE DEF G
<1>5. f \in [Nat -> X]
  BY <1>3
<1>6. f[0] = a
  BY <1>3 DEF FollowsUpto, f
<1>7. ASSUME NEW n \in Nat PROVE f[n + 1] = step[n][f[n]]
  <2>1. n + 1 \in Nat /\ n \in 0 .. (n + 1) - 1 /\ n <= n + 1
    OBVIOUS
  <2>2. G(n + 1)[n + 1] = step[n][G(n + 1)[n]]
    BY <1>3, <2>1 DEF FollowsUpto
  <2>3. G(n)[n] = G(n + 1)[n]
    BY <1>4, <2>1
  <2> QED BY <2>1, <2>2, <2>3 DEF f
<1> HIDE DEF f
<1> QED BY <1>5, <1>6, <1>7 DEF Follows

-----------------------------------------------------------------------------
(* The average of a sequence of reports. *)

LEMMA PowerProperties ==
  Power \in [Nat -> Nat \ {0}] /\ \A k \in Nat : Power[k + 1] = 10 * Power[k]
<1> DEFINE step == [k \in Nat |-> [x \in Nat |-> 10 * x]]
<1>1. step \in [Nat -> [Nat -> Nat]]
  OBVIOUS
<1>2. PICK g \in [Nat -> Nat] : Follows(g, 1, step)
  <2> HIDE DEF step
  <2> QED BY <1>1, Recursion, Zenon
<1>3. ASSUME NEW k \in Nat PROVE g[k] = IF k = 0 THEN 1 ELSE 10 * g[k - 1]
  <2>1. CASE k # 0
    <3>1. k - 1 \in Nat /\ (k - 1) + 1 = k
      BY <2>1
    <3>2. g[k] = step[k - 1][g[k - 1]]
      BY <1>2, <3>1 DEF Follows
    <3> QED BY <2>1, <3>1, <3>2
  <2> QED BY <1>2, <2>1 DEF Follows
<1>4. g = [k \in Nat |-> IF k = 0 THEN 1 ELSE 10 * g[k - 1]]
  BY <1>3
<1>5. Power = [k \in Nat |-> IF k = 0 THEN 1 ELSE 10 * Power[k - 1]]
  BY <1>4 DEF Power
<1>6. \A k \in Nat : Power[k + 1] = 10 * Power[k]
  <2>1. \A k \in Nat : k + 1 \in Nat /\ k + 1 # 0 /\ (k + 1) - 1 = k
    OBVIOUS
  <2> QED BY <1>5, <2>1
<1>7. Power[0] = 1
  BY <1>5
<1> DEFINE P == {k \in Nat : Power[k] \in Nat \ {0}}
<1>8. P = Nat
  <2>1. 0 \in P
    BY <1>7
  <2>2. \A k \in P : k + 1 \in P
    BY <1>6
  <2>3. P \in SUBSET Nat
    OBVIOUS
  <2> HIDE DEF P
  <2> QED BY <2>1, <2>2, <2>3, Induction
<1> HIDE DEF P
<1>9. \A k \in Nat : Power[k] \in Nat \ {0}
  BY <1>8 DEF P
<1> DEFINE F == [k \in Nat |-> IF k = 0 THEN 1 ELSE 10 * Power[k - 1]]
<1>10. Power = F /\ DOMAIN F = Nat /\ F = [k \in Nat |-> F[k]]
  BY <1>5
<1> HIDE DEF F
<1>11. Power \in [Nat -> Nat \ {0}]
  BY <1>9, <1>10
<1> QED BY <1>6, <1>11

\* g sums up the average of s, report by report.
SumsUp(g, s) ==
  /\ g[0] = 0 /\ Average(s) = g[Len(s)]
  /\ \A k \in 1 .. Len(s) :
       g[k] = g[k - 1] + 9 * s[k] * Power[MaxReports - 1 - (Len(s) - k)]

LEMMA AverageUnfolds ==
  ASSUME NEW s \in Seq(Int), Len(s) <= MaxReports
  PROVE  \E g \in [0 .. Len(s) -> Int] : SumsUp(g, s)
<1> DEFINE l == Len(s)
           Weighted(k) == 9 * s[k] * Power[MaxReports - 1 - (l - k)]
           step == [k \in Nat |-> [x \in Int |-> x + (IF k + 1 \in 1 .. l THEN Weighted(k + 1) ELSE 0)]]
<1>1. l \in Nat /\ MaxReports \in Nat
  BY ConfigAssumption
<1>2. ASSUME NEW k \in 1 .. l PROVE Weighted(k) \in Int
  <2>1. MaxReports - 1 - (l - k) \in Nat
    BY <1>1
  <2>2. Power[MaxReports - 1 - (l - k)] \in Int /\ s[k] \in Int
    <3>1. \A p \in Nat : Power[p] \in Nat
      BY PowerProperties
    <3>2. k \in 1 .. Len(s)
      OBVIOUS
    <3> QED BY <2>1, <3>1, <3>2
  <2> QED BY <2>2
<1> HIDE DEF Weighted, l
<1>3. step \in [Nat -> [Int -> Int]]
  BY <1>2
<1>4. PICK h \in [Nat -> Int] : Follows(h, 0, step)
  <2>1. 0 \in Int
    OBVIOUS
  <2> HIDE DEF step
  <2> QED BY <1>3, <2>1, Recursion, Zenon
<1> DEFINE g == [k \in 0 .. l |-> h[k]]
<1>5. g \in [0 .. l -> Int] /\ g[0] = 0
  BY <1>1, <1>4 DEF Follows
<1>6. ASSUME NEW k \in 1 .. l PROVE g[k] = g[k - 1] + Weighted(k)
  <2>1. k - 1 \in Nat /\ (k - 1) + 1 = k /\ k \in 0 .. l /\ k - 1 \in 0 .. l
    BY <1>1
  <2>2. h[k] = step[k - 1][h[k - 1]] /\ h[k - 1] \in Int
    BY <1>4, <2>1 DEF Follows
  <2>3. step[k - 1][h[k - 1]] = h[k - 1] + Weighted(k)
    BY <2>1, <2>2
  <2> QED BY <2>1, <2>2, <2>3
<1>7. g = [k \in 0 .. l |-> IF k = 0 THEN 0 ELSE g[k - 1] + Weighted(k)]
  <2> SUFFICES ASSUME NEW k \in 0 .. l
               PROVE  g[k] = IF k = 0 THEN 0 ELSE g[k - 1] + Weighted(k)
    OBVIOUS
  <2>1. CASE k = 0
    BY <1>5, <2>1
  <2>2. CASE k # 0
    <3>1. k \in 1 .. l
      BY <1>1, <2>2
    <3> HIDE DEF g
    <3> QED BY <1>6, <2>2, <3>1
  <2> QED BY <2>1, <2>2
<1> DEFINE F == CHOOSE f : f = [k \in 0 .. l |-> IF k = 0 THEN 0 ELSE f[k - 1] + Weighted(k)]
<1>8. F = [k \in 0 .. l |-> IF k = 0 THEN 0 ELSE F[k - 1] + Weighted(k)]
  <2> HIDE DEF g
  <2> QED BY <1>7
<1>9. Average(s) = F[l]
  BY DEF Average, Weighted, l
<1> HIDE DEF F
<1>10. F[0] = 0 /\ \A k \in 1 .. l : F[k] = F[k - 1] + Weighted(k)
  BY <1>1, <1>8
<1>11. \A k \in 0 .. l : F[k] \in Int
  <2> DEFINE A == {k \in Nat : k <= l => F[k] \in Int}
  <2>1. 0 \in A
    BY <1>10
  <2>2. ASSUME NEW k \in A PROVE k + 1 \in A
    <3> SUFFICES ASSUME k + 1 <= l PROVE F[k + 1] \in Int
      OBVIOUS
    <3>1. k + 1 \in 1 .. l /\ (k + 1) - 1 = k /\ F[k] \in Int
      BY <1>1
    <3>2. F[k + 1] = F[k] + Weighted(k + 1)
      BY <1>10, <3>1
    <3> QED BY <1>2, <3>1, <3>2
  <2>3. A \in SUBSET Nat
    OBVIOUS
  <2> HIDE DEF A
  <2>4. A = Nat
    BY <2>1, <2>2, <2>3, Induction
  <2> QED BY <1>1, <2>4, SMTT(30) DEF A
<1>12. F \in [0 .. l -> Int]
  <2> DEFINE G == [k \in 0 .. l |-> IF k = 0 THEN 0 ELSE F[k - 1] + Weighted(k)]
  <2>1. F = G /\ G = [k \in 0 .. l |-> G[k]]
    BY <1>8
  <2> HIDE DEF G
  <2> QED BY <1>11, <2>1
<1> QED BY <1>9, <1>10, <1>12 DEF Weighted, l, SumsUp

\* A report folded into the average of those before it gives the average of all:
\* the division leaves no remainder.
LEMMA AverageOfAppend ==
  ASSUME NEW s \in Seq(Int), Len(s) < MaxReports, NEW x \in Int
  PROVE  Averaged(Average(s), x) = Average(Append(s, x))
<1> DEFINE l == Len(s)
           t == Append(s, x)
<1>1. /\ l \in Nat /\ MaxReports \in Nat /\ t \in Seq(Int) /\ Len(t) = l + 1
      /\ t[l + 1] = x /\ \A k \in 1 .. l : t[k] = s[k] /\ s[k] \in Int
  BY ConfigAssumption
<1> HIDE DEF t, l
<1>2. PICK g \in [0 .. l -> Int] :
        /\ g[0] = 0 /\ Average(s) = g[l]
        /\ \A k \in 1 .. l : g[k] = g[k - 1] + 9 * s[k] * Power[MaxReports - 1 - (l - k)]
  <2>1. Len(s) <= MaxReports
    BY <1>1 DEF l
  <2>2. \E g \in [0 .. Len(s) -> Int] : SumsUp(g, s)
    BY <2>1, AverageUnfolds
  <2> QED BY <2>2 DEF SumsUp, l
<1>3. PICK h \in [0 .. l + 1 -> Int] :
        /\ h[0] = 0 /\ Average(t) = h[l + 1]
        /\ \A k \in 1 .. l + 1 : h[k] = h[k - 1] + 9 * t[k] * Power[MaxReports - 1 - ((l + 1) - k)]
  <2>1. Len(t) <= MaxReports
    BY <1>1 DEF l
  <2>2. \E h \in [0 .. Len(t) -> Int] : SumsUp(h, t)
    BY <1>1, <2>1, AverageUnfolds
  <2> QED BY <1>1, <2>2 DEF SumsUp
<1>4. ASSUME NEW e \in Nat PROVE Power[e] \in Int /\ Power[e + 1] = 10 * Power[e]
  <2>1. Power[e] \in Nat \ {0}
    BY PowerProperties
  <2> QED BY <2>1, PowerProperties
<1>5. \A k \in 0 .. l : g[k] = 10 * h[k]
  <2> DEFINE A == {k \in Nat : k <= l => g[k] = 10 * h[k]}
  <2>1. 0 \in A
    BY <1>2, <1>3
  <2>2. ASSUME NEW k \in A PROVE k + 1 \in A
    <3> SUFFICES ASSUME k + 1 <= l PROVE g[k + 1] = 10 * h[k + 1]
      OBVIOUS
    <3> DEFINE j == k + 1
               e == MaxReports - 1 - ((l + 1) - j)
    <3>1. j \in 1 .. l /\ j \in 1 .. l + 1 /\ j - 1 = k /\ k \in 0 .. l /\ k \in 0 .. l + 1
      BY <1>1
    <3>2. e \in Nat /\ MaxReports - 1 - (l - j) = e + 1
      BY <1>1, <3>1 DEF l
    <3>3. g[k] = 10 * h[k] /\ h[k] \in Int
      BY <1>1, <3>1
    <3> HIDE DEF j, e
    <3>4. g[j] = g[k] + 9 * s[j] * Power[e + 1]
      BY <1>2, <3>1, <3>2
    <3>5. h[j] = h[k] + 9 * s[j] * Power[e]
      BY <1>1, <1>3, <3>1 DEF e
    <3>6. s[j] \in Int /\ Power[e] \in Int /\ Power[e + 1] = 10 * Power[e]
      BY <1>1, <1>4, <3>1, <3>2
    <3>7. \A y, p \in Int : 9 * y * (10 * p) = 10 * (9 * y * p) /\ 9 * y * p \in Int
      OBVIOUS
    <3>8. g[j] = 10 * h[j]
      BY <3>3, <3>4, <3>5, <3>6, <3>7, SMTT(30)
    <3> QED BY <3>8 DEF j
  <2>3. A \in SUBSET Nat
    OBVIOUS
  <2> HIDE DEF A
  <2>4. A = Nat
    BY <2>1, <2>2, <2>3, Induction
  <2>5. ASSUME NEW k \in 0 .. l PROVE g[k] = 10 * h[k]
    <3>1. k \in A /\ k <= l
      BY <1>1, <2>4
    <3> QED BY <3>1 DEF A
  <2> QED BY <2>5
<1> DEFINE w == 9 * x * Power[MaxReports - 1]
<1>6. h[l + 1] = h[l] + w /\ h[l] \in Int /\ h[l + 1] \in Int
  <2>1. l + 1 \in 1 .. l + 1 /\ (l + 1) - 1 = l /\ MaxReports - 1 - ((l + 1) - (l + 1)) = MaxReports - 1
    BY <1>1
  <2>2. h[l + 1] = h[l] + w
    BY <1>1, <1>3, <2>1
  <2> QED BY <1>1, <2>2
<1>7. 9 * x * Scale = 10 * w /\ w \in Int
  <2>1. MaxReports - 1 \in Nat /\ (MaxReports - 1) + 1 = MaxReports
    BY <1>1 DEF l
  <2>2. Scale = 10 * Power[MaxReports - 1] /\ Power[MaxReports - 1] \in Int
    BY <1>4, <2>1 DEF Scale
  <2>3. \A y, p \in Int : 9 * y * (10 * p) = 10 * (9 * y * p) /\ 9 * y * p \in Int
    OBVIOUS
  <2> QED BY <2>2, <2>3
<1> HIDE DEF w
<1>8. Average(s) + 9 * x * Scale = 10 * h[l + 1]
  <2>1. Average(s) = 10 * h[l]
    BY <1>1, <1>2, <1>5
  <2> QED BY <1>6, <1>7, <2>1
<1>9. \A y \in Int : (10 * y) \div 10 = y
  OBVIOUS
<1> QED BY <1>3, <1>6, <1>8, <1>9 DEF Averaged, t

LEMMA AverageInt ==
  ASSUME NEW s \in Seq(Int), Len(s) <= MaxReports PROVE Average(s) \in Int
<1>1. Len(s) \in 0 .. Len(s)
  OBVIOUS
<1> QED BY <1>1, AverageUnfolds DEF SumsUp

\* The average of no reports, or of reports of 0, is 0; any other is positive.
LEMMA AverageSign ==
  ASSUME NEW s \in Seq(Int), Len(s) <= MaxReports, \A k \in DOMAIN s : s[k] >= 0
  PROVE  IF \E k \in DOMAIN s : s[k] # 0 THEN Average(s) > 0 ELSE Average(s) = 0
<1> DEFINE l == Len(s)
           Weighted(k) == 9 * s[k] * Power[MaxReports - 1 - (l - k)]
<1>1. l \in Nat /\ MaxReports \in Nat /\ DOMAIN s = 1 .. l /\ \A k \in 1 .. l : s[k] \in Nat
  BY ConfigAssumption
<1>2. PICK g \in [0 .. l -> Int] :
        /\ g[0] = 0 /\ Average(s) = g[l]
        /\ \A k \in 1 .. l : g[k] = g[k - 1] + Weighted(k)
  BY <1>1, AverageUnfolds DEF SumsUp
<1>3. ASSUME NEW k \in 1 .. l
      PROVE  Weighted(k) \in Nat /\ (s[k] # 0 => Weighted(k) > 0) /\ (s[k] = 0 => Weighted(k) = 0)
  <2> DEFINE p == Power[MaxReports - 1 - (l - k)]
  <2>1. MaxReports - 1 - (l - k) \in Nat
    BY <1>1
  <2>2. p \in Nat \ {0} /\ s[k] \in Nat
    BY <1>1, <2>1, PowerProperties
  <2>3. \A x \in Nat, q \in Nat \ {0} :
          9 * x * q \in Nat /\ (x # 0 => 9 * x * q > 0) /\ (x = 0 => 9 * x * q = 0)
    OBVIOUS
  <2> HIDE DEF p
  <2>4. Weighted(k) = 9 * s[k] * p
    BY DEF p
  <2> HIDE DEF Weighted
  <2> QED BY <2>2, <2>3, <2>4
<1> HIDE DEF Weighted, l
<1> DEFINE Some(k) == \E j \in 1 .. k : s[j] # 0
           A == {k \in Nat : k <= l => IF Some(k) THEN g[k] > 0 ELSE g[k] = 0}
<1>4. 0 \in A
  BY <1>2
<1>5. ASSUME NEW k \in A PROVE k + 1 \in A
  <2> SUFFICES ASSUME k + 1 <= l PROVE IF Some(k + 1) THEN g[k + 1] > 0 ELSE g[k + 1] = 0
    OBVIOUS
  <2>1. k \in Nat /\ k + 1 \in 1 .. l /\ (k + 1) - 1 = k /\ k \in 0 .. l
    BY <1>1
  <2>2. g[k + 1] = g[k] + Weighted(k + 1) /\ g[k] \in Int
    BY <1>2, <2>1
  <2>3. Some(k + 1) <=> Some(k) \/ s[k + 1] # 0
    <3>1. 1 .. k + 1 = (1 .. k) \cup {k + 1}
      BY <2>1
    <3> QED BY <3>1
  <2>4. IF Some(k) THEN g[k] > 0 ELSE g[k] = 0
    BY <2>1
  <2> HIDE DEF Some
  <2> QED BY <1>3, <2>1, <2>2, <2>3, <2>4
<1>6. A \in SUBSET Nat
  OBVIOUS
<1> HIDE DEF A
<1>7. A = Nat
  BY <1>4, <1>5, <1>6, Induction
<1>8. IF Some(l) THEN g[l] > 0 ELSE g[l] = 0
  BY <1>1, <1>7 DEF A
<1> QED BY <1>1, <1>2, <1>8

-----------------------------------------------------------------------------
(* The inductive invariant. *)

\* n is the last node listed under its name.
IsLast(n) == \A m \in Node : config[m] = config[n] => m <= n

SamplesOK == samples \in [Names -> Seq(Samples)] /\ top \in TopOf(backends_)

\* A handle is the one inserted last under its name; of the nodes in the heap
\* only those without a handle are not.
HandlesOfLast ==
  /\ \A b \in DOMAIN handle_pool_ : IsLast(handle_pool_[b])
  /\ \A n \in DOMAIN backends_ : IsLast(n) => InPool(config[n])

\* A node without a handle is never erased and no report reaches it.
OthersStay == \A n \in Node : ~IsLast(n) => n \in DOMAIN backends_ /\ backends_[n] = 0

\* The moving average kept report by report is the average of all reports.
AveragesExact == \A b \in DOMAIN handle_pool_ : backends_[handle_pool_[b]] = AverageOf(b)

RepeatedKeepUp == (\E b \in Names : Repeated(b)) => answer # S!Exhausted

Inv == /\ TypeOK /\ SamplesOK /\ HandlesOfLast /\ OthersStay
       /\ AveragesExact /\ RepeatedKeepUp

LEMMA Configuration ==
  ASSUME config \in Configs
  PROVE  /\ Node = 1 .. Len(config) /\ Len(config) \in Nat /\ Node \subseteq Nat /\ NoNode \notin Node
         /\ Names \subseteq Backends /\ \A n \in Node : config[n] \in Names
<1>1. config \in Seq(Backends)
  BY ConfigAssumption
<1>2. Node = 1 .. Len(config) /\ Len(config) \in Nat
  BY <1>1 DEF Node
<1>3. \A n \in Node : config[n] \in Names /\ config[n] \in Backends
  BY <1>1, <1>2 DEF Names
<1>4. Names \subseteq Backends
  BY <1>3 DEF Names
<1> QED BY <1>2, <1>3, <1>4 DEF NoNode

\* One node is the last of its name.
LEMMA LastIsOne ==
  ASSUME config \in Configs, NEW m \in Node, NEW n \in Node, IsLast(m), IsLast(n),
         config[m] = config[n]
  PROVE  m = n
<1>1. m <= n /\ n <= m /\ m \in Nat /\ n \in Nat
  BY Configuration DEF IsLast
<1> QED BY <1>1

\* Of the nodes of a repeated name one is not the last.
LEMMA RepeatedHasOther ==
  ASSUME config \in Configs, NEW b \in Names, Repeated(b)
  PROVE  \E n \in Node : config[n] = b /\ ~IsLast(n)
<1>1. PICK m, n \in Node : m # n /\ config[m] = b /\ config[n] = b
  BY DEF Repeated
<1> QED BY <1>1, LastIsOne

LEMMA OtherIsRepeated ==
  ASSUME NEW n \in Node, config \in Configs, ~IsLast(n) PROVE Repeated(config[n])
<1>1. PICK m \in Node : config[m] = config[n] /\ ~(m <= n)
  BY DEF IsLast
<1>2. m # n
  BY <1>1, Configuration
<1> QED BY <1>1, <1>2 DEF Repeated

LEMMA TopIsNode ==
  ASSUME TypeOK, SamplesOK, DOMAIN backends_ # {}
  PROVE  /\ top \in DOMAIN backends_ /\ top # NoNode
         /\ \A n \in DOMAIN backends_ : backends_[top] <= backends_[n]
<1>1. top \in LeastOf(backends_)
  BY DEF SamplesOK, TopOf
<1>2. DOMAIN backends_ \subseteq Node /\ NoNode \notin Node
  BY Configuration DEF TypeOK
<1> QED BY <1>1, <1>2 DEF LeastOf

LEMMA InvInit == Init => Inv
<1> SUFFICES ASSUME Init PROVE Inv
  OBVIOUS
<1> DEFINE Of(b) == {n \in Node : config[n] = b}
<1>1. /\ config \in Configs /\ backends_ = [n \in Node |-> 0] /\ top \in TopOf(backends_)
      /\ handle_pool_ = [b \in Names |-> Max(Of(b))]
      /\ answer = S!None /\ samples = [b \in Names |-> <<>>]
  BY DEF Init
<1>2. ASSUME NEW b \in Names
      PROVE  handle_pool_[b] \in Node /\ config[handle_pool_[b]] = b /\ IsLast(handle_pool_[b])
  <2>1. Of(b) \in SUBSET (1 .. Len(config)) /\ Of(b) # {} /\ Len(config) \in Nat
    BY <1>1, Configuration DEF Names
  <2>2. Max(Of(b)) \in Of(b) /\ \A m \in Of(b) : m <= Max(Of(b))
    <3> HIDE DEF Of
    <3> QED BY <2>1, MaxProperties
  <2> QED BY <1>1, <2>2 DEF IsLast
<1>3. DOMAIN backends_ = Node /\ \A n \in Node : backends_[n] = 0
  BY <1>1
<1>4. DOMAIN handle_pool_ = Names
  BY <1>1
<1>5. \A b \in Names : samples[b] = <<>> /\ Len(samples[b]) = 0
  BY <1>1
<1>6. TypeOK
  <2>1. top \in DOMAIN backends_ \cup {NoNode}
    BY <1>1 DEF TopOf, LeastOf
  <2>2. \A b \in Names : Len(samples[b]) <= MaxReports
    BY <1>5, ConfigAssumption
  <2> QED BY <1>1, <1>2, <1>3, <1>4, <2>1, <2>2 DEF TypeOK
<1>7. SamplesOK
  BY <1>1 DEF SamplesOK
<1>8. HandlesOfLast
  BY <1>1, <1>2, <1>3, <1>4, Configuration DEF HandlesOfLast, InPool
<1>9. OthersStay
  BY <1>3 DEF OthersStay
<1>10. AveragesExact
  <2>1. Average(<<>>) = 0
    <3>1. <<>> \in Seq(Int) /\ Len(<<>>) <= MaxReports /\ DOMAIN <<>> = {}
      BY ConfigAssumption
    <3> QED BY <3>1, AverageSign
  <2> QED BY <1>2, <1>3, <1>4, <1>5, <2>1 DEF AveragesExact, AverageOf
<1>11. RepeatedKeepUp
  BY <1>1 DEF RepeatedKeepUp, S!None, S!Exhausted
<1> QED BY <1>6, <1>7, <1>8, <1>9, <1>10, <1>11 DEF Inv

-----------------------------------------------------------------------------
(* Every step preserves the invariant. *)

LEMMA HandleInHeap ==
  ASSUME Inv, NEW b, InPool(b)
  PROVE  /\ b \in Names /\ handle_pool_[b] \in DOMAIN backends_ /\ handle_pool_[b] \in Node
         /\ config[handle_pool_[b]] = b /\ IsLast(handle_pool_[b])
BY DEF Inv, TypeOK, HandlesOfLast, InPool

LEMMA EraseKeeps ==
  ASSUME Inv, NEW b \in Names, InPool(b), EraseBackend(b) PROVE Inv'
<1> DEFINE h == handle_pool_[b]
<1>1. /\ config' = config /\ samples' = samples /\ top' \in TopOf(backends_')
      /\ DOMAIN backends_' = DOMAIN backends_ \ {h}
      /\ \A n \in DOMAIN backends_' : backends_'[n] = backends_[n]
      /\ DOMAIN handle_pool_' = DOMAIN handle_pool_ \ {b}
      /\ \A x \in DOMAIN handle_pool_' : handle_pool_'[x] = handle_pool_[x]
      /\ answer' = IF top' = NoNode THEN S!Exhausted ELSE S!Excluded
  BY DEF EraseBackend, Becomes, Without, ForgetHandle
<1>2. h \in Node /\ config[h] = b /\ IsLast(h) /\ config \in Configs
  BY HandleInHeap DEF Inv, TypeOK
<1> HIDE DEF h
<1>3. Node' = Node /\ Names' = Names /\ \A n : AverageOf(n)' = AverageOf(n)
  BY <1>1 DEF Node, Names, AverageOf
<1>4. ASSUME NEW x \in DOMAIN handle_pool_'
      PROVE  /\ x \in Names /\ handle_pool_'[x] = handle_pool_[x] /\ InPool(x)
             /\ handle_pool_[x] \in DOMAIN backends_' /\ config[handle_pool_[x]] = x
             /\ backends_'[handle_pool_[x]] = backends_[handle_pool_[x]] /\ IsLast(handle_pool_[x])
  <2>1. x # b /\ InPool(x) /\ handle_pool_'[x] = handle_pool_[x]
    BY <1>1 DEF InPool
  <2>2. handle_pool_[x] # h
    BY <1>2, <2>1, HandleInHeap
  <2> QED BY <1>1, <2>1, <2>2, HandleInHeap
<1>5. ASSUME NEW n \in Node, ~IsLast(n) PROVE n \in DOMAIN backends_' /\ backends_'[n] = 0
  BY <1>1, <1>2, <1>5 DEF Inv, OthersStay
<1>6. DOMAIN backends_' \subseteq Node /\ NoNode \notin Node
  BY <1>1, <1>2, Configuration DEF Inv, TypeOK
<1>7. IF DOMAIN backends_' = {} THEN top' = NoNode ELSE top' \in DOMAIN backends_'
  BY <1>1 DEF TopOf, LeastOf
<1>8. TypeOK'
  BY <1>1, <1>3, <1>4, <1>6, <1>7 DEF Inv, TypeOK
<1>9. SamplesOK'
  BY <1>1, <1>3 DEF Inv, SamplesOK
<1>10. HandlesOfLast'
  <2>1. ASSUME NEW n \in DOMAIN backends_', IsLast(n) PROVE config[n] \in DOMAIN handle_pool_'
    <3>1. n \in DOMAIN backends_ /\ n \in Node /\ n # h
      BY <1>1, <1>6
    <3>2. config[n] \in DOMAIN handle_pool_
      BY <2>1, <3>1 DEF Inv, HandlesOfLast, InPool
    <3>3. config[n] # b
      BY <1>2, <2>1, <3>1, LastIsOne
    <3> QED BY <1>1, <3>2, <3>3
  <2>2. \A x \in DOMAIN handle_pool_' : \A m \in Node : config[m] = config[handle_pool_'[x]] => m <= handle_pool_'[x]
    BY <1>4 DEF IsLast
  <2> QED BY <1>1, <1>3, <2>1, <2>2 DEF HandlesOfLast, InPool, IsLast
<1>11. OthersStay'
  BY <1>1, <1>3, <1>5 DEF OthersStay, IsLast
<1>12. AveragesExact'
  BY <1>3, <1>4 DEF Inv, AveragesExact, InPool
<1>13. RepeatedKeepUp'
  <2> SUFFICES ASSUME NEW c \in Names, Repeated(c) PROVE answer' # S!Exhausted
    BY <1>1, <1>3 DEF RepeatedKeepUp, Repeated
  <2>1. PICK n \in Node : config[n] = c /\ ~IsLast(n)
    BY <1>2, RepeatedHasOther
  <2>2. top' # NoNode
    BY <1>5, <1>6, <1>7, <2>1
  <2> QED BY <1>1, <2>2 DEF S!Excluded, S!Exhausted
<1> QED BY <1>8, <1>9, <1>10, <1>11, <1>12, <1>13 DEF Inv

\* The samples of a name are whole numbers, few enough for the average to be one.
LEMMA SamplesAreInts ==
  ASSUME Inv, NEW b \in Names
  PROVE  samples[b] \in Seq(Int) /\ samples[b] \in Seq(Samples) /\ Len(samples[b]) <= MaxReports
<1>1. samples[b] \in Seq(Samples) /\ Len(samples[b]) <= MaxReports
  BY DEF Inv, SamplesOK, TypeOK
<1>2. ASSUME NEW s \in Seq(Samples) PROVE s \in Seq(Int)
  <2>1. Len(s) \in Nat /\ s \in [1 .. Len(s) -> Samples]
    OBVIOUS
  <2>2. s \in [1 .. Len(s) -> Int]
    BY <2>1, ConfigAssumption
  <2> QED BY <2>1, <2>2
<1> QED BY <1>1, <1>2

LEMMA ReportKeeps ==
  ASSUME Inv, NEW b \in Names, NEW x \in Samples, AddResponseTime(b, x) PROVE Inv'
<1> DEFINE h == handle_pool_[b]
           old == backends_[h]
           ss == samples[b]
<1>1. /\ config' = config /\ handle_pool_' = handle_pool_ /\ answer' = answer
      /\ InPool(b) /\ Len(ss) < MaxReports
      /\ backends_' = [backends_ EXCEPT ![h] = Averaged(old, x)]
      /\ top' \in TopOf(backends_')
      /\ samples' = [samples EXCEPT ![b] = Append(ss, x)]
  BY DEF AddResponseTime, Becomes
<1>2. h \in Node /\ config[h] = b /\ IsLast(h) /\ config \in Configs /\ h \in DOMAIN backends_
  BY <1>1, HandleInHeap DEF Inv, TypeOK
<1>3. /\ ss \in Seq(Int) /\ ss \in Seq(Samples) /\ x \in Int /\ Append(ss, x) \in Seq(Samples)
      /\ Append(ss, x) \in Seq(Int) /\ Len(Append(ss, x)) <= MaxReports
  <2>1. ss \in Seq(Int) /\ ss \in Seq(Samples) /\ x \in Int
    BY SamplesAreInts, ConfigAssumption
  <2>2. Len(Append(ss, x)) = Len(ss) + 1 /\ Len(ss) \in Nat
    BY <2>1
  <2> QED BY <1>1, <2>1, <2>2, ConfigAssumption
<1>4. Averaged(old, x) = Average(Append(ss, x)) /\ Average(Append(ss, x)) \in Int
  <2>1. old = Average(ss)
    BY <1>1 DEF Inv, AveragesExact, AverageOf, InPool
  <2> HIDE DEF old, ss
  <2>2. Averaged(Average(ss), x) = Average(Append(ss, x))
    BY <1>1, <1>3, AverageOfAppend
  <2> QED BY <1>3, <2>1, <2>2, AverageInt
<1>5. /\ DOMAIN backends_' = DOMAIN backends_ /\ backends_'[h] = Average(Append(ss, x))
      /\ \A n \in DOMAIN backends_ : n # h => backends_'[n] = backends_[n]
  BY <1>1, <1>2, <1>4
<1>6. /\ samples'[b] = Append(ss, x) /\ \A c \in Names : c # b => samples'[c] = samples[c]
      /\ samples' \in [Names -> Seq(Samples)]
  BY <1>1, <1>3 DEF Inv, SamplesOK
<1> HIDE DEF h, old, ss
<1>7. Node' = Node /\ Names' = Names
  BY <1>1 DEF Node, Names
<1>8. TypeOK'
  <2>1. \A n \in DOMAIN backends_' : backends_'[n] \in Int
    BY <1>4, <1>5 DEF Inv, TypeOK
  <2>2. \A c \in Names : Len(samples'[c]) <= MaxReports
    BY <1>3, <1>6 DEF Inv, TypeOK
  <2>3. top' \in DOMAIN backends_' \cup {NoNode}
    BY <1>1 DEF TopOf, LeastOf
  <2> QED BY <1>1, <1>5, <1>7, <2>1, <2>2, <2>3 DEF Inv, TypeOK
<1>9. SamplesOK'
  BY <1>1, <1>6, <1>7 DEF SamplesOK
<1>10. HandlesOfLast'
  BY <1>1, <1>5, <1>7 DEF Inv, HandlesOfLast, InPool, IsLast
<1>11. OthersStay'
  <2>1. \A n \in Node : ~IsLast(n) => n \in DOMAIN backends_' /\ backends_'[n] = 0
    BY <1>2, <1>5 DEF Inv, OthersStay
  <2> QED BY <1>1, <1>7, <2>1 DEF OthersStay, IsLast
<1>12. AveragesExact'
  <2> SUFFICES ASSUME NEW c \in DOMAIN handle_pool_
               PROVE  backends_'[handle_pool_[c]] = Average(samples'[c])
    BY <1>1 DEF AveragesExact, AverageOf
  <2>1. CASE c = b
    BY <1>5, <1>6, <2>1 DEF h
  <2>2. CASE c # b
    <3>1. /\ c \in Names /\ handle_pool_[c] \in DOMAIN backends_ /\ config[handle_pool_[c]] = c
          /\ backends_[handle_pool_[c]] = Average(samples[c])
      BY HandleInHeap DEF InPool, Inv, AveragesExact, AverageOf
    <3>2. handle_pool_[c] # h
      BY <1>2, <2>2, <3>1
    <3> QED BY <1>5, <1>6, <2>2, <3>1, <3>2
  <2> QED BY <2>1, <2>2
<1>13. RepeatedKeepUp'
  BY <1>1, <1>7 DEF Inv, RepeatedKeepUp, Repeated
<1> QED BY <1>8, <1>9, <1>10, <1>11, <1>12, <1>13 DEF Inv

LEMMA InvNext == Inv /\ [Next]_vars => Inv'
<1> SUFFICES ASSUME Inv, [Next]_vars PROVE Inv'
  OBVIOUS
<1>1. ASSUME UNCHANGED <<config, backends_, top, handle_pool_, samples>>, answer' # S!Exhausted \/ answer' = answer
      PROVE  Inv'
  <2>1. TypeOK' /\ SamplesOK' /\ HandlesOfLast'
    BY <1>1 DEF Inv, TypeOK, SamplesOK, HandlesOfLast, InPool, IsLast, Node, Names
  <2>2. OthersStay' /\ AveragesExact'
    BY <1>1 DEF Inv, OthersStay, AveragesExact, AverageOf, IsLast, Node
  <2>3. RepeatedKeepUp'
    BY <1>1 DEF Inv, RepeatedKeepUp, Repeated, Node, Names
  <2> QED BY <2>1, <2>2, <2>3 DEF Inv
<1>2. CASE SelectBackend
  BY <1>1, <1>2 DEF SelectBackend, S!Chosen, S!Exhausted
<1>3. CASE SelectUndefined
  BY <1>1, <1>3 DEF SelectUndefined, S!Undefined, S!Exhausted
<1>4. ASSUME NEW b \in Names, ExcludeBackend(b) PROVE Inv'
  <2>1. CASE InPool(b)
    BY <1>4, <2>1, EraseKeeps DEF ExcludeBackend
  <2>2. CASE ~InPool(b)
    BY <1>1, <1>4, <2>2 DEF ExcludeBackend, S!Excluded, S!Exhausted
  <2> QED BY <2>1, <2>2
<1>5. ASSUME NEW b \in Names, NEW x \in Samples, AddResponseTime(b, x) PROVE Inv'
  BY <1>5, ReportKeeps
<1>6. CASE UNCHANGED vars
  BY <1>1, <1>6 DEF vars
<1> QED BY <1>2, <1>3, <1>4, <1>5, <1>6 DEF Next

LEMMA Invariant == Spec => []Inv
BY InvInit, InvNext, PTL DEF Spec

-----------------------------------------------------------------------------
(* Theorems *)

\* ExcludeBackend forgets the handle of the node it erases, and no handle leads
\* to the node of another name: no later exclusion and no late report of a
\* session touches a freed node.
THEOREM TypeCorrect == Spec => []TypeOK
<1>1. Inv => TypeOK
  BY DEF Inv
<1> QED BY Invariant, <1>1, PTL

\* With no endpoint listed twice every node of the heap is the last of its name,
\* and holds the average of the reports on that name.
LEMMA HeapOfAverages ==
  ASSUME Inv, NoDuplicates, NEW n \in DOMAIN backends_
  PROVE  /\ config[n] \in Names /\ InPool(config[n]) /\ handle_pool_[config[n]] = n
         /\ backends_[n] = AverageOf(config[n])
<1>1. n \in Node /\ IsLast(n) /\ config[n] \in Names
  BY Configuration DEF Inv, TypeOK, IsLast, NoDuplicates
<1>2. InPool(config[n])
  BY <1>1 DEF Inv, HandlesOfLast
<1>3. handle_pool_[config[n]] = n
  BY <1>1, <1>2, HandleInHeap DEF NoDuplicates
<1> QED BY <1>1, <1>2, <1>3 DEF Inv, AveragesExact, InPool

\* The backend SelectBackend takes from the top of the heap has the least average
\* of all reports, though AddResponseTime only ever folds one report into the
\* value kept and moves one node of the heap.
THEOREM LeastIsOnTop == Spec => []LeastAverage
<1>1. ASSUME Inv, NoDuplicates, NEW n \in DOMAIN backends_
      PROVE  AverageOf(config[top]) <= AverageOf(config[n])
  <2>1. top \in DOMAIN backends_ /\ backends_[top] <= backends_[n]
    BY <1>1, TopIsNode DEF Inv
  <2> QED BY <1>1, <2>1, HeapOfAverages
<1>2. Inv => LeastAverage
  BY <1>1 DEF LeastAverage
<1> QED BY Invariant, <1>2, PTL

LEMMA MeasuredPositive ==
  ASSUME Inv, ClockRanForward, NEW b \in Names
  PROVE  IF Measured(b) THEN AverageOf(b) > 0 ELSE AverageOf(b) = 0
<1>1. samples[b] \in Seq(Int) /\ Len(samples[b]) <= MaxReports
  BY SamplesAreInts
<1>2. \A k \in DOMAIN samples[b] : samples[b][k] >= 0
  BY DEF ClockRanForward
<1> QED BY <1>1, <1>2, AverageSign DEF AverageOf, Measured

\* AddResponseTime gives every measured backend a positive average and Configure
\* starts every other at 0: as long as one in rotation has not answered, only
\* such a backend is selected.
THEOREM UntriedComeFirst == Spec => []UntriedFirst
<1>1. ASSUME Inv, NoDuplicates, ClockRanForward, NEW b \in InRotation, ~Measured(b)
      PROVE  ~Measured(config[top])
  <2>1. PICK n \in DOMAIN backends_ : config[n] = b
    BY <1>1 DEF InRotation
  <2>2. top \in DOMAIN backends_ /\ backends_[top] <= backends_[n]
    BY <1>1, <2>1, TopIsNode DEF Inv
  <2>3. config[top] \in Names /\ b \in Names /\ AverageOf(config[top]) <= AverageOf(b)
    BY <1>1, <2>1, <2>2, HeapOfAverages
  <2>4. AverageOf(b) = 0
    BY <1>1, <2>3, MeasuredPositive
  <2>5. AverageOf(config[top]) \in Int
    BY <1>1, <2>3, SamplesAreInts, AverageInt DEF AverageOf
  <2>6. ~(AverageOf(config[top]) > 0)
    BY <2>3, <2>4, <2>5
  <2> QED BY <1>1, <2>3, <2>6, MeasuredPositive
<1>2. Inv => UntriedFirst
  BY <1>1 DEF UntriedFirst
<1> QED BY Invariant, <1>2, PTL

\* ExcludeBackend erases by handle, and Configure keeps one handle per name: the
\* other nodes of a repeated endpoint stay in the heap with their average of 0.
THEOREM RepeatedCannotLeave == Spec => []RepeatedStays
<1>1. ASSUME Inv, NEW b \in Names, Repeated(b)
      PROVE  /\ b \in InRotation /\ answer # S!Exhausted
             /\ ClockRanForward /\ (\A x \in InRotation : Measured(x)) => Repeated(config[top])
  <2>1. PICK m \in Node : config[m] = b /\ ~IsLast(m)
    BY <1>1, RepeatedHasOther DEF Inv, TypeOK
  <2>2. m \in DOMAIN backends_ /\ backends_[m] = 0
    BY <1>1, <2>1 DEF Inv, OthersStay
  <2>3. top \in DOMAIN backends_ /\ backends_[top] <= 0 /\ top \in Node
    BY <1>1, <2>2, TopIsNode DEF Inv, TypeOK
  <2>4. ASSUME ClockRanForward, \A x \in InRotation : Measured(x), IsLast(top)
        PROVE  FALSE
    <3>1. config[top] \in InRotation /\ config[top] \in Names
      BY <1>1, <2>3, Configuration DEF InRotation, Inv, TypeOK
    <3>2. InPool(config[top])
      BY <1>1, <2>3, <2>4 DEF Inv, HandlesOfLast
    <3>3. handle_pool_[config[top]] = top
      BY <1>1, <2>3, <2>4, <3>2, HandleInHeap, LastIsOne DEF Inv, TypeOK
    <3>4. backends_[top] = AverageOf(config[top])
      BY <1>1, <3>2, <3>3 DEF Inv, AveragesExact, InPool
    <3>5. AverageOf(config[top]) > 0
      BY <1>1, <2>4, <3>1, MeasuredPositive
    <3>6. backends_[top] \in Int
      BY <1>1, <2>3 DEF Inv, TypeOK
    <3> QED BY <2>3, <3>4, <3>5, <3>6
  <2>5. ~IsLast(top) => Repeated(config[top])
    BY <1>1, <2>3, OtherIsRepeated DEF Inv, TypeOK
  <2>6. b \in InRotation
    BY <2>1, <2>2 DEF InRotation
  <2>7. answer # S!Exhausted
    BY <1>1 DEF Inv, RepeatedKeepUp
  <2> QED BY <2>4, <2>5, <2>6, <2>7
<1>2. Inv => RepeatedStays
  BY <1>1 DEF RepeatedStays
<1> QED BY Invariant, <1>2, PTL

\* With no endpoint listed twice the selector does what ISelector promises.
THEOREM LeastResponseTimeImplementsSelector == Spec => ImplementsSelector
<1>1. Init => S!Init
  <2> SUFFICES ASSUME Init PROVE S!Init
    OBVIOUS
  <2>1. InRotation \subseteq Backends
    BY Configuration DEF Init, InRotation
  <2> QED BY <2>1 DEF Init, S!Init, S!None
<1>2. ASSUME Inv, [Next]_vars, NoDuplicates PROVE [S!Next]_(S!vars)
  <2>1. CASE Next /\ SelectBackend
    <3>1. InRotation' = InRotation
      BY <2>1 DEF SelectBackend, InRotation
    <3>2. config[top] \in InRotation
      BY <1>2, <2>1 DEF SelectBackend, Inv, TypeOK, InRotation
    <3> QED BY <2>1, <3>1, <3>2 DEF Next, SelectBackend, S!Next, S!SelectBackend
  <2>2. CASE Next /\ SelectUndefined
    <3>1. InRotation' = InRotation
      BY <2>2 DEF SelectUndefined, InRotation
    <3>2. InRotation = {}
      BY <1>2, <2>2, TopIsNode DEF SelectUndefined, Inv, InRotation
    <3> QED BY <2>2, <3>1, <3>2 DEF Next, SelectUndefined, S!Next, S!SelectFromNone
  <2>3. ASSUME Next, NEW b \in Names, ExcludeBackend(b) PROVE S!Next
    <3>1. b \in Backends
      BY <1>2, Configuration DEF Inv, TypeOK
    <3>2. CASE ~InPool(b)
      <4>1. b \notin InRotation
        BY <1>2, <3>2, HeapOfAverages DEF InRotation
      <4>2. InRotation' = InRotation /\ answer' = S!Excluded
        BY <2>3, <3>2 DEF ExcludeBackend, InRotation
      <4>3. S!ExcludeBackend(b)
        BY <4>1, <4>2 DEF S!ExcludeBackend
      <4> QED BY <2>3, <3>1, <4>3 DEF Next, S!Next
    <3>3. CASE InPool(b)
      <4> DEFINE h == handle_pool_[b]
      <4>1. /\ config' = config /\ DOMAIN backends_' = DOMAIN backends_ \ {h}
            /\ top' \in TopOf(backends_')
            /\ answer' = IF top' = NoNode THEN S!Exhausted ELSE S!Excluded
        BY <2>3, <3>3 DEF ExcludeBackend, EraseBackend, Becomes, Without
      <4>2. h \in DOMAIN backends_ /\ \A n \in DOMAIN backends_ : config[n] = b <=> n = h
        BY <1>2, <3>3, HandleInHeap, HeapOfAverages
      <4> HIDE DEF h
      <4>3. InRotation' = InRotation \ {b}
        BY <4>1, <4>2 DEF InRotation
      <4>4. InRotation # {}
        BY <4>2 DEF InRotation
      <4>5. NoNode \notin DOMAIN backends_
        BY <1>2, Configuration DEF Inv, TypeOK
      <4>6. top' = NoNode <=> InRotation' = {}
        BY <4>1, <4>5 DEF TopOf, LeastOf, InRotation
      <4>7. S!ExcludeBackend(b)
        BY <4>1, <4>3, <4>4, <4>6 DEF S!ExcludeBackend
      <4> QED BY <2>3, <3>1, <4>7 DEF Next, S!Next
    <3> QED BY <3>2, <3>3
  <2>4. ASSUME NEW b \in Names, NEW x \in Samples, AddResponseTime(b, x) PROVE UNCHANGED S!vars
    BY <2>4 DEF AddResponseTime, Becomes, InRotation, S!vars
  <2>5. CASE UNCHANGED vars
    BY <2>5 DEF vars, S!vars, InRotation
  <2> QED BY <1>2, <2>1, <2>2, <2>3, <2>4, <2>5 DEF Next
<1> QED BY Invariant, <1>1, <1>2, PTL DEF Spec, ImplementsSelector
=============================================================================
