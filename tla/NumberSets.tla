------------------------------ MODULE NumberSets ------------------------------
(***************************************************************************)
(* The least and the greatest of a set of numbers: the first record after  *)
(* a time, the last record of a page; the sum of the values up to one of   *)
(* them: the rain of a day; and what a loop computes one number at a time: *)
(* the insertions of a page.  (The theorems of the library about induction *)
(* and recursion have an operator as a parameter: finite sets, ordered by  *)
(* inclusion, and the least counterexample do instead.)                    *)
(***************************************************************************)
EXTENDS Sums, FiniteSetTheorems, TLAPS

\* A set of numbers has a least one.
LEMMA LeastNumber ==
  ASSUME NEW S, S \subseteq Nat, S # {}
  PROVE  \E m \in S : \A n \in S : m <= n
<1> DEFINE Intervals == {0..n : n \in S}
           Inclusion == StrictSubsetOrdering(Nat)
<1>1. Intervals \subseteq FiniteSubsetsOf(Nat)
  <2>1. SUFFICES ASSUME NEW n \in S PROVE 0..n \in FiniteSubsetsOf(Nat)
    OBVIOUS
  <2>2. IsFiniteSet(0..n)
    BY FS_Interval
  <2> QED BY <2>2 DEF FiniteSubsetsOf
<1>2. Intervals # {}
  OBVIOUS
<1>3. \E I \in Intervals : \A J \in Intervals : <<J, I>> \notin Inclusion
  <2>1. IsWellFoundedOn(Inclusion, FiniteSubsetsOf(Nat))
    BY FS_StrictSubsetOrderingWellFounded
  <2> HIDE DEF Intervals, Inclusion
  <2> QED BY <1>1, <1>2, <2>1, WFMin
<1>4. PICK m \in S : \A n \in S : <<0..n, 0..m>> \notin Inclusion
  BY <1>3
<1>5. ASSUME NEW n \in S PROVE m <= n
  <2>1. SUFFICES ASSUME n < m PROVE FALSE
    OBVIOUS
  <2>2. 0..n \subseteq 0..m /\ m \in 0..m /\ m \notin 0..n
    BY <2>1
  <2>3. 0..n \in SUBSET Nat /\ 0..m \in SUBSET Nat /\ 0..n # 0..m
    BY <2>2
  <2> QED BY <1>4, <2>2, <2>3 DEF StrictSubsetOrdering
<1> QED BY <1>5

\* A bounded one has a greatest one.
LEMMA GreatestNumber ==
  ASSUME NEW bound \in Nat, NEW S, S \subseteq 0..bound, S # {}
  PROVE  \E m \in S : \A n \in S : n <= m
<1> DEFINE Below == {bound - n : n \in S}
<1>1. Below \subseteq Nat /\ Below # {}
  <2>1. \A n \in S : bound - n \in Nat
    OBVIOUS
  <2>2. PICK n \in S : TRUE
    OBVIOUS
  <2> QED BY <2>1, <2>2
<1>2. PICK b \in Below : \A n \in Below : b <= n
  <2> HIDE DEF Below
  <2> QED BY <1>1, LeastNumber
<1>3. PICK m \in S : b = bound - m
  BY <1>2
<1>4. ASSUME NEW n \in S PROVE n <= m
  <2>1. bound - n \in Below
    OBVIOUS
  <2>2. bound - m <= bound - n
    BY <1>2, <1>3, <2>1
  <2>3. m \in 0..bound /\ n \in 0..bound
    OBVIOUS
  <2> HIDE DEF Below
  <2> QED BY <2>2, <2>3
<1> QED BY <1>4

-----------------------------------------------------------------------------
(* Sums                                                                     *)

\* What holds of the next number if it holds of the ones before holds of all.
LEMMA NoFirstFailure ==
  ASSUME NEW S, \A n \in Nat : (\A k \in 0..(n - 1) : k \in S) => n \in S
  PROVE  Nat \subseteq S
<1> SUFFICES ASSUME Nat \ S # {} PROVE FALSE
  OBVIOUS
<1>1. PICK m \in Nat \ S : \A n \in Nat \ S : m <= n
  BY LeastNumber
<1>2. \A k \in 0..(m - 1) : k \in S
  BY <1>1
<1> QED BY <1>1, <1>2

\* Sums exist: the recursion defines a function.
Partial(values, sum, n) ==
    \A k \in 0..n : sum[k] = (IF k = 0 THEN 0 ELSE sum[k - 1]) + values[k]

LEMMA PartialSum ==
  ASSUME NEW values \in [Nat -> Int], NEW n \in Nat
  PROVE  \E sum \in [0..n -> Int] : Partial(values, sum, n)
<1> DEFINE S == {k \in Nat : \E sum \in [0..k -> Int] : Partial(values, sum, k)}
<1>1. ASSUME NEW k \in Nat, \A i \in 0..(k - 1) : i \in S
      PROVE  k \in S
  <2>1. CASE k = 0
    <3> DEFINE sum == [i \in 0..0 |-> values[0]]
    <3>1. sum \in [0..k -> Int] /\ Partial(values, sum, k)
      BY <2>1 DEF Partial
    <3> QED BY <3>1
  <2>2. CASE k # 0
    <3>1. k - 1 \in S
      BY <1>1, <2>2
    <3>2. PICK sum \in [0..(k - 1) -> Int] : Partial(values, sum, k - 1)
      BY <3>1
    <3> DEFINE longer == [i \in 0..k |-> IF i = k THEN sum[k - 1] + values[k] ELSE sum[i]]
    <3>3. longer \in [0..k -> Int]
      BY <2>2
    <3>4. Partial(values, longer, k)
      BY SMTT(30), <2>2, <3>2 DEF Partial
    <3> QED BY <3>3, <3>4
  <2> QED BY <2>1, <2>2
<1>2. Nat \subseteq S
  <2> HIDE DEF S
  <2> QED BY <1>1, NoFirstFailure
<1> QED BY <1>2

LEMMA PartialSumsAgree ==
  ASSUME NEW values \in [Nat -> Int], NEW n \in Nat, NEW m \in Nat, n <= m,
         NEW s, NEW t, Partial(values, s, n), Partial(values, t, m)
  PROVE  s[n] = t[n]
<1> DEFINE S == {k \in Nat : k <= n => s[k] = t[k]}
<1>1. ASSUME NEW k \in Nat, \A i \in 0..(k - 1) : i \in S
      PROVE  k \in S
  <2> SUFFICES ASSUME k <= n PROVE s[k] = t[k]
    OBVIOUS
  <2>1. CASE k = 0
    BY <2>1 DEF Partial
  <2>2. CASE k # 0
    <3>1. k - 1 \in S /\ k - 1 <= n
      BY <1>1, <2>2
    <3>2. s[k - 1] = t[k - 1]
      BY <3>1
    <3> QED BY <2>2, <3>2 DEF Partial
  <2> QED BY <2>1, <2>2
<1>2. Nat \subseteq S
  <2> HIDE DEF S
  <2> QED BY <1>1, NoFirstFailure
<1> QED BY <1>2

LEMMA SumDefinition ==
  ASSUME NEW values \in [Nat -> Int]
  PROVE  /\ SumTo(values, 0) = values[0]
         /\ \A n \in Nat : SumTo(values, n) \in Int
         /\ \A n \in Nat : SumTo(values, n + 1) = SumTo(values, n) + values[n + 1]
<1> DEFINE part(n) == CHOOSE sum \in [0..n -> Int] : Partial(values, sum, n)
           whole == [k \in Nat |-> part(k)[k]]
           Recursive(sum) == sum = [k \in Nat |-> (IF k = 0 THEN 0 ELSE sum[k - 1]) + values[k]]
           chosen == CHOOSE sum : Recursive(sum)
<1>1. ASSUME NEW n \in Nat PROVE part(n) \in [0..n -> Int] /\ Partial(values, part(n), n)
  BY PartialSum
<1> HIDE DEF part
<1>2. \A n \in Nat : whole[n] = (IF n = 0 THEN 0 ELSE whole[n - 1]) + values[n]
  <2> SUFFICES ASSUME NEW n \in Nat PROVE whole[n] = (IF n = 0 THEN 0 ELSE whole[n - 1]) + values[n]
    OBVIOUS
  <2>1. part(n)[n] = (IF n = 0 THEN 0 ELSE part(n)[n - 1]) + values[n]
    BY <1>1 DEF Partial
  <2>2. CASE n = 0
    BY <2>1, <2>2
  <2>3. CASE n # 0
    <3>1. n - 1 \in Nat /\ n - 1 <= n
      BY <2>3
    <3>2. part(n - 1)[n - 1] = part(n)[n - 1]
      <4> DEFINE k == n - 1
                 shorter == part(k)
                 longer == part(n)
      <4>1. Partial(values, shorter, k) /\ Partial(values, longer, n) /\ k \in Nat /\ k <= n
        BY <1>1, <3>1
      <4> HIDE DEF k, shorter, longer
      <4>2. shorter[k] = longer[k]
        BY <4>1, PartialSumsAgree
      <4> QED BY <4>2 DEF k, shorter, longer
    <3> QED BY <2>1, <2>3, <3>1, <3>2
  <2> QED BY <2>2, <2>3
<1>3. Recursive(whole)
  BY <1>2
<1> HIDE DEF whole
<1>4. Recursive(chosen)
  <2> HIDE DEF Recursive
  <2> QED BY <1>3
<1>5. \A n : SumTo(values, n) = chosen[n]
  BY DEF SumTo
<1> HIDE DEF chosen
<1>6. \A n \in Nat : chosen[n] = (IF n = 0 THEN 0 ELSE chosen[n - 1]) + values[n]
  BY <1>4
<1>7. \A n \in Nat : chosen[n] \in Int
  <2> DEFINE S == {k \in Nat : chosen[k] \in Int}
  <2>1. ASSUME NEW k \in Nat, \A i \in 0..(k - 1) : i \in S
        PROVE  k \in S
    <3>1. values[k] \in Int
      OBVIOUS
    <3>2. k # 0 => chosen[k - 1] \in Int
      BY <2>1
    <3>3. chosen[k] = (IF k = 0 THEN 0 ELSE chosen[k - 1]) + values[k]
      BY <1>6
    <3> QED BY <3>1, <3>2, <3>3
  <2>2. Nat \subseteq S
    <3> HIDE DEF S
    <3> QED BY <2>1, NoFirstFailure
  <2> QED BY <2>2
<1>8. chosen[0] = values[0]
  BY <1>6, <1>7
<1>9. ASSUME NEW n \in Nat PROVE chosen[n + 1] = chosen[n] + values[n + 1]
  BY <1>6
<1> QED BY <1>5, <1>7, <1>8, <1>9

\* Two sums of the same values.
LEMMA SameSum ==
  ASSUME NEW v \in [Nat -> Int], NEW w \in [Nat -> Int], NEW n \in Nat,
         \A k \in 0..n : v[k] = w[k]
  PROVE  SumTo(v, n) = SumTo(w, n)
<1> DEFINE S == {k \in Nat : k <= n => SumTo(v, k) = SumTo(w, k)}
<1>1. ASSUME NEW k \in Nat, \A i \in 0..(k - 1) : i \in S
      PROVE  k \in S
  <2> SUFFICES ASSUME k <= n PROVE SumTo(v, k) = SumTo(w, k)
    OBVIOUS
  <2>1. CASE k = 0
    BY <2>1, SumDefinition
  <2>2. CASE k # 0
    <3>1. k - 1 \in Nat /\ k - 1 \in S /\ k - 1 <= n /\ (k - 1) + 1 = k
      BY <1>1, <2>2
    <3>2. SumTo(v, k - 1) = SumTo(w, k - 1)
      BY <3>1
    <3> QED BY <3>1, <3>2, SumDefinition
  <2> QED BY <2>1, <2>2
<1>2. Nat \subseteq S
  <2> HIDE DEF S
  <2> QED BY <1>1, NoFirstFailure
<1> QED BY <1>2

\* What comes after a time, when it is nothing, or something.
LEMMA SumGrows ==
  ASSUME NEW v \in [Nat -> Int], NEW m \in Nat, NEW n \in Nat, m <= n,
         \A k \in (m + 1)..n : v[k] >= 0
  PROVE  SumTo(v, n) >= SumTo(v, m)
<1> DEFINE S == {k \in Nat : m <= k /\ k <= n => SumTo(v, k) >= SumTo(v, m)}
<1>0. \A k \in Nat : SumTo(v, k) \in Int
  BY SumDefinition
<1>1. ASSUME NEW k \in Nat, \A i \in 0..(k - 1) : i \in S
      PROVE  k \in S
  <2> SUFFICES ASSUME m <= k, k <= n PROVE SumTo(v, k) >= SumTo(v, m)
    OBVIOUS
  <2>1. CASE k = m
    BY <1>0, <2>1
  <2>2. CASE k # m
    <3>1. k - 1 \in Nat /\ k - 1 \in S /\ k - 1 <= n /\ (k - 1) + 1 = k /\ m <= k - 1
      BY <1>1, <2>2
    <3>2. SumTo(v, k - 1) >= SumTo(v, m)
      BY <3>1
    <3>3. SumTo(v, k) = SumTo(v, k - 1) + v[k] /\ v[k] >= 0
      BY <3>1, SumDefinition
    <3> QED BY <1>0, <3>1, <3>2, <3>3
  <2> QED BY <2>1, <2>2
<1>2. Nat \subseteq S
  <2> HIDE DEF S
  <2> QED BY <1>1, NoFirstFailure
<1> QED BY <1>2

LEMMA SumStays ==
  ASSUME NEW v \in [Nat -> Int], NEW m \in Nat, NEW n \in Nat, m <= n,
         \A k \in (m + 1)..n : v[k] = 0
  PROVE  SumTo(v, n) = SumTo(v, m)
<1> DEFINE S == {k \in Nat : m <= k /\ k <= n => SumTo(v, k) = SumTo(v, m)}
<1>0. \A k \in Nat : SumTo(v, k) \in Int
  BY SumDefinition
<1>1. ASSUME NEW k \in Nat, \A i \in 0..(k - 1) : i \in S
      PROVE  k \in S
  <2> SUFFICES ASSUME m <= k, k <= n PROVE SumTo(v, k) = SumTo(v, m)
    OBVIOUS
  <2>1. CASE k = m
    BY <1>0, <2>1
  <2>2. CASE k # m
    <3>1. k - 1 \in Nat /\ k - 1 \in S /\ k - 1 <= n /\ (k - 1) + 1 = k /\ m <= k - 1
      BY <1>1, <2>2
    <3>2. SumTo(v, k - 1) = SumTo(v, m)
      BY <3>1
    <3>3. SumTo(v, k) = SumTo(v, k - 1) + v[k] /\ v[k] = 0
      BY <3>1, SumDefinition
    <3> QED BY <1>0, <3>1, <3>2, <3>3
  <2> QED BY <2>1, <2>2
<1>2. Nat \subseteq S
  <2> HIDE DEF S
  <2> QED BY <1>1, NoFirstFailure
<1> QED BY <1>2

\* A sum goes on after a time with nothing, or with something, and then with one more
\* value.
LEMMA SumAdvances ==
  ASSUME NEW v \in [Nat -> Int], NEW w \in [Nat -> Int], NEW c \in Nat, NEW t \in Nat, c < t,
         \A k \in 0..c : v[k] = w[k]
  PROVE  /\ (\A k \in (c + 1)..(t - 1) : w[k] >= 0) => SumTo(w, t) >= SumTo(v, c) + w[t]
         /\ (\A k \in (c + 1)..(t - 1) : w[k] = 0) => SumTo(w, t) = SumTo(v, c) + w[t]
<1> DEFINE b == t - 1
<1>1. b \in Nat /\ c <= b /\ b + 1 = t
  OBVIOUS
<1>2. SumTo(v, c) = SumTo(w, c)
  BY SameSum
<1> HIDE DEF b
<1>3. SumTo(w, t) = SumTo(w, b) + w[t]
  BY <1>1, SumDefinition
<1>4. /\ (\A k \in (c + 1)..b : w[k] >= 0) => SumTo(w, b) >= SumTo(w, c)
      /\ (\A k \in (c + 1)..b : w[k] = 0) => SumTo(w, b) = SumTo(w, c)
  BY <1>1, SumGrows, SumStays
<1>5. SumTo(w, b) \in Int /\ SumTo(w, c) \in Int /\ w[t] \in Int
  BY <1>1, SumDefinition
<1> QED BY <1>2, <1>3, <1>4, <1>5 DEF b

\* A sum when one of the values changes.
LEMMA SumChanges ==
  ASSUME NEW v \in [Nat -> Int], NEW w \in [Nat -> Int], NEW n \in Nat, NEW t \in 0..n,
         \A k \in 0..n : k # t => w[k] = v[k]
  PROVE  SumTo(w, n) = (SumTo(v, n) - v[t]) + w[t]
<1> DEFINE more(k) == IF t <= k THEN w[t] - v[t] ELSE 0
           S == {k \in Nat : k <= n => SumTo(w, k) = SumTo(v, k) + more(k)}
<1>0. \A k \in Nat : SumTo(v, k) \in Int /\ SumTo(w, k) \in Int /\ v[k] \in Int /\ w[k] \in Int
  BY SumDefinition
<1>1. ASSUME NEW k \in Nat, \A i \in 0..(k - 1) : i \in S
      PROVE  k \in S
  <2> SUFFICES ASSUME k <= n PROVE SumTo(w, k) = SumTo(v, k) + more(k)
    OBVIOUS
  <2>1. CASE k = 0
    <3>1. SumTo(w, 0) = w[0] /\ SumTo(v, 0) = v[0] /\ (0 # t => w[0] = v[0])
      BY SumDefinition
    <3> QED BY <1>0, <2>1, <3>1
  <2>2. CASE k # 0
    <3>1. k - 1 \in Nat /\ k - 1 \in S /\ k - 1 <= n /\ (k - 1) + 1 = k
      BY <1>1, <2>2
    <3>2. SumTo(w, k - 1) = SumTo(v, k - 1) + more(k - 1)
      BY <3>1
    <3>3. SumTo(w, k) = SumTo(w, k - 1) + w[k] /\ SumTo(v, k) = SumTo(v, k - 1) + v[k]
      BY <3>1, SumDefinition
    <3>4. k # t => w[k] = v[k]
      OBVIOUS
    <3>5. SumTo(w, k - 1) \in Int /\ SumTo(v, k - 1) \in Int /\ w[k] \in Int /\ v[k] \in Int
          /\ w[t] \in Int /\ v[t] \in Int
      BY <1>0, <3>1
    <3> QED BY <3>2, <3>3, <3>4, <3>5
  <2> QED BY <2>1, <2>2
<1>2. Nat \subseteq S
  <2> HIDE DEF S
  <2> QED BY <1>1, NoFirstFailure
<1>3. SumTo(w, n) = SumTo(v, n) + (w[t] - v[t])
  BY <1>2
<1> QED BY <1>0, <1>3

\* Values that are together at least those of a third sum.
LEMMA SumCovered ==
  ASSUME NEW v \in [Nat -> Int], NEW w \in [Nat -> Int], NEW x \in [Nat -> Int], NEW n \in Nat,
         \A k \in 0..n : v[k] <= w[k] + x[k]
  PROVE  SumTo(v, n) <= SumTo(w, n) + SumTo(x, n)
<1> DEFINE S == {k \in Nat : k <= n => SumTo(v, k) <= SumTo(w, k) + SumTo(x, k)}
<1>0. \A k \in Nat : SumTo(v, k) \in Int /\ SumTo(w, k) \in Int /\ SumTo(x, k) \in Int
  BY SumDefinition
<1>1. ASSUME NEW k \in Nat, \A i \in 0..(k - 1) : i \in S
      PROVE  k \in S
  <2> SUFFICES ASSUME k <= n PROVE SumTo(v, k) <= SumTo(w, k) + SumTo(x, k)
    OBVIOUS
  <2>1. CASE k = 0
    <3>1. SumTo(v, 0) = v[0] /\ SumTo(w, 0) = w[0] /\ SumTo(x, 0) = x[0]
      BY SumDefinition
    <3>2. v[0] <= w[0] + x[0]
      OBVIOUS
    <3> QED BY <2>1, <3>1, <3>2
  <2>2. CASE k # 0
    <3>1. k - 1 \in Nat /\ k - 1 \in S /\ k - 1 <= n /\ (k - 1) + 1 = k
      BY <1>1, <2>2
    <3>2. SumTo(v, k - 1) <= SumTo(w, k - 1) + SumTo(x, k - 1)
      BY <3>1
    <3>3. /\ SumTo(v, k) = SumTo(v, k - 1) + v[k] /\ SumTo(w, k) = SumTo(w, k - 1) + w[k]
          /\ SumTo(x, k) = SumTo(x, k - 1) + x[k]
      BY <3>1, SumDefinition
    <3>4. v[k] <= w[k] + x[k] /\ v[k] \in Int /\ w[k] \in Int /\ x[k] \in Int
      OBVIOUS
    <3> QED BY <1>0, <3>1, <3>2, <3>3, <3>4
  <2> QED BY <2>1, <2>2
<1>2. Nat \subseteq S
  <2> HIDE DEF S
  <2> QED BY <1>1, NoFirstFailure
<1> QED BY <1>2

\* What a sum has added since a time.
LEMMA SumSince ==
  ASSUME NEW v \in [Nat -> Int], NEW w \in [Nat -> Int], NEW m \in Nat, NEW n \in Nat, m <= n,
         \A k \in 0..m : w[k] = 0, \A k \in (m + 1)..n : w[k] = v[k]
  PROVE  SumTo(w, n) = SumTo(v, n) - SumTo(v, m)
<1> DEFINE S == {k \in Nat : k <= n =>
                    SumTo(w, k) = IF k <= m THEN 0 ELSE SumTo(v, k) - SumTo(v, m)}
<1>0. \A k \in Nat : SumTo(v, k) \in Int /\ SumTo(w, k) \in Int
  BY SumDefinition
<1>1. ASSUME NEW k \in Nat, \A i \in 0..(k - 1) : i \in S
      PROVE  k \in S
  <2> SUFFICES ASSUME k <= n
               PROVE  SumTo(w, k) = IF k <= m THEN 0 ELSE SumTo(v, k) - SumTo(v, m)
    OBVIOUS
  <2>1. CASE k = 0
    <3>1. SumTo(w, 0) = w[0]
      BY SumDefinition
    <3> QED BY <2>1, <3>1
  <2>2. CASE k # 0
    <3>1. k - 1 \in Nat /\ k - 1 \in S /\ k - 1 <= n /\ (k - 1) + 1 = k
      BY <1>1, <2>2
    <3>2. SumTo(w, k - 1) = IF k - 1 <= m THEN 0 ELSE SumTo(v, k - 1) - SumTo(v, m)
      BY <3>1
    <3>3. SumTo(w, k) = SumTo(w, k - 1) + w[k] /\ SumTo(v, k) = SumTo(v, k - 1) + v[k]
      BY <3>1, SumDefinition
    <3>4. w[k] = IF k <= m THEN 0 ELSE v[k]
      OBVIOUS
    <3>5. /\ SumTo(w, k - 1) \in Int /\ SumTo(v, k - 1) \in Int /\ SumTo(v, m) \in Int /\ v[k] \in Int
          /\ (k - 1 = m => SumTo(v, k - 1) = SumTo(v, m))
      BY <1>0, <3>1
    <3> QED BY <2>2, <3>2, <3>3, <3>4, <3>5
  <2> QED BY <2>1, <2>2
<1>2. Nat \subseteq S
  <2> HIDE DEF S
  <2> QED BY <1>1, NoFirstFailure
<1>3. SumTo(w, n) = IF n <= m THEN 0 ELSE SumTo(v, n) - SumTo(v, m)
  BY <1>2
<1> QED BY <1>0, <1>3

\* A function defined from each number to the next exists.
StepByStep(f, b, n, g) == f[0] = b /\ \A k \in 1..n : f[k] = g[<<k, f[k - 1]>>]

LEMMA Recursion ==
  ASSUME NEW S, NEW b \in S, NEW n \in Nat, NEW g \in [(1..n) \X S -> S]
  PROVE  \E f \in [0..n -> S] : StepByStep(f, b, n, g)
<1> DEFINE Steps(f, j) == f[0] = b /\ \A k \in 1..j : f[k] = g[<<k, f[k - 1]>>]
           T == {j \in Nat : j <= n => \E f \in [0..j -> S] : Steps(f, j)}
<1>1. ASSUME NEW j \in Nat, \A i \in 0..(j - 1) : i \in T
      PROVE  j \in T
  <2>1. SUFFICES ASSUME j <= n PROVE \E f \in [0..j -> S] : Steps(f, j)
    OBVIOUS
  <2>2. CASE j = 0
    <3> DEFINE f == [i \in 0..j |-> b]
    <3>1. f \in [0..j -> S] /\ Steps(f, j)
      BY <2>2
    <3> QED
      BY <3>1
  <2>3. CASE j # 0
    <3>1. j - 1 \in 0..(j - 1) /\ j - 1 \in Nat /\ j - 1 <= n
      BY <2>1, <2>3
    <3>2. PICK f \in [0..(j - 1) -> S] : Steps(f, j - 1)
      <4>1. j - 1 \in T
        <5> HIDE DEF T
        <5> QED
          BY <1>1, <3>1
      <4> QED
        BY <3>1, <4>1
    <3> DEFINE h == [i \in 0..j |-> IF i = j THEN g[<<j, f[j - 1]>>] ELSE f[i]]
    <3>3. f[j - 1] \in S /\ <<j, f[j - 1]>> \in (1..n) \X S
      BY <2>1, <2>3, <3>1
    <3>4. g[<<j, f[j - 1]>>] \in S
      BY <3>3
    <3>5. h \in [0..j -> S]
      BY <3>4
    <3>6. \A i \in 0..(j - 1) : h[i] = f[i]
      OBVIOUS
    <3>7. h[j] = g[<<j, f[j - 1]>>]
      OBVIOUS
    <3> HIDE DEF h
    <3>8. h[0] = b
      BY <2>3, <3>2, <3>6
    <3>9. ASSUME NEW k \in 1..j PROVE h[k] = g[<<k, h[k - 1]>>]
      <4>1. k - 1 \in 0..(j - 1)
        OBVIOUS
      <4>2. CASE k = j
        BY <3>6, <3>7, <4>1, <4>2
      <4>3. CASE k # j
        <5>1. k \in 1..(j - 1) /\ k \in 0..(j - 1)
          BY <4>3
        <5> QED
          BY <3>2, <3>6, <4>1, <5>1
      <4> QED
        BY <4>2, <4>3
    <3> QED
      BY <3>5, <3>8, <3>9
  <2> QED
    BY <2>2, <2>3
<1>2. Nat \subseteq T
  <2> HIDE DEF T
  <2> QED
    BY <1>1, NoFirstFailure
<1> QED
  BY <1>2 DEF StepByStep
=============================================================================
