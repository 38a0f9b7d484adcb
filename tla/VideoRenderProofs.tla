-------------------------- MODULE VideoRenderProofs --------------------------
(***************************************************************************)
(* What the film shows, for any script, storyboard, voice, hearing and     *)
(* sequence of runs.                                                       *)
(***************************************************************************)
EXTENDS VideoRender, SequenceTheorems, FiniteSetTheorems, WellFoundedInduction, TLAPS

-----------------------------------------------------------------------------
(* Recursive functions.  The library's induction theorems are about        *)
(* operators; this one is about sets, from the well-foundedness of finite  *)
(* sets: the initial segments outside S would have a smallest one.         *)

\* Induction over the numbers of a set.
LEMMA SetInduction ==
  ASSUME NEW S \in SUBSET Nat, 0 \in S, \A n \in S : n + 1 \in S
  PROVE  Nat \subseteq S
<1> DEFINE Outside == {0..n : n \in Nat \ S}
<1>1. SUFFICES ASSUME NEW n \in Nat \ S PROVE FALSE OBVIOUS
<1>2. Outside \subseteq FiniteSubsetsOf(Nat)
  <2> SUFFICES ASSUME NEW k \in Nat PROVE 0..k \in FiniteSubsetsOf(Nat) OBVIOUS
  <2>1. IsFiniteSet(0..k) BY FS_Interval
  <2> QED BY <2>1 DEF FiniteSubsetsOf
<1>3. Outside # {} BY <1>1
<1>4. PICK T \in Outside : \A U \in Outside : <<U, T>> \notin StrictSubsetOrdering(Nat)
  <2>1. IsWellFoundedOn(StrictSubsetOrdering(Nat), FiniteSubsetsOf(Nat))
    BY FS_StrictSubsetOrderingWellFounded
  <2> HIDE DEF Outside
  <2> QED BY <1>2, <1>3, <2>1, WFMin
<1>5. PICK k \in Nat \ S : T = 0..k BY <1>4
<1>6. k # 0 /\ k - 1 \in Nat \ S
  <2>1. k # 0 OBVIOUS
  <2> QED BY <2>1
<1>7. 0..(k - 1) \in Outside BY <1>6
<1>8. 0..(k - 1) \subseteq 0..k /\ k \notin 0..(k - 1) /\ k \in 0..k BY <1>6
<1>9. <<0..(k - 1), 0..k>> \in StrictSubsetOrdering(Nat) BY <1>8 DEF StrictSubsetOrdering
<1> QED BY <1>4, <1>5, <1>7, <1>9

\* The same up to a bound.
LEMMA UpTo ==
  ASSUME NEW n \in Nat, NEW S, 0 \in S, \A i \in 1..n : i - 1 \in S => i \in S
  PROVE  0..n \subseteq S
<1> DEFINE T == {i \in Nat : i <= n => i \in S}
<1>1. 0 \in T OBVIOUS
<1>2. ASSUME NEW i \in T PROVE i + 1 \in T
  <2>1. CASE i + 1 <= n
    <3>1. i \in S /\ i + 1 \in 1..n BY <2>1
    <3> QED BY <3>1
  <2>2. CASE ~(i + 1 <= n) BY <2>2
  <2> QED BY <2>1, <2>2
<1> HIDE DEF T
<1>3. Nat \subseteq T BY <1>1, <1>2, SetInduction DEF T
<1> QED BY <1>3 DEF T

Stepwise(f, x0, step, n) == f[0] = x0 /\ \A i \in 1..n : f[i] = step[i][f[i - 1]]

\* A function can be defined step by step.
LEMMA Recursion ==
  ASSUME NEW X, NEW x0 \in X, NEW n \in Nat, NEW step \in [1..n -> [X -> X]]
  PROVE  \E f \in [0..n -> X] : Stepwise(f, x0, step, n)
<1> DEFINE P(m, f) == f[0] = x0 /\ \A i \in 1..m : f[i] = step[i][f[i - 1]]
           S == {m \in 0..n : \E f \in [0..m -> X] : P(m, f)}
<1>1. 0 \in S
  <2> DEFINE g == [i \in 0..0 |-> x0]
  <2>1. g \in [0..0 -> X] /\ P(0, g) OBVIOUS
  <2> HIDE DEF g, P
  <2> QED BY <2>1
<1>2. ASSUME NEW k \in 1..n, k - 1 \in S PROVE k \in S
  <2>1. PICK f \in [0..(k - 1) -> X] : P(k - 1, f) BY <1>2
  <2> DEFINE g == [i \in 0..k |-> IF i = k THEN step[k][f[k - 1]] ELSE f[i]]
  <2>2. g \in [0..k -> X] OBVIOUS
  <2>3. ASSUME NEW i \in 1..k PROVE g[i] = step[i][g[i - 1]] BY <2>1
  <2>4. P(k, g) BY <2>1, <2>3
  <2> HIDE DEF g, P
  <2> QED BY <2>2, <2>4
<1> HIDE DEF S
<1>3. 0..n \subseteq S BY <1>1, <1>2, UpTo
<1> QED BY <1>3 DEF S, Stepwise

-----------------------------------------------------------------------------
(* Sums, minima and maxima.                                                *)

\* The sum of a sequence is the last of its partial sums.
LEMMA TotalIs ==
  ASSUME NEW n \in Nat, NEW s \in [1..n -> Int], NEW sum \in [0..n -> Int],
         sum[0] = 0, \A i \in 1..n : sum[i] = sum[i - 1] + s[i]
  PROVE  Total(s) = sum[n]
<1> DEFINE Body(f) == [k \in 0..Len(s) |-> IF k = 0 THEN 0 ELSE f[k - 1] + s[k]]
           total == CHOOSE f : f = Body(f)
<1>1. Len(s) = n OBVIOUS
<1>2. sum = Body(sum)
  <2>1. \A k \in 0..n : sum[k] = IF k = 0 THEN 0 ELSE sum[k - 1] + s[k] OBVIOUS
  <2>2. Body(sum) = [k \in 0..n |-> IF k = 0 THEN 0 ELSE sum[k - 1] + s[k]] BY <1>1
  <2> QED BY <2>1, <2>2
<1>3. total = Body(total)
  <2> HIDE DEF Body
  <2> QED BY <1>2
<1>4. total[0] = 0 /\ \A i \in 1..n : total[i] = total[i - 1] + s[i]
  <2> HIDE DEF total
  <2> QED BY <1>1, <1>3
<1> HIDE DEF total
<1> DEFINE S == {i \in 0..n : total[i] = sum[i]}
<1>5. 0 \in S BY <1>4
<1>6. ASSUME NEW i \in 1..n, i - 1 \in S PROVE i \in S BY <1>4, <1>6
<1> HIDE DEF S
<1>7. 0..n \subseteq S BY <1>5, <1>6, UpTo
<1>8. Total(s) = total[n] BY <1>1 DEF Total, total
<1> QED BY <1>7, <1>8 DEF S

\* The partial sums are the sums of the prefixes.
LEMMA PartialSums ==
  ASSUME NEW n \in Nat, NEW s \in [1..n -> Int]
  PROVE  \E sum \in [0..n -> Int] :
           /\ sum[0] = 0 /\ \A i \in 1..n : sum[i] = sum[i - 1] + s[i]
           /\ \A i \in 0..n : Total(SubSeq(s, 1, i)) = sum[i]
           /\ Total(s) = sum[n]
<1> DEFINE step == [i \in 1..n |-> [x \in Int |-> x + s[i]]]
<1>1. step \in [1..n -> [Int -> Int]] /\ \A i \in 1..n, x \in Int : step[i][x] = x + s[i] OBVIOUS
<1>0. 0 \in Int OBVIOUS
<1> HIDE DEF step
<1>2. PICK sum \in [0..n -> Int] : Stepwise(sum, 0, step, n) BY <1>0, <1>1, Recursion
<1>3. sum[0] = 0 /\ \A i \in 1..n : sum[i] = sum[i - 1] + s[i]
  <2>1. sum[0] = 0 /\ \A i \in 1..n : sum[i] = step[i][sum[i - 1]] BY <1>2 DEF Stepwise
  <2>2. SUFFICES ASSUME NEW i \in 1..n PROVE sum[i] = sum[i - 1] + s[i] BY <2>1
  <2>3. i - 1 \in 0..n OBVIOUS
  <2>4. sum[i - 1] \in Int BY <2>3
  <2> QED BY <1>1, <2>1, <2>4
<1>4. ASSUME NEW i \in 0..n PROVE Total(SubSeq(s, 1, i)) = sum[i]
  <2> DEFINE u == SubSeq(s, 1, i)
             part == [k \in 0..i |-> sum[k]]
  <2>1. u \in [1..i -> Int] /\ \A k \in 1..i : u[k] = s[k]
    <3>1. \A k \in 1..i : s[k] \in Int OBVIOUS
    <3>2. u \in Seq(Int) /\ Len(u) = i BY <3>1, SubSeqProperties
    <3>3. \A k \in 1..(i - 1 + 1) : u[k] = s[1 + k - 1] BY <3>1, SubSeqProperties
    <3> HIDE DEF u
    <3>4. \A k \in 1..i : k \in 1..(i - 1 + 1) /\ 1 + k - 1 = k OBVIOUS
    <3>5. \A k \in 1..i : u[k] = s[k] BY <3>3, <3>4
    <3>6. u \in [1..i -> Int] BY <3>2, LenProperties
    <3> QED BY <3>5, <3>6
  <2>2. part \in [0..i -> Int] /\ part[0] = 0 /\ part[i] = sum[i] BY <1>3
  <2>3. \A k \in 1..i : part[k] = part[k - 1] + u[k] BY <1>3, <2>1
  <2> HIDE DEF u, part
  <2>0. i \in Nat OBVIOUS
  <2>4. Total(u) = part[i] BY <2>0, <2>1, <2>2, <2>3, TotalIs
  <2> QED BY <2>2, <2>4 DEF u
<1>5. Total(s) = sum[n] BY <1>3, TotalIs
<1> QED BY <1>3, <1>4, <1>5

\* What a step never decreases, no interval decreases.
LEMMA Monotone ==
  ASSUME NEW n \in Nat, NEW f \in [0..n -> Int], \A i \in 1..n : f[i - 1] <= f[i]
  PROVE  \A i, j \in 0..n : i <= j => f[i] <= f[j]
<1> SUFFICES ASSUME NEW i \in 0..n PROVE \A j \in 0..n : i <= j => f[i] <= f[j] OBVIOUS
<1> DEFINE S == {j \in 0..n : i <= j => f[i] <= f[j]}
<1>1. 0 \in S OBVIOUS
<1>2. ASSUME NEW j \in 1..n, j - 1 \in S PROVE j \in S
  <2>1. f[j - 1] <= f[j] /\ f[j] \in Int /\ f[j - 1] \in Int /\ f[i] \in Int OBVIOUS
  <2>2. i <= j - 1 => f[i] <= f[j - 1] BY <1>2
  <2> QED BY <2>1, <2>2
<1> HIDE DEF S
<1>3. 0..n \subseteq S BY <1>1, <1>2, UpTo
<1> QED BY <1>3 DEF S

\* The largest member of a set.
LEMMA MaxIs ==
  ASSUME NEW S \in SUBSET Int, NEW x \in S, \A y \in S : y <= x
  PROVE  Max(S) = x
<1>1. \A y \in S : x >= y OBVIOUS
<1>2. Max(S) \in S /\ \A y \in S : Max(S) >= y BY <1>1, Zenon DEF Max
<1>3. Max(S) \in Int /\ x \in Int /\ Max(S) >= x /\ Max(S) <= x BY <1>2
<1> QED BY <1>3

\* The smallest member of a set.
LEMMA MinIs ==
  ASSUME NEW S \in SUBSET Int, NEW x \in S, \A y \in S : x <= y
  PROVE  Min(S) = x
<1>1. Min(S) \in S /\ \A y \in S : Min(S) =< y BY Zenon DEF Min
<1>2. Min(S) \in Int /\ x \in Int /\ Min(S) <= x /\ x <= Min(S) BY <1>1
<1> QED BY <1>2

\* A set of positions that is not empty has a largest member.
LEMMA MaxExists ==
  ASSUME NEW n \in Nat, NEW S \in SUBSET (1..n), S # {}
  PROVE  Max(S) \in S /\ \A y \in S : y <= Max(S)
<1>1. \E x \in S : \A y \in S : y <= x
  <2> DEFINE T == {k \in 0..n : S \cap 1..k # {} => \E x \in S \cap 1..k : \A y \in S \cap 1..k : y <= x}
  <2>1. 0 \in T OBVIOUS
  <2>2. ASSUME NEW k \in 1..n, k - 1 \in T PROVE k \in T
    <3>1. CASE k \in S BY <3>1
    <3>2. CASE k \notin S
      <4>1. S \cap 1..k = S \cap 1..(k - 1) BY <3>2
      <4> QED BY <2>2, <4>1
    <3> QED BY <3>1, <3>2
  <2> HIDE DEF T
  <2>3. 0..n \subseteq T BY <2>1, <2>2, UpTo
  <2>4. S \cap 1..n = S OBVIOUS
  <2> QED BY <2>3, <2>4 DEF T
<1>2. PICK x \in S : \A y \in S : y <= x BY <1>1
<1>3. Max(S) = x BY <1>2, MaxIs
<1> QED BY <1>2, <1>3

\* And a smallest.
LEMMA MinExists ==
  ASSUME NEW n \in Nat, NEW S \in SUBSET (1..n), S # {}
  PROVE  Min(S) \in S /\ \A y \in S : Min(S) <= y
<1> DEFINE R == {n + 1 - y : y \in S}
<1>1. R \in SUBSET (1..n) /\ R # {}
  <2>1. ASSUME NEW y \in S PROVE n + 1 - y \in 1..n OBVIOUS
  <2> QED BY <2>1
<1>2. Max(R) \in R /\ \A y \in R : y <= Max(R)
  <2> HIDE DEF R
  <2> QED BY <1>1, MaxExists
<1>3. PICK x \in S : Max(R) = n + 1 - x BY <1>2
<1>4. ASSUME NEW y \in S PROVE x <= y
  <2>1. n + 1 - y <= n + 1 - x BY <1>2, <1>3
  <2> QED BY <2>1
<1>5. Min(S) = x BY <1>4, MinIs
<1> QED BY <1>4, <1>5

\* Whole-number division.
LEMMA Division ==
  ASSUME NEW x \in Nat, NEW d \in Nat, d # 0
  PROVE  x \div d \in Nat /\ d * (x \div d) <= x /\ x < d * (x \div d) + d
OBVIOUS

-----------------------------------------------------------------------------
(* Sequences of sequences.                                                 *)

\* FlattenSeq is the last of its partial results.
LEMMA FlattenIs ==
  ASSUME NEW W, NEW n \in Nat, n # 0, NEW s \in [1..n -> Seq(W)], NEW flat \in [1..n -> Seq(W)],
         flat[1] = s[1], \A i \in 2..n : flat[i] = flat[i - 1] \o s[i]
  PROVE  FlattenSeq(s) = flat[n]
<1> DEFINE Body(f) == [i \in 1..Len(s) |-> IF i = 1 THEN s[i] ELSE f[i - 1] \o s[i]]
           flatten == CHOOSE f : f = Body(f)
<1>1. Len(s) = n OBVIOUS
<1>2. flat = Body(flat)
  <2>1. \A i \in 1..n : flat[i] = IF i = 1 THEN s[i] ELSE flat[i - 1] \o s[i]
    <3> SUFFICES ASSUME NEW i \in 1..n PROVE flat[i] = IF i = 1 THEN s[i] ELSE flat[i - 1] \o s[i]
      OBVIOUS
    <3>1. CASE i = 1 BY <3>1
    <3>2. CASE i # 1
      <4>1. i \in 2..n BY <3>2
      <4> QED BY <3>2, <4>1
    <3> QED BY <3>1, <3>2
  <2>2. Body(flat) = [i \in 1..n |-> IF i = 1 THEN s[i] ELSE flat[i - 1] \o s[i]] BY <1>1
  <2> QED BY <2>1, <2>2
<1>3. flatten = Body(flatten)
  <2> HIDE DEF Body
  <2> QED BY <1>2
<1>4. \A i \in 1..n : flatten[i] = IF i = 1 THEN s[i] ELSE flatten[i - 1] \o s[i]
  <2> HIDE DEF flatten
  <2> QED BY <1>1, <1>3
<1> HIDE DEF flatten
<1> DEFINE S == {i \in 0..n : i # 0 => flatten[i] = flat[i]}
<1>5. 0 \in S OBVIOUS
<1>6. ASSUME NEW i \in 1..n, i - 1 \in S PROVE i \in S
  <2>1. CASE i = 1 BY <1>4, <2>1
  <2>2. CASE i # 1
    <3>1. i \in 2..n /\ i - 1 # 0 BY <2>2
    <3>2. flatten[i - 1] = flat[i - 1] BY <1>6, <3>1
    <3>3. flatten[i] = flatten[i - 1] \o s[i] BY <1>4, <2>2
    <3>4. flat[i] = flat[i - 1] \o s[i] BY <3>1
    <3>5. flatten[i] = flat[i] BY <3>2, <3>3, <3>4
    <3> HIDE DEF flatten
    <3> QED BY <3>5
  <2> QED BY <2>1, <2>2
<1> HIDE DEF S
<1>7. 0..n \subseteq S BY <1>5, <1>6, UpTo
<1>8. FlattenSeq(s) = flatten[n] BY <1>1 DEF FlattenSeq, flatten
<1>9. n \in 0..n OBVIOUS
<1> QED BY <1>7, <1>8, <1>9 DEF S

\* Nothing to flatten.
LEMMA FlattenEmpty == FlattenSeq(<< >>) = << >>
BY DEF FlattenSeq

\* Its partial results are those of the prefixes.
LEMMA PartialFlats ==
  ASSUME NEW W, NEW n \in Nat, NEW s \in [1..n -> Seq(W)]
  PROVE  \E flat \in [0..n -> Seq(W)] :
           /\ flat[0] = << >> /\ \A i \in 1..n : flat[i] = flat[i - 1] \o s[i]
           /\ \A i \in 0..n : FlattenSeq(SubSeq(s, 1, i)) = flat[i]
           /\ FlattenSeq(s) = flat[n]
<1> DEFINE step == [i \in 1..n |-> [x \in Seq(W) |-> x \o s[i]]]
<1>1. step \in [1..n -> [Seq(W) -> Seq(W)]] /\ \A i \in 1..n, x \in Seq(W) : step[i][x] = x \o s[i]
  OBVIOUS
<1>2. << >> \in Seq(W) OBVIOUS
<1> HIDE DEF step
<1>3. PICK flat \in [0..n -> Seq(W)] : Stepwise(flat, << >>, step, n) BY <1>1, <1>2, Recursion
<1>4. flat[0] = << >> /\ \A i \in 1..n : flat[i] = flat[i - 1] \o s[i]
  <2>1. flat[0] = << >> /\ \A i \in 1..n : flat[i] = step[i][flat[i - 1]] BY <1>3 DEF Stepwise
  <2>2. SUFFICES ASSUME NEW i \in 1..n PROVE flat[i] = flat[i - 1] \o s[i] BY <2>1
  <2>3. i - 1 \in 0..n OBVIOUS
  <2>4. flat[i - 1] \in Seq(W) BY <2>3
  <2> QED BY <1>1, <2>1, <2>4
<1>5. ASSUME NEW i \in 0..n, NEW u \in [1..i -> Seq(W)], \A k \in 1..i : u[k] = s[k]
      PROVE FlattenSeq(u) = flat[i]
  <2>0. i \in Nat OBVIOUS
  <2>1. CASE i = 0
    <3>1. u = << >> BY <2>1
    <3> QED BY <1>4, <2>1, <3>1, FlattenEmpty
  <2>2. CASE i # 0
    <3> DEFINE part == [k \in 1..i |-> flat[k]]
    <3>1. part \in [1..i -> Seq(W)] /\ part[i] = flat[i] BY <2>2
    <3>2. part[1] = u[1]
      <4>1. 1 \in 1..i /\ 1 \in 1..n /\ 1 - 1 = 0 BY <2>2
      <4>2. part[1] = flat[1] /\ s[1] \in Seq(W) /\ u[1] = s[1] BY <1>5, <4>1
      <4>3. flat[1] = flat[0] \o s[1] BY <1>4, <4>1
      <4> QED BY <1>4, <4>2, <4>3, ConcatEmptySeq
    <3>3. ASSUME NEW k \in 2..i PROVE part[k] = part[k - 1] \o u[k]
      <4>1. k \in 1..i /\ k - 1 \in 1..i /\ k \in 1..n OBVIOUS
      <4>2. part[k] = flat[k] /\ part[k - 1] = flat[k - 1] /\ u[k] = s[k] BY <1>5, <4>1
      <4> QED BY <1>4, <4>1, <4>2
    <3> HIDE DEF part
    <3>4. FlattenSeq(u) = part[i] BY <2>0, <2>2, <3>1, <3>2, <3>3, FlattenIs
    <3> QED BY <3>1, <3>4
  <2> QED BY <2>1, <2>2
<1>6. ASSUME NEW i \in 0..n PROVE FlattenSeq(SubSeq(s, 1, i)) = flat[i]
  <2> DEFINE u == SubSeq(s, 1, i)
  <2>1. \A k \in 1..i : s[k] \in Seq(W) OBVIOUS
  <2>2. u \in Seq(Seq(W)) /\ Len(u) = i BY <2>1, SubSeqProperties
  <2>3. \A k \in 1..(i - 1 + 1) : u[k] = s[1 + k - 1] BY <2>1, SubSeqProperties
  <2> HIDE DEF u
  <2>4. \A k \in 1..i : k \in 1..(i - 1 + 1) /\ 1 + k - 1 = k OBVIOUS
  <2>5. \A k \in 1..i : u[k] = s[k] BY <2>3, <2>4
  <2>6. u \in [1..i -> Seq(W)] BY <2>2, LenProperties
  <2>7. FlattenSeq(u) = flat[i] BY <1>5, <2>5, <2>6
  <2> QED BY <2>7 DEF u
<1>7. FlattenSeq(s) = flat[n]
  <2>1. n \in 0..n OBVIOUS
  <2> QED BY <1>5, <2>1
<1> QED BY <1>4, <1>6, <1>7

\* Concatenation is associative.
LEMMA Associative == ASSUME NEW W PROVE \A a, b, c \in Seq(W) : (a \o b) \o c = a \o (b \o c)
BY ConcatAssociative

\* One more sequence adds its elements.
LEMMA FlattenAppend ==
  ASSUME NEW W, NEW s \in Seq(Seq(W)), NEW e \in Seq(W)
  PROVE  FlattenSeq(s) \in Seq(W) /\ FlattenSeq(Append(s, e)) = FlattenSeq(s) \o e
<1> DEFINE n == Len(s)
           m == n + 1
           u == Append(s, e)
<1>1. /\ n \in Nat /\ m \in Nat /\ m - 1 = n /\ n \in 0..m /\ m \in 1..m /\ s \in [1..n -> Seq(W)]
      /\ u \in Seq(Seq(W)) /\ Len(u) = m
      /\ u[m] = e /\ \A i \in 1..n : u[i] = s[i]
  BY AppendProperties, LenProperties
<1> HIDE DEF n, m, u
<1>2. u \in [1..m -> Seq(W)] BY <1>1, LenProperties
<1>3. PICK flat \in [0..m -> Seq(W)] :
         /\ flat[0] = << >> /\ \A i \in 1..m : flat[i] = flat[i - 1] \o u[i]
         /\ \A i \in 0..m : FlattenSeq(SubSeq(u, 1, i)) = flat[i]
         /\ FlattenSeq(u) = flat[m]
  <2>1. m \in Nat BY <1>1
  <2> QED BY <1>2, <2>1, PartialFlats
<1>4. SubSeq(u, 1, n) = s
  <2>1. \A i \in 1..n : u[i] \in Seq(W) BY <1>1
  <2>2. SubSeq(u, 1, n) \in Seq(Seq(W)) /\ Len(SubSeq(u, 1, n)) = n
        /\ \A i \in 1..(n - 1 + 1) : SubSeq(u, 1, n)[i] = u[1 + i - 1]
    BY <1>1, <2>1, SubSeqProperties
  <2>3. \A i \in 1..n : i \in 1..(n - 1 + 1) /\ 1 + i - 1 = i BY <1>1
  <2>4. \A i \in 1..n : SubSeq(u, 1, n)[i] = s[i] BY <1>1, <2>2, <2>3
  <2>5. Len(s) = n BY DEF n
  <2> QED BY <2>2, <2>4, <2>5, SeqEqual
<1>5. \A i \in 1..n : i \in 1..m BY <1>1 DEF m
<1>6. FlattenSeq(s) = flat[n] BY <1>1, <1>3, <1>4
<1>7. flat[m] = flat[n] \o e BY <1>1, <1>3
<1> QED BY <1>1, <1>3, <1>6, <1>7 DEF u

-----------------------------------------------------------------------------
(* Captions.                                                               *)

\* A prefix grows by one word.
LEMMA PrefixStep ==
  ASSUME NEW W, NEW s \in Seq(W), NEW k \in 1..Len(s)
  PROVE  /\ SubSeq(s, 1, k - 1) \in Seq(W)
         /\ SubSeq(s, 1, k) = SubSeq(s, 1, k - 1) \o <<s[k]>>
<1>1. \A i \in 1..(k - 1) : s[i] \in W BY LenProperties
<1>2. SubSeq(s, 1, k - 1) \in Seq(W) BY <1>1, SubSeqProperties
<1>3. 1 \in 1..Len(s) /\ k \in 1..Len(s) BY LenProperties
<1>4. SubSeq(s, 1, k) = SubSeq(s, 1, k - 1) \o <<s[k]>> BY <1>3, SubSeqRecursiveSecond
<1> QED BY <1>2, <1>4

\* A single word fits on a line: a wider one is set smaller.
LEMMA OneWordFits ==
  Width(<< >>) <= LineWidth /\ \A w : Width(<<w>>) <= LineWidth
<1>1. LineWidth \in Nat BY TimelineAssumption
<1>2. Width(<< >>) = 0
  <2> DEFINE c == [k \in 1..Len(<< >>) |-> AtMost(LineWidth, IF << >>[k] \in Wide THEN 2 ELSE 1)]
             sum == [k \in 0..0 |-> 0]
  <2>1. c \in [1..0 -> Int] OBVIOUS
  <2>2. sum \in [0..0 -> Int] /\ sum[0] = 0 OBVIOUS
  <2> HIDE DEF c, sum
  <2>3. 0 \in Nat /\ \A i \in 1..0 : sum[i] = sum[i - 1] + c[i] OBVIOUS
  <2>4. Total(c) = sum[0] BY <2>1, <2>2, <2>3, TotalIs
  <2> QED BY <2>2, <2>4 DEF Width, c
<1>3. ASSUME NEW w PROVE Width(<<w>>) <= LineWidth
  <2> DEFINE x == AtMost(LineWidth, IF w \in Wide THEN 2 ELSE 1)
             c == [k \in 1..Len(<<w>>) |-> AtMost(LineWidth, IF <<w>>[k] \in Wide THEN 2 ELSE 1)]
             sum == [k \in 0..1 |-> IF k = 0 THEN 0 ELSE x]
  <2>1. x \in Int /\ x <= LineWidth BY <1>1 DEF AtMost
  <2>2. c = [k \in 1..1 |-> x] OBVIOUS
  <2> HIDE DEF x
  <2>3. c \in [1..1 -> Int] /\ c[1] = x BY <2>1, <2>2
  <2>4. sum \in [0..1 -> Int] /\ sum[0] = 0 /\ sum[1] = 0 + x /\ sum[1] = x BY <2>1
  <2> HIDE DEF sum
  <2>5. 1 \in Nat /\ \A i \in 1..1 : sum[i] = sum[i - 1] + c[i] BY <2>3, <2>4
  <2>6. Total(c) = sum[1]
    <3> HIDE DEF c
    <3> QED BY <2>3, <2>4, <2>5, TotalIs
  <2>7. Width(<<w>>) = Total(c) BY DEF Width
  <2> QED BY <2>1, <2>4, <2>6, <2>7
<1> QED BY <1>1, <1>2, <1>3

Fit(lines) == \A j \in 1..Len(lines) : Width(lines[j]) <= LineWidth

\* A line that fits may be added.
LEMMA FitAppend ==
  ASSUME NEW W, NEW lines \in Seq(Seq(W)), NEW line \in Seq(W), Fit(lines), Width(line) <= LineWidth
  PROVE  Append(lines, line) \in Seq(Seq(W)) /\ Fit(Append(lines, line))
<1> DEFINE a == Append(lines, line)
<1>1. /\ a \in Seq(Seq(W)) /\ Len(a) = Len(lines) + 1 /\ Len(lines) \in Nat
      /\ a[Len(lines) + 1] = line /\ \A j \in 1..Len(lines) : a[j] = lines[j]
  BY AppendProperties, LenProperties
<1> HIDE DEF a
<1>2. ASSUME NEW j \in 1..Len(a) PROVE Width(a[j]) <= LineWidth
  <2>1. CASE j = Len(lines) + 1 BY <1>1, <2>1
  <2>2. CASE j # Len(lines) + 1
    <3>1. j \in 1..Len(lines) BY <1>1, <2>2
    <3> QED BY <1>1, <3>1 DEF Fit
  <2> QED BY <2>1, <2>2
<1> QED BY <1>1, <1>2 DEF Fit, a

\* The wrapped lines and the open one fit, and hold the sentence from its first word on.
LEMMA WrapProperties ==
  ASSUME NEW W, NEW s \in Seq(W)
  PROVE  /\ Wrap(s).lines \in Seq(Seq(W)) /\ Wrap(s).line \in Seq(W)
         /\ Fit(Wrap(s).lines) /\ Width(Wrap(s).line) <= LineWidth
         /\ \E m \in 0..Len(s) : FlattenSeq(Wrap(s).lines) \o Wrap(s).line = SubSeq(s, 1, m)
<1> DEFINE n == Len(s)
           X == [lines : Seq(Seq(W)), line : Seq(W)]
           x0 == [lines |-> << >>, line |-> << >>]
           Body(f) == [k \in 0..n |-> IF k = 0 THEN x0 ELSE WrapWord(f[k - 1], s[k])]
           wrapped == CHOOSE f : f = Body(f)
           Upto(x, m) == FlattenSeq(x.lines) \o x.line = SubSeq(s, 1, m)
           Held(x, k) ==
             /\ Fit(x.lines) /\ Width(x.line) <= LineWidth
             /\ \E m \in 0..k : Upto(x, m) /\ (Len(x.lines) < CaptionLines => m = k)
<1>0. n \in Nat /\ \A i \in 1..n : s[i] \in W BY LenProperties
<1>1. x0 \in X OBVIOUS
<1>2. ASSUME NEW x \in X, NEW w \in W PROVE WrapWord(x, w) \in X
  <2>1. x.lines \in Seq(Seq(W)) /\ x.line \in Seq(W) OBVIOUS
  <2>2. Append(x.line, w) \in Seq(W) /\ <<w>> \in Seq(W) BY <2>1, AppendProperties
  <2>3. Append(x.lines, x.line) \in Seq(Seq(W)) BY <2>1, AppendProperties
  <2> QED BY <2>1, <2>2, <2>3 DEF WrapWord
<1>3. \E f : f = Body(f)
  <2> DEFINE step == [i \in 1..n |-> [x \in X |-> WrapWord(x, s[i])]]
  <2>1. step \in [1..n -> [X -> X]] /\ \A i \in 1..n, x \in X : step[i][x] = WrapWord(x, s[i])
    <3> HIDE DEF X, n
    <3> QED BY <1>0, <1>2
  <2>2. PICK f \in [0..n -> X] : f[0] = x0 /\ \A k \in 1..n : f[k] = step[k][f[k - 1]]
    <3> HIDE DEF X, step, n, x0
    <3>1. PICK f \in [0..n -> X] : Stepwise(f, x0, step, n) BY <1>0, <1>1, <2>1, Recursion
    <3> QED BY <3>1 DEF Stepwise
  <2>3. \A k \in 1..n : f[k] = WrapWord(f[k - 1], s[k])
    <3> HIDE DEF X, step, n
    <3>1. \A k \in 1..n : f[k - 1] \in X BY <1>0
    <3> QED BY <1>0, <2>1, <2>2, <3>1
  <2>4. f = Body(f)
    <3>1. \A k \in 0..n : k # 0 => k \in 1..n BY <1>0
    <3> HIDE DEF X, step, n, x0
    <3>2. \A k \in 0..n : f[k] = IF k = 0 THEN x0 ELSE WrapWord(f[k - 1], s[k])
      BY <2>2, <2>3, <3>1
    <3> QED BY <3>2
  <2> HIDE DEF Body
  <2> QED BY <2>4
<1>4. wrapped = Body(wrapped)
  <2> HIDE DEF Body
  <2> QED BY <1>3
<1>5. wrapped[0] = x0 /\ \A k \in 1..n : wrapped[k] = WrapWord(wrapped[k - 1], s[k])
  <2> HIDE DEF wrapped, n, x0
  <2> QED BY <1>0, <1>4
<1>6. Wrap(s) = wrapped[n] BY DEF Wrap
<1>7. Held(x0, 0)
  <2>1. Fit(x0.lines) BY DEF Fit
  <2>2. FlattenSeq(x0.lines) \o x0.line = SubSeq(s, 1, 0)
    <3>1. FlattenSeq(x0.lines) = << >> /\ x0.line = << >> BY FlattenEmpty
    <3>2. SubSeq(s, 1, 0) = << >> BY SubSeqEmpty
    <3>3. << >> \o << >> = << >> OBVIOUS
    <3> QED BY <3>1, <3>2, <3>3
  <2> QED BY <2>1, <2>2, OneWordFits
<1>8. ASSUME NEW k \in 1..n, NEW x \in X, Held(x, k - 1) PROVE Held(WrapWord(x, s[k]), k)
  <2> DEFINE w == s[k]
             y == WrapWord(x, w)
  <2>1. x.lines \in Seq(Seq(W)) /\ x.line \in Seq(W) /\ w \in W BY <1>0
  <2>2. PICK m \in 0..(k - 1) : Upto(x, m) /\ (Len(x.lines) < CaptionLines => m = k - 1)
    BY <1>8
  <2>3. Fit(x.lines) /\ Width(x.line) <= LineWidth BY <1>8
  <2>4. SubSeq(s, 1, k) = SubSeq(s, 1, k - 1) \o <<w>> BY PrefixStep
  <2>5. /\ FlattenSeq(x.lines) \in Seq(W) /\ <<w>> \in Seq(W)
        /\ FlattenSeq(Append(x.lines, x.line)) = FlattenSeq(x.lines) \o x.line
    BY <2>1, FlattenAppend
  <2>6. CaptionLines \in Nat /\ Len(x.lines) \in Nat BY <2>1, TimelineAssumption
  <2>10. y = WrapWord(x, s[k]) OBVIOUS
  <2> HIDE DEF w, X
  <2>11. SUFFICES Held(y, k)
    <3> HIDE DEF Held, y
    <3> QED BY <2>10
  <2>7. CASE Len(x.lines) >= CaptionLines
    <3>1. y = x BY <2>7 DEF WrapWord
    <3>2. m \in 0..k /\ ~(Len(x.lines) < CaptionLines) BY <2>6, <2>7
    <3>3. Held(x, k)
      <4> HIDE DEF Upto, y
      <4> QED BY <2>2, <2>3, <3>2
    <3> HIDE DEF y, Held
    <3> QED BY <3>1, <3>3
  <2>8. CASE ~(Len(x.lines) >= CaptionLines) /\ Width(Append(x.line, w)) <= LineWidth
    <3>1. y.lines = x.lines /\ y.line = Append(x.line, w) BY <2>8 DEF WrapWord, X
    <3>2. m = k - 1 BY <2>2, <2>6, <2>8
    <3>3. Append(x.line, w) = x.line \o <<w>> BY <2>1, AppendIsConcat
    <3>4. FlattenSeq(x.lines) \o (x.line \o <<w>>) = (FlattenSeq(x.lines) \o x.line) \o <<w>>
      <4>1. FlattenSeq(x.lines) \in Seq(W) /\ x.line \in Seq(W) /\ <<w>> \in Seq(W) BY <2>1, <2>5
      <4>2. \A a, b, c \in Seq(W) : (a \o b) \o c = a \o (b \o c) BY Associative
      <4> QED BY <4>1, <4>2, Zenon
    <3> HIDE DEF y
    <3>5. Upto(y, k) BY <2>2, <2>4, <3>1, <3>2, <3>3, <3>4
    <3>6. Fit(y.lines) /\ Width(y.line) <= LineWidth /\ k \in 0..k BY <2>3, <2>8, <3>1
    <3> HIDE DEF Upto
    <3> QED BY <3>5, <3>6
  <2>9. CASE ~(Len(x.lines) >= CaptionLines) /\ ~(Width(Append(x.line, w)) <= LineWidth)
    <3>1. y.lines = Append(x.lines, x.line) /\ y.line = <<w>> BY <2>9 DEF WrapWord
    <3>2. m = k - 1 BY <2>2, <2>6, <2>9
    <3>3. Fit(Append(x.lines, x.line)) BY <2>1, <2>3, FitAppend
    <3> HIDE DEF y
    <3>4. Upto(y, k) BY <2>2, <2>4, <2>5, <3>1, <3>2
    <3>5. Fit(y.lines) /\ Width(y.line) <= LineWidth /\ k \in 0..k BY <3>1, <3>3, OneWordFits
    <3> HIDE DEF Upto
    <3> QED BY <3>4, <3>5
  <2> QED BY <2>7, <2>8, <2>9
<1> DEFINE S == {k \in 0..n : wrapped[k] \in X /\ Held(wrapped[k], k)}
<1>9. 0 \in S
  <2> HIDE DEF wrapped, n, X, x0, Held
  <2> QED BY <1>0, <1>1, <1>5, <1>7
<1>10. ASSUME NEW k \in 1..n, k - 1 \in S PROVE k \in S
  <2> HIDE DEF wrapped, n, X, Held
  <2>1. wrapped[k - 1] \in X /\ Held(wrapped[k - 1], k - 1) BY <1>10
  <2>2. wrapped[k] = WrapWord(wrapped[k - 1], s[k]) BY <1>5
  <2>3. wrapped[k] \in X BY <1>0, <1>2, <2>1, <2>2
  <2>4. Held(wrapped[k], k) BY <1>8, <2>1, <2>2
  <2> QED BY <2>3, <2>4
<1>11. Wrap(s) \in X /\ Held(Wrap(s), n)
  <2> HIDE DEF S, n
  <2>1. 0..n \subseteq S BY <1>0, <1>9, <1>10, UpTo
  <2>2. n \in S BY <1>0, <2>1
  <2> HIDE DEF wrapped, X, Held
  <2> QED BY <1>6, <2>2 DEF S
<1> QED BY <1>11

\* A part of a prefix is a prefix.
LEMMA PrefixOfConcat ==
  ASSUME NEW W, NEW s \in Seq(W), NEW p \in Seq(W), NEW q \in Seq(W),
         NEW m \in 0..Len(s), p \o q = SubSeq(s, 1, m)
  PROVE  Len(p) \in 0..m /\ p = SubSeq(s, 1, Len(p))
<1>1. \A i \in 1..m : s[i] \in W BY LenProperties
<1>2. Len(SubSeq(s, 1, m)) = m /\ \A i \in 1..(m - 1 + 1) : SubSeq(s, 1, m)[i] = s[1 + i - 1]
  BY <1>1, SubSeqProperties
<1>3. /\ Len(p) \in Nat /\ Len(q) \in Nat /\ Len(p \o q) = Len(p) + Len(q)
      /\ \A i \in 1..Len(p) : (p \o q)[i] = p[i]
  BY ConcatProperties, LenProperties
<1>4. Len(p) \in 0..m BY <1>2, <1>3
<1> DEFINE k == Len(p)
           u == SubSeq(s, 1, k)
<1>5. \A i \in 1..k : s[i] \in W BY <1>1, <1>4
<1>6. u \in Seq(W) /\ Len(u) = k /\ \A i \in 1..(k - 1 + 1) : u[i] = s[1 + i - 1]
  <2> HIDE DEF k
  <2>1. k \in Nat BY <1>3 DEF k
  <2> QED BY <1>5, <2>1, SubSeqProperties
<1> HIDE DEF u
<1>7. ASSUME NEW i \in 1..k PROVE p[i] = u[i]
  <2>1. i \in 1..(k - 1 + 1) /\ i \in 1..(m - 1 + 1) /\ 1 + i - 1 = i BY <1>3, <1>4
  <2>2. p[i] = s[i] BY <1>2, <1>3, <2>1
  <2> QED BY <1>6, <2>1, <2>2
<1>8. p = u BY <1>6, <1>7, SeqEqual
<1> QED BY <1>4, <1>8 DEF u

\* The static bar: a prefix of the sentence, in lines that fit, with an ellipsis unless
\* it is all of it.
LEMMA BarHonest ==
  ASSUME NEW W, NEW s \in Seq(W)
  PROVE  LET shown == FlattenSeq(CaptionBar(s).lines) IN
         /\ shown = SubSeq(s, 1, Len(shown)) /\ Len(shown) \in 0..Len(s)
         /\ Fit(CaptionBar(s).lines)
         /\ shown = s \/ CaptionBar(s).ellipsis
<1> DEFINE acc == Wrap(s)
           lines == CaptionBar(s).lines
           shown == FlattenSeq(lines)
<1>1. /\ acc.lines \in Seq(Seq(W)) /\ acc.line \in Seq(W)
      /\ Fit(acc.lines) /\ Width(acc.line) <= LineWidth
      /\ \E m \in 0..Len(s) : FlattenSeq(acc.lines) \o acc.line = SubSeq(s, 1, m)
  BY WrapProperties
<1>2. PICK m \in 0..Len(s) : FlattenSeq(acc.lines) \o acc.line = SubSeq(s, 1, m) BY <1>1
<1>3. lines = Append(acc.lines, acc.line) \/ lines = acc.lines BY DEF CaptionBar
<1>4. CaptionBar(s).ellipsis = (Len(shown) < Len(s)) BY DEF CaptionBar
<1> HIDE DEF acc, lines
<1>5. /\ FlattenSeq(acc.lines) \in Seq(W)
      /\ FlattenSeq(Append(acc.lines, acc.line)) = FlattenSeq(acc.lines) \o acc.line
  BY <1>1, FlattenAppend
<1>6. Fit(lines) BY <1>1, <1>3, FitAppend
<1>7. shown \in Seq(W) /\ \E q \in Seq(W) : shown \o q = SubSeq(s, 1, m)
  <2>1. CASE lines = acc.lines BY <1>1, <1>2, <1>5, <2>1
  <2>2. CASE lines = Append(acc.lines, acc.line)
    <3>1. shown = SubSeq(s, 1, m) BY <1>2, <1>5, <2>2
    <3>2. shown \in Seq(W)
      <4>1. \A i \in 1..m : s[i] \in W BY LenProperties
      <4>2. SubSeq(s, 1, m) \in Seq(W) BY <4>1, SubSeqProperties
      <4> QED BY <3>1, <4>2
    <3>3. << >> \in Seq(W) /\ shown \o << >> = shown BY <3>2, ConcatEmptySeq, EmptySeq
    <3> QED BY <3>1, <3>2, <3>3
  <2> QED BY <1>3, <2>1, <2>2
<1> HIDE DEF shown
<1>8. Len(shown) \in 0..m /\ shown = SubSeq(s, 1, Len(shown)) BY <1>7, PrefixOfConcat
<1>9. Len(shown) = Len(s) => shown = s BY <1>8, SubSeqFull
<1>10. shown = s \/ CaptionBar(s).ellipsis
  <2>1. Len(s) \in Nat BY LenProperties
  <2>2. Len(shown) = Len(s) \/ Len(shown) < Len(s) BY <1>8, <2>1
  <2> QED BY <1>4, <1>9, <2>2
<1>11. Len(shown) \in 0..Len(s)
  <2>1. Len(s) \in Nat BY LenProperties
  <2> QED BY <1>8, <2>1
<1> QED BY <1>6, <1>8, <1>10, <1>11 DEF shown, lines

\* The karaoke bar: all of the sentence, in lines that fit.
LEMMA KaraokeHonest ==
  ASSUME NEW W, NEW s \in Seq(W)
  PROVE  FlattenSeq(KaraokeLines(s)) = s /\ Fit(KaraokeLines(s))
<1> DEFINE n == Len(s)
           X == Seq(Seq(W))
           Body(f) == [k \in 0..n |-> IF k = 0 THEN << >> ELSE KaraokeWord(f[k - 1], s[k])]
           lines == CHOOSE f : f = Body(f)
           Held(x, k) == Fit(x) /\ FlattenSeq(x) = SubSeq(s, 1, k)
<1>0. n \in Nat /\ \A i \in 1..n : s[i] \in W BY LenProperties
<1>1. << >> \in X BY EmptySeq
<1>2. ASSUME NEW x \in X, x # << >>
      PROVE  /\ Front(x) \in X /\ Last(x) \in Seq(W) /\ Len(x) \in Nat \ {0}
             /\ Len(Front(x)) = Len(x) - 1 /\ x = Append(Front(x), Last(x))
             /\ \A j \in 1..Len(Front(x)) : Front(x)[j] = x[j]
  <2>1. PICK y \in X, e \in Seq(W) : x = Append(y, e) BY <1>2, SequenceEmptyOrAppend
  <2>2. /\ Len(y) \in Nat /\ Len(x) = Len(y) + 1 /\ x[Len(y) + 1] = e
        /\ \A j \in 1..Len(y) : x[j] = y[j]
    BY <2>1, AppendProperties, LenProperties
  <2>3. Last(x) = e BY <2>2 DEF Last
  <2> DEFINE p == SubSeq(x, 1, Len(y))
  <2>4. \A j \in 1..Len(y) : x[j] \in Seq(W) BY <2>2, LenProperties
  <2>5. p \in X /\ Len(p) = Len(y) /\ \A j \in 1..(Len(y) - 1 + 1) : p[j] = x[1 + j - 1]
    BY <2>2, <2>4, SubSeqProperties
  <2> HIDE DEF p
  <2>6. \A j \in 1..Len(y) : j \in 1..(Len(y) - 1 + 1) /\ 1 + j - 1 = j BY <2>2
  <2>7. \A j \in 1..Len(y) : p[j] = y[j] BY <2>2, <2>5, <2>6
  <2>8. p = y
    <3>1. \A j \in 1..Len(p) : p[j] = y[j] BY <2>5, <2>7
    <3> QED BY <2>5, <3>1, SeqEqual
  <2>9. Front(x) = p
    <3>1. Len(x) - 1 = Len(y) BY <2>2
    <3> QED BY <3>1 DEF Front, p
  <2> HIDE DEF X
  <2> QED BY <2>1, <2>2, <2>3, <2>8, <2>9
<1>3. ASSUME NEW x \in X, NEW w \in W PROVE KaraokeWord(x, w) \in X
  <2>1. CASE x # << >> /\ Width(Append(Last(x), w)) <= LineWidth
    <3>1. Front(x) \in X /\ Append(Last(x), w) \in Seq(W) BY <1>2, <2>1, AppendProperties
    <3>2. Append(Front(x), Append(Last(x), w)) \in X BY <3>1, AppendProperties
    <3> QED BY <2>1, <3>2 DEF KaraokeWord
  <2>2. CASE ~(x # << >> /\ Width(Append(Last(x), w)) <= LineWidth)
    <3>1. <<w>> \in Seq(W) OBVIOUS
    <3>2. Append(x, <<w>>) \in X BY <3>1, AppendProperties
    <3> QED BY <2>2, <3>2 DEF KaraokeWord
  <2> QED BY <2>1, <2>2
<1>4. \E f : f = Body(f)
  <2> DEFINE step == [i \in 1..n |-> [x \in X |-> KaraokeWord(x, s[i])]]
  <2>1. step \in [1..n -> [X -> X]] /\ \A i \in 1..n, x \in X : step[i][x] = KaraokeWord(x, s[i])
    <3> HIDE DEF X, n
    <3> QED BY <1>0, <1>3
  <2> HIDE DEF X, step, n
  <2>2. PICK f \in [0..n -> X] : Stepwise(f, << >>, step, n) BY <1>0, <1>1, <2>1, Recursion
  <2>3. f[0] = << >> /\ \A k \in 1..n : f[k] = step[k][f[k - 1]] BY <2>2 DEF Stepwise
  <2>4. \A k \in 1..n : f[k] = KaraokeWord(f[k - 1], s[k])
    <3>1. \A k \in 1..n : f[k - 1] \in X BY <1>0
    <3> QED BY <1>0, <2>1, <2>3, <3>1
  <2>5. \A k \in 0..n : f[k] = IF k = 0 THEN << >> ELSE KaraokeWord(f[k - 1], s[k])
    <3>1. \A k \in 0..n : k # 0 => k \in 1..n BY <1>0
    <3> QED BY <2>3, <2>4, <3>1
  <2>6. f = Body(f) BY <2>5
  <2> HIDE DEF Body
  <2> QED BY <2>6
<1>5. lines = Body(lines)
  <2> HIDE DEF Body
  <2> QED BY <1>4
<1>6. lines[0] = << >> /\ \A k \in 1..n : lines[k] = KaraokeWord(lines[k - 1], s[k])
  <2> HIDE DEF lines, n
  <2> QED BY <1>0, <1>5
<1>7. KaraokeLines(s) = lines[n] BY DEF KaraokeLines
<1>8. Held(<< >>, 0)
  <2>1. Fit(<< >>) BY DEF Fit
  <2>2. SubSeq(s, 1, 0) = << >> BY SubSeqEmpty
  <2> QED BY <2>1, <2>2, FlattenEmpty
<1>9. ASSUME NEW k \in 1..n, NEW x \in X, Held(x, k - 1) PROVE Held(KaraokeWord(x, s[k]), k)
  <2> DEFINE w == s[k]
             y == KaraokeWord(x, w)
  <2>1. w \in W /\ <<w>> \in Seq(W) /\ SubSeq(s, 1, k) = SubSeq(s, 1, k - 1) \o <<w>>
    BY <1>0, PrefixStep
  <2>2. FlattenSeq(x) \in Seq(W) /\ FlattenSeq(x) \o <<w>> = SubSeq(s, 1, k)
    <3>1. FlattenSeq(x) \in Seq(W) BY <2>1, FlattenAppend
    <3> QED BY <1>9, <2>1, <3>1
  <2>3. y = KaraokeWord(x, s[k]) OBVIOUS
  <2>4. Fit(x) BY <1>9
  <2> HIDE DEF w
  <2>5. SUFFICES Held(y, k)
    <3> HIDE DEF y, Held
    <3> QED BY <2>3
  <2>6. CASE x # << >> /\ Width(Append(Last(x), w)) <= LineWidth
    <3> DEFINE p == Front(x)
               q == Last(x)
    <3>1. p \in X /\ q \in Seq(W) /\ x = Append(p, q) /\ Len(p) = Len(x) - 1 /\ Len(x) \in Nat \ {0}
          /\ \A j \in 1..Len(p) : p[j] = x[j]
      BY <1>2, <2>6
    <3>2. y = Append(p, Append(q, w)) BY <2>6 DEF KaraokeWord
    <3> HIDE DEF p, q, y
    <3>3. Append(q, w) \in Seq(W) /\ Append(q, w) = q \o <<w>>
      BY <2>1, <3>1, AppendProperties, AppendIsConcat
    <3>4. /\ FlattenSeq(p) \in Seq(W) /\ FlattenSeq(x) = FlattenSeq(p) \o q
          /\ FlattenSeq(y) = FlattenSeq(p) \o (q \o <<w>>)
      <4>1. FlattenSeq(p) \in Seq(W) /\ FlattenSeq(Append(p, q)) = FlattenSeq(p) \o q
        BY <3>1, FlattenAppend
      <4>2. FlattenSeq(Append(p, Append(q, w))) = FlattenSeq(p) \o Append(q, w)
        BY <3>1, <3>3, FlattenAppend
      <4> QED BY <3>1, <3>2, <3>3, <4>1, <4>2
    <3>5. (FlattenSeq(p) \o q) \o <<w>> = FlattenSeq(p) \o (q \o <<w>>)
      <4>1. FlattenSeq(p) \in Seq(W) /\ q \in Seq(W) /\ <<w>> \in Seq(W) BY <2>1, <3>1, <3>4
      <4> DEFINE a == FlattenSeq(p)
                 c == <<w>>
      <4>2. a \in Seq(W) /\ c \in Seq(W) BY <4>1
      <4> HIDE DEF a, c, X, Body, lines, Held
      <4>3. (a \o q) \o c = a \o (q \o c) BY <4>1, <4>2, Associative, SMTT(60)
      <4> QED BY <4>3 DEF a, c
    <3>6. FlattenSeq(y) = SubSeq(s, 1, k) BY <2>2, <3>4, <3>5
    <3>7. Fit(p)
      <4>1. \A j \in 1..Len(p) : j \in 1..Len(x) BY <3>1
      <4> QED BY <2>4, <3>1, <4>1 DEF Fit
    <3>8. Width(Append(q, w)) <= LineWidth BY <2>6 DEF q
    <3>9. Fit(y) BY <3>1, <3>2, <3>3, <3>7, <3>8, FitAppend
    <3> QED BY <3>6, <3>9
  <2>7. CASE ~(x # << >> /\ Width(Append(Last(x), w)) <= LineWidth)
    <3>1. y = Append(x, <<w>>) BY <2>7 DEF KaraokeWord
    <3> HIDE DEF y
    <3>2. FlattenSeq(y) = SubSeq(s, 1, k) BY <2>1, <2>2, <3>1, FlattenAppend
    <3>3. Fit(y) BY <2>1, <2>4, <3>1, FitAppend, OneWordFits
    <3> QED BY <3>2, <3>3
  <2> QED BY <2>6, <2>7
<1> DEFINE S == {k \in 0..n : lines[k] \in X /\ Held(lines[k], k)}
<1>10. 0 \in S
  <2> HIDE DEF lines, n, X, Held
  <2> QED BY <1>0, <1>1, <1>6, <1>8
<1>11. ASSUME NEW k \in 1..n, k - 1 \in S PROVE k \in S
  <2> HIDE DEF lines, n, X, Held
  <2>1. lines[k - 1] \in X /\ Held(lines[k - 1], k - 1) BY <1>11
  <2>2. lines[k] = KaraokeWord(lines[k - 1], s[k]) BY <1>6
  <2>3. lines[k] \in X BY <1>0, <1>3, <2>1, <2>2
  <2>4. Held(lines[k], k) BY <1>9, <2>1, <2>2
  <2> QED BY <2>3, <2>4
<1>12. Held(lines[n], n)
  <2> HIDE DEF S, n
  <2>1. 0..n \subseteq S BY <1>0, <1>10, <1>11, UpTo
  <2>2. n \in S BY <1>0, <2>1
  <2> HIDE DEF lines, X, Held
  <2> QED BY <2>2 DEF S
<1> QED BY <1>7, <1>12, SubSeqFull

-----------------------------------------------------------------------------
(* The row and the file.                                                   *)

Rendering == {"saved", "drawn", "assembled", "decorated", "encoded", "failed"}

RowInv ==
  /\ row = [status |-> row.status, duration |-> row.duration]
  /\ phase \in Rendering => row.status = "GENERATING"
  /\ phase = "encoded" => file = film.length
  /\ CompleteMatchesFile

\* The row is committed as GENERATING before the file is touched.
LEMMA RowStep == RowInv /\ [Next]_vars => RowInv'
<1> SUFFICES ASSUME RowInv, [Next]_vars PROVE RowInv' OBVIOUS
<1>1. CASE ResolveAudio BY <1>1 DEF ResolveAudio, RowInv, CompleteMatchesFile, Rendering
<1>2. CASE Align BY <1>2 DEF Align, RowInv, CompleteMatchesFile, Rendering
<1>3. CASE Whisper BY <1>3 DEF Whisper, RowInv, CompleteMatchesFile, Rendering
<1>4. CASE Sidecar BY <1>4 DEF Sidecar, RowInv, CompleteMatchesFile, Rendering
<1>5. CASE Illustrate BY <1>5 DEF Illustrate, RowInv, CompleteMatchesFile, Rendering
<1>6. CASE Save
  <2>1. row' = [status |-> "GENERATING", duration |-> row.duration] /\ phase' = "saved"
    BY <1>6 DEF Save, RowInv
  <2> QED BY <2>1 DEF RowInv, CompleteMatchesFile
<1>7. CASE DrawCards BY <1>7 DEF DrawCards, RowInv, CompleteMatchesFile, Rendering
<1>8. CASE Assemble BY <1>8 DEF Assemble, RowInv, CompleteMatchesFile, Rendering
<1>9. CASE Decorate BY <1>9 DEF Decorate, RowInv, CompleteMatchesFile, Rendering
<1>10. CASE Encode BY <1>10 DEF Encode, RowInv, CompleteMatchesFile, Rendering
<1>11. CASE RenderFails BY <1>11 DEF RenderFails, RowInv, CompleteMatchesFile, Rendering
<1>12. CASE MarkComplete
  <2>1. row' = [status |-> "COMPLETE", duration |-> film.length] /\ file' = file /\ phase' = "idle"
        /\ file = film.length
    BY <1>12 DEF MarkComplete, Return, RowInv
  <2> QED BY <2>1 DEF RowInv, CompleteMatchesFile, Rendering
<1>13. CASE MarkFailed
  <2>1. row' = [status |-> "FAILED", duration |-> row.duration] /\ file' = file /\ phase' = "idle"
    BY <1>13 DEF MarkFailed, Return, RowInv
  <2> QED BY <2>1 DEF RowInv, CompleteMatchesFile, Rendering
<1>14. CASE Die BY <1>14 DEF Die, Return, RowInv, CompleteMatchesFile, Rendering
<1>15. CASE UNCHANGED vars BY <1>15 DEF vars, RowInv, CompleteMatchesFile, Rendering
<1> QED BY <1>1, <1>2, <1>3, <1>4, <1>5, <1>6, <1>7, <1>8, <1>9, <1>10, <1>11, <1>12, <1>13,
           <1>14, <1>15 DEF Next, Work

-----------------------------------------------------------------------------
(* The words of a script.                                                  *)

Words == UNION {Range(s) : s \in Sentences}

\* A script is a non-empty sequence of sentences; only the empty script has an empty one.
LEMMA TextFacts ==
  ASSUME NEW t \in Texts
  PROVE  /\ Len(t) \in Nat \ {0} /\ t \in [1..Len(t) -> Seq(Words)]
         /\ t # << << >> >> => \A i \in 1..Len(t) : t[i] # << >>
<1>1. Sentences \subseteq Seq(Words) \ {<< >>} BY ScriptAssumption DEF Words
<1>2. CASE t = << << >> >>
  <2>0. << >> \in Seq(Words) BY EmptySeq
  <2>3. \A e \in Seq(Words) : <<e>> \in [1..1 -> Seq(Words)] /\ Len(<<e>>) = 1 OBVIOUS
  <2>1. Len(t) = 1 /\ t \in [1..1 -> Seq(Words)] BY <1>2, <2>0, <2>3, Zenon
  <2> QED BY <1>2, <2>1
<1>3. CASE t # << << >> >>
  <2>1. PICK n \in 1..MaxSentences : t \in [1..n -> Sentences] BY <1>3 DEF Texts
  <2>2. n \in Nat \ {0} BY RenderAssumption
  <2>3. Len(t) = n BY <2>1, <2>2
  <2> QED BY <1>1, <2>1, <2>2, <2>3
<1> QED BY <1>2, <1>3

\* The words before sentence i of a script.
Before(t, i) == Len(FlattenSeq(SubSeq(t, 1, i - 1)))

\* pos[i] words up to sentence i, which has its place in the flattened script.
Places(t, n, pos) ==
  /\ pos[0] = 0 /\ pos[n] = Len(FlattenSeq(t))
  /\ \A i \in 1..n : pos[i] = pos[i - 1] + Len(t[i]) /\ Before(t, i) = pos[i - 1]
  /\ \A i \in 1..n : \A k \in 1..Len(t[i]) : FlattenSeq(t)[pos[i - 1] + k] = t[i][k]

\* Where the words of a script are in the flattened script.
LEMMA Positions ==
  ASSUME NEW W, NEW n \in Nat, NEW t \in [1..n -> Seq(W)]
  PROVE  /\ FlattenSeq(t) \in Seq(W)
         /\ \E pos \in [0..n -> Nat] : Places(t, n, pos)
<1>1. PICK flat \in [0..n -> Seq(W)] :
        /\ flat[0] = << >> /\ \A i \in 1..n : flat[i] = flat[i - 1] \o t[i]
        /\ \A i \in 0..n : FlattenSeq(SubSeq(t, 1, i)) = flat[i]
        /\ FlattenSeq(t) = flat[n]
  BY PartialFlats
<1> DEFINE pos == [i \in 0..n |-> Len(flat[i])]
<1>2. \A i \in 0..n : flat[i] \in Seq(W) /\ pos[i] = Len(flat[i]) /\ Len(flat[i]) \in Nat BY LenProperties
<1>3. pos \in [0..n -> Nat] BY <1>2
<1>4. 0 \in 0..n /\ n \in 0..n /\ Len(<< >>) = 0 OBVIOUS
<1>5. pos[0] = 0 /\ pos[n] = Len(FlattenSeq(t)) BY <1>1, <1>2, <1>4
<1> HIDE DEF pos
<1>6. ASSUME NEW i \in 1..n
      PROVE  /\ i - 1 \in 0..n /\ i \in 0..n /\ t[i] \in Seq(W) /\ Len(t[i]) \in Nat
             /\ pos[i] = pos[i - 1] + Len(t[i]) /\ Before(t, i) = pos[i - 1]
             /\ \A k \in 1..pos[i - 1] : flat[i][k] = flat[i - 1][k]
             /\ \A k \in 1..Len(t[i]) : flat[i][pos[i - 1] + k] = t[i][k]
  <2>1. i - 1 \in 0..n /\ i \in 0..n /\ t[i] \in Seq(W) OBVIOUS
  <2> DEFINE p == flat[i - 1]
             q == t[i]
  <2>2. p \in Seq(W) /\ q \in Seq(W) /\ flat[i] = p \o q /\ pos[i - 1] = Len(p) /\ pos[i] = Len(flat[i])
    BY <1>1, <1>2, <2>1
  <2>3. Before(t, i) = pos[i - 1] BY <1>1, <1>2, <2>1 DEF Before
  <2> HIDE DEF p, q
  <2>4. /\ Len(p \o q) = Len(p) + Len(q) /\ Len(p) \in Nat /\ Len(q) \in Nat
        /\ \A k \in 1..Len(p) + Len(q) : (p \o q)[k] = IF k <= Len(p) THEN p[k] ELSE q[k - Len(p)]
    BY <2>2, ConcatProperties, LenProperties
  <2>5. \A k \in 1..Len(p) : (p \o q)[k] = p[k] BY <2>4
  <2>6. ASSUME NEW k \in 1..Len(q) PROVE (p \o q)[Len(p) + k] = q[k]
    <3>1. Len(p) + k \in 1..Len(p) + Len(q) /\ ~(Len(p) + k <= Len(p)) /\ Len(p) + k - Len(p) = k
      BY <2>4
    <3> QED BY <2>4, <3>1
  <2> QED BY <2>1, <2>2, <2>3, <2>4, <2>5, <2>6 DEF p, q
<1>7. ASSUME NEW i \in 1..n, NEW k \in 1..Len(t[i]) PROVE flat[n][pos[i - 1] + k] = t[i][k]
  <2> DEFINE at == pos[i - 1] + k
             S == {j \in 0..n : i <= j => pos[i] <= pos[j] /\ flat[j][at] = t[i][k]}
  <2>0. i - 1 \in 0..n /\ i \in 0..n /\ pos[i - 1] \in Nat /\ pos[i] \in Nat /\ at \in 1..pos[i]
    BY <1>3, <1>6
  <2>1. 0 \in S OBVIOUS
  <2>2. ASSUME NEW j \in 1..n, j - 1 \in S PROVE j \in S
    <3>1. CASE i > j BY <3>1
    <3>2. CASE i = j BY <1>6, <2>0, <3>2
    <3>3. CASE i < j
      <4>1. pos[i] <= pos[j - 1] /\ flat[j - 1][at] = t[i][k] BY <2>2, <3>3
      <4>2. j - 1 \in 0..n /\ j \in 0..n /\ pos[j - 1] \in Nat /\ pos[j] \in Nat /\ Len(t[j]) \in Nat
            /\ pos[j] = pos[j - 1] + Len(t[j])
        BY <1>3, <1>6
      <4> HIDE DEF at
      <4>3. at \in 1..pos[j - 1]
        <5>1. at \in Int /\ 1 <= at /\ at <= pos[i] /\ pos[i] <= pos[j - 1] BY <2>0, <4>1
        <5>2. pos[i] \in Int /\ pos[j - 1] \in Int BY <2>0, <4>2
        <5>3. \A x, y, z \in Int : 1 <= x /\ x <= y /\ y <= z => x \in 1..z OBVIOUS
        <5> QED BY <5>1, <5>2, <5>3
      <4>4. flat[j][at] = flat[j - 1][at] BY <1>6, <4>3
      <4>5. pos[i] <= pos[j] BY <2>0, <4>1, <4>2
      <4>6. flat[j][at] = t[i][k] BY <4>1, <4>4
      <4> QED BY <4>2, <4>5, <4>6
    <3> QED BY <3>1, <3>2, <3>3
  <2> HIDE DEF S
  <2>3. 0..n \subseteq S BY <2>1, <2>2, UpTo
  <2>4. n \in S BY <1>4, <2>3
  <2> QED BY <2>4 DEF S
<1>8. FlattenSeq(t) \in Seq(W) BY <1>1, <1>2, <1>4
<1>9. \A i \in 1..n : pos[i] = pos[i - 1] + Len(t[i]) /\ Before(t, i) = pos[i - 1] BY <1>6
<1>10. \A i \in 1..n : \A k \in 1..Len(t[i]) : FlattenSeq(t)[pos[i - 1] + k] = t[i][k] BY <1>1, <1>7
<1>11. Places(t, n, pos) BY <1>5, <1>9, <1>10 DEF Places
<1> QED BY <1>3, <1>8, <1>11

-----------------------------------------------------------------------------
(* What is spoken, and what is heard.                                      *)

HeardWord == [word : Words \cup {Noise}, start : Nat, end : Nat]

\* The words of the script, at a steady beat.
LEMMA SpokenFacts ==
  ASSUME text \in Texts, audio.beat \in Nat
  PROVE  /\ FlattenSeq(text) \in Seq(Words) /\ Len(FlattenSeq(text)) \in Nat
         /\ Spoken \in Seq(HeardWord) /\ Len(Spoken) = Len(FlattenSeq(text))
         /\ \A k \in 1..Len(FlattenSeq(text)) :
              Spoken[k] = [word |-> FlattenSeq(text)[k], start |-> Lead + (k - 1) * audio.beat,
                           end |-> Lead + k * audio.beat]
<1>1. Len(text) \in Nat /\ text \in [1..Len(text) -> Seq(Words)] BY TextFacts
<1> DEFINE words == FlattenSeq(text)
           n == Len(words)
           e(k) == [word |-> words[k], start |-> Lead + (k - 1) * audio.beat,
                    end |-> Lead + k * audio.beat]
<1>2. words \in Seq(Words) BY <1>1, Positions
<1>3. n \in Nat /\ \A k \in 1..n : words[k] \in Words BY <1>2, LenProperties
<1>4. Spoken = [k \in 1..n |-> e(k)] BY DEF Spoken
<1>5. ASSUME NEW k \in 1..n PROVE e(k) \in HeardWord
  <2>1. Lead \in Nat BY RenderAssumption
  <2>2. k - 1 \in Nat /\ k \in Nat BY <1>3
  <2>3. (k - 1) * audio.beat \in Nat /\ k * audio.beat \in Nat BY <2>2
  <2>4. Lead + (k - 1) * audio.beat \in Nat /\ Lead + k * audio.beat \in Nat BY <2>1, <2>3
  <2> HIDE DEF words, n
  <2> QED BY <1>3, <2>4 DEF HeardWord
<1> HIDE DEF words, n, e
<1>6. Spoken \in [1..n -> HeardWord] BY <1>4, <1>5
<1>7. Spoken \in Seq(HeardWord) /\ Len(Spoken) = n BY <1>3, <1>6
<1>8. \A k \in 1..n : Spoken[k] = e(k) BY <1>4
<1> QED BY <1>2, <1>3, <1>7, <1>8 DEF words, n, e

\* Whatever is heard is a sequence of words with times.
LEMMA HeardTyped ==
  ASSUME text \in Texts, audio.beat \in Nat, NEW h \in Heard
  PROVE  h \in Seq(HeardWord)
<1> DEFINE s == Spoken
           n == Len(s)
           Mis(k) == [s EXCEPT ![k].word = Noise]
           Half(k) == [s[k] EXCEPT !.word = Noise]
<1>1. s \in Seq(HeardWord) BY SpokenFacts
<1>2. n \in Nat /\ \A k \in 1..n : s[k] \in HeardWord BY <1>1, LenProperties
<1>3. \/ h = s \/ \E k \in 1..n : h = RemoveAt(s, k) \/ h = Mis(k) \/ h = InsertAt(Mis(k), k, Half(k))
  BY DEF Heard
<1> HIDE DEF s
<1>4. ASSUME NEW k \in 1..n
      PROVE  Half(k) \in HeardWord /\ Mis(k) \in Seq(HeardWord) /\ Len(Mis(k)) = n
  <2>1. Half(k) \in HeardWord BY <1>2 DEF HeardWord
  <2>2. Mis(k) = [s EXCEPT ![k] = Half(k)] OBVIOUS
  <2> HIDE DEF Half, Mis
  <2> QED BY <1>1, <2>1, <2>2, ExceptSeq
<1>5. ASSUME NEW u \in Seq(HeardWord), NEW i \in Int, NEW j \in Int, 1 <= i, j <= Len(u)
      PROVE  SubSeq(u, i, j) \in Seq(HeardWord)
  <2>1. \A k \in i..j : u[k] \in HeardWord BY <1>5, LenProperties
  <2> QED BY <2>1, SubSeqProperties
<1>6. ASSUME NEW k \in 1..n PROVE RemoveAt(s, k) \in Seq(HeardWord)
  <2>1. k - 1 \in Int /\ k + 1 \in Int /\ k - 1 <= n /\ 1 <= k + 1 /\ n <= n BY <1>2
  <2>2. SubSeq(s, 1, k - 1) \in Seq(HeardWord) /\ SubSeq(s, k + 1, n) \in Seq(HeardWord)
    BY <1>1, <1>2, <1>5, <2>1
  <2> QED BY <2>2, ConcatProperties DEF RemoveAt
<1>7. ASSUME NEW k \in 1..n PROVE InsertAt(Mis(k), k, Half(k)) \in Seq(HeardWord)
  <2> DEFINE u == Mis(k)
             e == Half(k)
  <2>1. u \in Seq(HeardWord) /\ e \in HeardWord /\ Len(u) = n BY <1>4
  <2>2. k - 1 \in Int /\ k \in Int /\ k - 1 <= n /\ 1 <= k /\ n <= n BY <1>2
  <2> HIDE DEF u, e
  <2>3. SubSeq(u, 1, k - 1) \in Seq(HeardWord) /\ SubSeq(u, k, Len(u)) \in Seq(HeardWord)
    BY <1>2, <1>5, <2>1, <2>2
  <2>4. <<e>> \in Seq(HeardWord) BY <2>1
  <2>5. SubSeq(u, 1, k - 1) \o <<e>> \in Seq(HeardWord) BY <2>3, <2>4, ConcatProperties
  <2>6. InsertAt(u, k, e) \in Seq(HeardWord) BY <2>3, <2>5, ConcatProperties DEF InsertAt
  <2> QED BY <2>6 DEF u, e
<1> HIDE DEF n, Mis, Half
<1> QED BY <1>1, <1>3, <1>4, <1>6, <1>7

\* The match starts at the cursor or later, among the heard words.
LEMMA BestMatchIn ==
  ASSUME NEW heard \in Seq(HeardWord), NEW s \in Seq(Words), s # << >>,
         NEW from \in Nat \ {0}, from + Probe(s) - 1 <= Len(heard)
  PROVE  BestMatch(s, heard, from) \in from..Len(heard)
<1> DEFINE hits(p) == Cardinality({j \in 1..Probe(s) : heard[p + j - 1].word = s[j]})
           good == {p \in from..(Len(heard) - Len(s) + 1) : hits(p) >= AtLeast(2, Probe(s))}
<1>1. Len(heard) \in Nat /\ Len(s) \in Nat \ {0} BY LenProperties, EmptySeq
<1>2. Probe(s) \in Nat \ {0} BY <1>1 DEF Probe, AtMost
<1>3. from \in from..Len(heard) BY <1>1, <1>2
<1>4. good \subseteq from..Len(heard) /\ good \subseteq 1..Len(heard)
  <2>1. \A p \in from..(Len(heard) - Len(s) + 1) : p \in from..Len(heard) /\ p \in 1..Len(heard)
    BY <1>1
  <2> QED BY <2>1
<1>5. BestMatch(s, heard, from) = IF good = {} THEN from ELSE Min(good) BY DEF BestMatch
<1> HIDE DEF good
<1>6. CASE good = {} BY <1>3, <1>5, <1>6
<1>7. CASE good # {}
  <2>1. Min(good) \in good BY <1>1, <1>4, <1>7, MinExists
  <2> QED BY <1>4, <1>5, <1>7, <2>1
<1> QED BY <1>6, <1>7

\* A sentence that is heard in full at the cursor is matched there.
LEMMA BestMatchExact ==
  ASSUME NEW heard \in Seq(HeardWord), NEW s \in Seq(Words), s # << >>,
         NEW from \in Nat \ {0}, from + Len(s) - 1 <= Len(heard),
         \A j \in 1..Len(s) : heard[from + j - 1].word = s[j]
  PROVE  BestMatch(s, heard, from) = from
<1> DEFINE hit(p) == {j \in 1..Probe(s) : heard[p + j - 1].word = s[j]}
           good == {p \in from..(Len(heard) - Len(s) + 1) : Cardinality(hit(p)) >= AtLeast(2, Probe(s))}
<1>1. Len(heard) \in Nat /\ Len(s) \in Nat \ {0} BY LenProperties, EmptySeq
<1>2. Probe(s) \in Nat \ {0} /\ Probe(s) <= Len(s) BY <1>1 DEF Probe, AtMost
<1>3. BestMatch(s, heard, from) = IF good = {} THEN from ELSE Min(good) BY DEF BestMatch
<1>4. CASE Probe(s) = 1
  <2>1. ASSUME NEW p \in from..(Len(heard) - Len(s) + 1) PROVE ~(Cardinality(hit(p)) >= AtLeast(2, Probe(s)))
    <3>0. 1..1 = {1} OBVIOUS
    <3>5. IsFiniteSet({1}) /\ Cardinality({1}) = 1 BY FS_Singleton, Zenon
    <3>1. IsFiniteSet(1..1) /\ Cardinality(1..1) = 1 BY <3>0, <3>5
    <3>2. hit(p) \subseteq 1..1 BY <1>4
    <3> HIDE DEF hit
    <3>3. Cardinality(hit(p)) <= 1 /\ Cardinality(hit(p)) \in Nat
      BY <3>1, <3>2, FS_Subset, FS_CardinalityType
    <3>4. AtLeast(2, Probe(s)) = 2 BY <1>4 DEF AtLeast
    <3> QED BY <3>3, <3>4
  <2>2. good = {} BY <2>1
  <2> HIDE DEF good
  <2> QED BY <1>3, <2>2
<1>5. CASE Probe(s) # 1
  <2>1. hit(from) = 1..Probe(s)
    <3>1. \A j \in 1..Probe(s) : j \in 1..Len(s) BY <1>1, <1>2
    <3>2. \A j \in 1..Probe(s) : heard[from + j - 1].word = s[j] BY <3>1
    <3> QED BY <3>2
  <2>2. Cardinality(hit(from)) = Probe(s)
    <3> HIDE DEF hit
    <3>1. Cardinality(1..Probe(s)) = Probe(s) BY <1>2, FS_Interval
    <3> QED BY <2>1, <3>1
  <2>3. AtLeast(2, Probe(s)) = Probe(s) BY <1>2, <1>5 DEF AtLeast
  <2>4. from \in from..(Len(heard) - Len(s) + 1) BY <1>1
  <2> HIDE DEF hit
  <2>5. Cardinality(hit(from)) >= AtLeast(2, Probe(s)) BY <1>2, <2>2, <2>3
  <2>6. from \in good /\ good \in SUBSET Int /\ \A p \in good : from <= p BY <1>1, <2>4, <2>5
  <2> HIDE DEF good
  <2>7. Min(good) = from BY <2>6, MinIs
  <2> QED BY <1>3, <2>6, <2>7
<1> QED BY <1>4, <1>5

-----------------------------------------------------------------------------
(* Whisper's transcription.                                                *)

Stamp == [start : Nat, end : Nat]
Matched == [ok : BOOLEAN, from : Nat \ {0}, stamps : Seq(Stamp), words : Seq(Seq(HeardWord))]

\* One more sentence leaves stamps and words that can be read.
LEMMA MatchTyped ==
  ASSUME NEW heard \in Seq(HeardWord), NEW acc \in Matched, NEW s \in Seq(Words)
  PROVE  MatchSentence(heard, acc, s) \in Matched
<1> DEFINE best == BestMatch(s, heard, acc.from)
           last == AtMost(best + Len(s) - 1, Len(heard))
           next == [ok |-> TRUE, from |-> last + 1,
                    stamps |-> Append(acc.stamps, [start |-> heard[best].start, end |-> heard[last].end]),
                    words |-> Append(acc.words, SubSeq(heard, best, last))]
<1>1. /\ acc.ok \in BOOLEAN /\ acc.from \in Nat \ {0} /\ acc.stamps \in Seq(Stamp)
      /\ acc.words \in Seq(Seq(HeardWord))
  BY DEF Matched
<1>2. [acc EXCEPT !.words = Append(@, << >>)] \in Matched
  <2>1. << >> \in Seq(HeardWord) BY EmptySeq
  <2>2. Append(acc.words, << >>) \in Seq(Seq(HeardWord)) BY <1>1, <2>1, AppendProperties
  <2> QED BY <2>2 DEF Matched
<1>3. [acc EXCEPT !.ok = FALSE] \in Matched BY DEF Matched
<1>4. ASSUME s # << >>, ~(acc.from + Probe(s) - 1 > Len(heard)) PROVE next \in Matched
  <2>1. Len(heard) \in Nat /\ Len(s) \in Nat \ {0} BY <1>4, LenProperties, EmptySeq
  <2>2. Probe(s) \in Nat \ {0} BY <2>1 DEF Probe, AtMost
  <2>3. acc.from + Probe(s) - 1 <= Len(heard) BY <1>1, <1>4, <2>1, <2>2
  <2>4. best \in acc.from..Len(heard) BY <1>1, <1>4, <2>3, BestMatchIn
  <2> HIDE DEF best
  <2>5. best \in 1..Len(heard) BY <1>1, <2>1, <2>4
  <2>6. last \in best..Len(heard) BY <2>1, <2>5 DEF AtMost
  <2> HIDE DEF last
  <2>7. last \in 1..Len(heard) /\ last + 1 \in Nat \ {0} BY <2>1, <2>5, <2>6
  <2>8. heard[best] \in HeardWord /\ heard[last] \in HeardWord BY <2>5, <2>7, LenProperties
  <2>9. [start |-> heard[best].start, end |-> heard[last].end] \in Stamp BY <2>8 DEF HeardWord, Stamp
  <2>10. SubSeq(heard, best, last) \in Seq(HeardWord)
    <3>1. \A k \in best..last : k \in 1..Len(heard) BY <2>1, <2>5, <2>6
    <3>2. \A k \in best..last : heard[k] \in HeardWord BY <3>1, LenProperties
    <3>3. best \in Int /\ last \in Int BY <2>5, <2>7
    <3> QED BY <3>2, <3>3, SubSeqProperties
  <2>11. /\ Append(acc.stamps, [start |-> heard[best].start, end |-> heard[last].end]) \in Seq(Stamp)
         /\ Append(acc.words, SubSeq(heard, best, last)) \in Seq(Seq(HeardWord))
    BY <1>1, <2>9, <2>10, AppendProperties
  <2> QED BY <2>7, <2>11 DEF Matched
<1>5. \/ MatchSentence(heard, acc, s) = acc
      \/ MatchSentence(heard, acc, s) = [acc EXCEPT !.words = Append(@, << >>)]
      \/ MatchSentence(heard, acc, s) = [acc EXCEPT !.ok = FALSE]
      \/ /\ s # << >> /\ ~(acc.from + Probe(s) - 1 > Len(heard))
         /\ MatchSentence(heard, acc, s) = next
  BY DEF MatchSentence
<1> HIDE DEF next
<1> QED BY <1>2, <1>3, <1>4, <1>5

\* A transcription is the last of its partial results.
LEMMA Transcribed ==
  ASSUME NEW n \in Nat, NEW t \in [1..n -> Seq(Words)], NEW heard \in Seq(HeardWord)
  PROVE  \E acc \in [0..n -> Matched] :
           /\ acc[0] = [ok |-> heard # << >>, from |-> 1, stamps |-> << >>, words |-> << >>]
           /\ \A i \in 1..n : acc[i] = MatchSentence(heard, acc[i - 1], t[i])
           /\ Transcribe(t, heard) = acc[n]
<1> DEFINE x0 == [ok |-> heard # << >>, from |-> 1, stamps |-> << >>, words |-> << >>]
           Body(f) == [i \in 0..Len(t) |-> IF i = 0 THEN x0 ELSE MatchSentence(heard, f[i - 1], t[i])]
           matched == CHOOSE f : f = Body(f)
<1>0. Len(t) = n OBVIOUS
<1>1. x0 \in Matched
  <2>1. << >> \in Seq(Stamp) /\ << >> \in Seq(Seq(HeardWord)) BY EmptySeq
  <2> QED BY <2>1 DEF Matched
<1>2. \E f : f = Body(f)
  <2> DEFINE step == [i \in 1..n |-> [x \in Matched |-> MatchSentence(heard, x, t[i])]]
  <2>1. step \in [1..n -> [Matched -> Matched]]
        /\ \A i \in 1..n, x \in Matched : step[i][x] = MatchSentence(heard, x, t[i])
    BY MatchTyped
  <2> HIDE DEF step, x0
  <2>2. PICK f \in [0..n -> Matched] : Stepwise(f, x0, step, n) BY <1>1, <2>1, Recursion
  <2>3. f[0] = x0 /\ \A i \in 1..n : f[i] = step[i][f[i - 1]] BY <2>2 DEF Stepwise
  <2>4. \A i \in 1..n : f[i] = MatchSentence(heard, f[i - 1], t[i])
    <3>1. \A i \in 1..n : f[i - 1] \in Matched OBVIOUS
    <3> QED BY <2>1, <2>3, <3>1
  <2>5. \A i \in 0..n : f[i] = IF i = 0 THEN x0 ELSE MatchSentence(heard, f[i - 1], t[i])
    <3>1. \A i \in 0..n : i # 0 => i \in 1..n OBVIOUS
    <3> QED BY <2>3, <2>4, <3>1
  <2>6. f = Body(f) BY <1>0, <2>5
  <2> HIDE DEF Body
  <2> QED BY <2>6
<1>3. matched = Body(matched)
  <2> HIDE DEF Body
  <2> QED BY <1>2
<1>4. /\ matched[0] = x0 /\ \A i \in 1..n : matched[i] = MatchSentence(heard, matched[i - 1], t[i])
      /\ matched = [i \in 0..n |-> matched[i]]
  <2> HIDE DEF matched, x0
  <2> QED BY <1>0, <1>3
<1>5. Transcribe(t, heard) = matched[n] BY <1>0 DEF Transcribe
<1> DEFINE S == {i \in 0..n : matched[i] \in Matched}
<1> HIDE DEF matched
<1>6. 0 \in S BY <1>1, <1>4
<1>7. ASSUME NEW i \in 1..n, i - 1 \in S PROVE i \in S
  <2>1. matched[i - 1] \in Matched /\ t[i] \in Seq(Words) BY <1>7
  <2>2. matched[i] \in Matched BY <1>4, <2>1, MatchTyped
  <2> QED BY <2>2
<1> HIDE DEF S
<1>8. 0..n \subseteq S BY <1>6, <1>7, UpTo
<1>9. \A i \in 0..n : matched[i] \in Matched BY <1>8 DEF S
<1>10. matched \in [0..n -> Matched] BY <1>4, <1>9
<1> HIDE DEF Body
<1> QED BY <1>4, <1>5, <1>10

\* When Whisper hears what is spoken, every sentence gets its own words and their times.
LEMMA ExactTranscription ==
  ASSUME text \in Texts, text # << << >> >>, audio.beat \in Nat
  PROVE  LET r == Transcribe(text, Spoken) IN
         /\ r.ok /\ Len(r.stamps) = Len(text)
         /\ \A i \in 1..Len(text) :
              /\ r.stamps[i] = [start |-> Spoken[Before(text, i) + 1].start,
                                end |-> Spoken[Before(text, i) + Len(text[i])].end]
              /\ r.words[i] = SubSeq(Spoken, Before(text, i) + 1, Before(text, i) + Len(text[i]))
              /\ Len(text[i]) \in Nat \ {0} /\ Before(text, i) \in Nat
              /\ Before(text, i) + Len(text[i]) <= Len(Spoken)
              /\ i = Len(text) => Before(text, i) + Len(text[i]) = Len(Spoken)
              /\ \A j \in 1..Len(text) : i < j => Before(text, i) + Len(text[i]) <= Before(text, j)
              /\ i < Len(text) => Before(text, i + 1) = Before(text, i) + Len(text[i])
              /\ i = 1 => Before(text, i) = 0
<1> DEFINE n == Len(text)
           L == Len(Spoken)
<1>1. /\ n \in Nat \ {0} /\ text \in [1..n -> Seq(Words)] /\ \A i \in 1..n : text[i] # << >>
  BY TextFacts
<1>2. /\ Spoken \in Seq(HeardWord) /\ L = Len(FlattenSeq(text)) /\ L \in Nat
      /\ \A k \in 1..L : Spoken[k].word = FlattenSeq(text)[k]
  <2>1. /\ Spoken \in Seq(HeardWord) /\ L = Len(FlattenSeq(text)) /\ L \in Nat
        /\ \A k \in 1..L : Spoken[k] = [word |-> FlattenSeq(text)[k], start |-> Lead + (k - 1) * audio.beat,
                                        end |-> Lead + k * audio.beat]
    BY SpokenFacts
  <2> HIDE DEF L
  <2>2. ASSUME NEW k \in 1..L PROVE Spoken[k].word = FlattenSeq(text)[k]
    <3>1. k \in 1..Len(FlattenSeq(text)) BY <2>1
    <3>2. Spoken[k] = [word |-> FlattenSeq(text)[k], start |-> Lead + (k - 1) * audio.beat,
                       end |-> Lead + k * audio.beat]
      BY <2>1, <3>1
    <3> QED BY <3>2
  <2> QED BY <2>1, <2>2
<1> HIDE DEF n, L
<1>3. PICK pos \in [0..n -> Nat] :
        /\ pos[0] = 0 /\ pos[n] = L
        /\ \A i \in 1..n : pos[i] = pos[i - 1] + Len(text[i]) /\ Before(text, i) = pos[i - 1]
        /\ \A i \in 1..n : \A k \in 1..Len(text[i]) : FlattenSeq(text)[pos[i - 1] + k] = text[i][k]
  <2>1. n \in Nat /\ text \in [1..n -> Seq(Words)] BY <1>1
  <2>2. PICK pos \in [0..n -> Nat] : Places(text, n, pos) BY <2>1, Positions
  <2>3. pos[n] = L BY <1>2, <2>2 DEF Places
  <2> QED BY <2>2, <2>3 DEF Places
<1>4. ASSUME NEW i \in 1..n
      PROVE  /\ i - 1 \in 0..n /\ i \in 0..n /\ pos[i - 1] \in Nat /\ pos[i] \in Nat
             /\ text[i] \in Seq(Words) /\ text[i] # << >> /\ Len(text[i]) \in Nat \ {0}
             /\ pos[i] = pos[i - 1] + Len(text[i])
  <2>1. i - 1 \in 0..n /\ i \in 0..n BY <1>1
  <2>2. text[i] \in Seq(Words) /\ text[i] # << >> BY <1>1
  <2>3. Len(text[i]) \in Nat \ {0} BY <2>2, EmptySeq
  <2> QED BY <1>3, <2>1, <2>2, <2>3
<1>5. \A i, j \in 0..n : i <= j => pos[i] <= pos[j]
  <2>1. ASSUME NEW i \in 1..n PROVE pos[i - 1] <= pos[i]
    <3>1. pos[i - 1] \in Nat /\ Len(text[i]) \in Nat /\ pos[i] = pos[i - 1] + Len(text[i]) BY <1>4
    <3> QED BY <3>1
  <2>2. n \in Nat /\ pos \in [0..n -> Int] BY <1>1
  <2> QED BY <2>1, <2>2, Monotone
<1>6. \A i \in 0..n : pos[i] <= L BY <1>1, <1>3, <1>5
<1> DEFINE stamp(i) == [start |-> Spoken[pos[i - 1] + 1].start, end |-> Spoken[pos[i]].end]
           heardOf(i) == SubSeq(Spoken, pos[i - 1] + 1, pos[i])
           none == [ok |-> Spoken # << >>, from |-> 1, stamps |-> << >>, words |-> << >>]
<1>7. PICK acc \in [0..n -> Matched] :
        /\ acc[0] = none /\ \A i \in 1..n : acc[i] = MatchSentence(Spoken, acc[i - 1], text[i])
        /\ Transcribe(text, Spoken) = acc[n]
  <2>1. n \in Nat BY <1>1
  <2>2. text \in [1..n -> Seq(Words)] /\ Spoken \in Seq(HeardWord) BY <1>1, <1>2
  <2> QED BY <2>1, <2>2, Transcribed
<1> DEFINE Good(k) == /\ acc[k].ok /\ acc[k].from = pos[k] + 1
                      /\ Len(acc[k].stamps) = k /\ Len(acc[k].words) = k
                      /\ \A i \in 1..k : acc[k].stamps[i] = stamp(i) /\ acc[k].words[i] = heardOf(i)
           S == {k \in 0..n : Good(k)}
<1>8. 0 \in S
  <2>2. Spoken # << >>
    <3>1. 1 \in 1..n BY <1>1
    <3>2. pos[1] # 0 /\ pos[1] <= L BY <1>1, <1>4, <1>6, <3>1
    <3>3. L # 0 BY <1>2, <1>4, <3>1, <3>2
    <3> QED BY <3>3 DEF L
  <2>1. acc[0] = [ok |-> TRUE, from |-> 1, stamps |-> << >>, words |-> << >>] BY <1>7, <2>2
  <2>3. acc[0].ok /\ acc[0].from = 1 /\ acc[0].stamps = << >> /\ acc[0].words = << >> BY <2>1
  <2>4. pos[0] = 0 /\ 0 \in 0..n /\ Len(<< >>) = 0 /\ 1 = 0 + 1 BY <1>1, <1>3
  <2> HIDE DEF stamp, heardOf
  <2> QED BY <2>3, <2>4
<1>9. ASSUME NEW k \in 1..n, k - 1 \in S PROVE k \in S
  <2> DEFINE a == acc[k - 1]
             s == text[k]
             from == a.from
             last == AtMost(from + Len(s) - 1, Len(Spoken))
  <2>1. /\ a.ok /\ from = pos[k - 1] + 1 /\ Len(a.stamps) = k - 1 /\ Len(a.words) = k - 1
        /\ \A i \in 1..(k - 1) : a.stamps[i] = stamp(i) /\ a.words[i] = heardOf(i)
    <3> HIDE DEF stamp, heardOf
    <3> QED BY <1>9
  <2>2. /\ a \in Matched /\ s \in Seq(Words) /\ s # << >> /\ Len(s) \in Nat \ {0}
        /\ pos[k - 1] \in Nat /\ pos[k] \in Nat /\ pos[k] = pos[k - 1] + Len(s) /\ pos[k] <= L
    BY <1>4, <1>6, <1>7
  <2>3. acc[k] = MatchSentence(Spoken, a, s) BY <1>7
  <2>4. from \in Nat \ {0} /\ from + Len(s) - 1 = pos[k] /\ from + Len(s) - 1 <= Len(Spoken)
    <3> HIDE DEF a, s, from
    <3>1. from \in Nat \ {0} /\ from + Len(s) - 1 = pos[k] BY <2>1, <2>2
    <3>2. pos[k] <= Len(Spoken) BY <2>2 DEF L
    <3> QED BY <3>1, <3>2
  <2>5. \A j \in 1..Len(s) : Spoken[from + j - 1].word = s[j]
    <3> SUFFICES ASSUME NEW j \in 1..Len(s) PROVE Spoken[from + j - 1].word = s[j] OBVIOUS
    <3>2. FlattenSeq(text)[pos[k - 1] + j] = s[j] BY <1>3
    <3> HIDE DEF a, s, from, L
    <3>0. L \in Nat BY <1>2 DEF L
    <3>1. from + j - 1 = pos[k - 1] + j BY <2>1, <2>2
    <3>3. pos[k - 1] + j \in 1..L BY <3>0, <2>2
    <3> QED BY <1>2, <3>1, <3>2, <3>3 DEF L
  <2> HIDE DEF a, s, from
  <2>6. BestMatch(s, Spoken, from) = from BY <1>2, <2>2, <2>4, <2>5, BestMatchExact
  <2>7. last = pos[k] BY <1>2, <2>2, <2>4 DEF AtMost, L
  <2>8. ~(from + Probe(s) - 1 > Len(Spoken))
    <3>1. Probe(s) \in Nat /\ Probe(s) <= Len(s) BY <2>2 DEF Probe, AtMost
    <3>2. Len(Spoken) \in Nat BY <1>2 DEF L
    <3> QED BY <2>2, <2>4, <3>1, <3>2
  <2> HIDE DEF last
  <2>9. acc[k] = [ok |-> TRUE, from |-> last + 1,
                  stamps |-> Append(a.stamps, [start |-> Spoken[from].start, end |-> Spoken[last].end]),
                  words |-> Append(a.words, SubSeq(Spoken, from, last))]
    BY <2>1, <2>2, <2>3, <2>6, <2>8 DEF MatchSentence, last, from
  <2>10. [start |-> Spoken[from].start, end |-> Spoken[last].end] = stamp(k) /\ SubSeq(Spoken, from, last) = heardOf(k)
    BY <2>1, <2>7
  <2> HIDE DEF stamp, heardOf
  <2>11. a.stamps \in Seq(Stamp) /\ a.words \in Seq(Seq(HeardWord)) BY <2>2 DEF Matched
  <2>12. acc[k] \in Matched BY <1>7
  <2> DEFINE st == Append(a.stamps, stamp(k))
             wo == Append(a.words, heardOf(k))
  <2>13. acc[k].ok /\ acc[k].from = pos[k] + 1 /\ acc[k].stamps = st /\ acc[k].words = wo
    BY <2>7, <2>9, <2>10
  <2>14. stamp(k) \in Stamp /\ heardOf(k) \in Seq(HeardWord)
    <3>1. st \in Seq(Stamp) /\ wo \in Seq(Seq(HeardWord)) BY <2>12, <2>13 DEF Matched
    <3>2. st[Len(a.stamps) + 1] = stamp(k) /\ wo[Len(a.words) + 1] = heardOf(k)
          /\ Len(st) = Len(a.stamps) + 1 /\ Len(wo) = Len(a.words) + 1
      BY <2>11
    <3>3. k \in 1..k /\ Len(a.stamps) + 1 = k /\ Len(a.words) + 1 = k BY <2>1
    <3> HIDE DEF st, wo
    <3> QED BY <3>1, <3>2, <3>3, LenProperties
  <2>15. /\ Len(st) = k /\ Len(wo) = k /\ st[k] = stamp(k) /\ wo[k] = heardOf(k)
         /\ \A i \in 1..(k - 1) : st[i] = a.stamps[i] /\ wo[i] = a.words[i]
    <3>1. Len(a.stamps) + 1 = k /\ Len(a.words) + 1 = k BY <2>1
    <3> QED BY <2>1, <2>11, <2>14, <3>1, AppendProperties
  <2> HIDE DEF st, wo
  <2>16. ASSUME NEW i \in 1..k PROVE st[i] = stamp(i) /\ wo[i] = heardOf(i)
    <3>1. CASE i = k BY <2>15, <3>1
    <3>2. CASE i # k
      <4>1. i \in 1..(k - 1) BY <3>2
      <4> QED BY <2>1, <2>15, <4>1
    <3> QED BY <3>1, <3>2
  <2>17. k \in 0..n OBVIOUS
  <2> QED BY <2>13, <2>15, <2>16, <2>17
<1> HIDE DEF S
<1>10. 0..n \subseteq S
  <2>1. n \in Nat BY <1>1
  <2> QED BY <1>8, <1>9, <2>1, UpTo
<1>11. Good(n)
  <2>1. n \in S BY <1>1, <1>10
  <2> HIDE DEF Good
  <2> QED BY <2>1 DEF S
<1> DEFINE r == Transcribe(text, Spoken)
<1>12. ASSUME NEW i \in 1..n
       PROVE /\ r.stamps[i] = [start |-> Spoken[Before(text, i) + 1].start,
                               end |-> Spoken[Before(text, i) + Len(text[i])].end]
             /\ r.words[i] = SubSeq(Spoken, Before(text, i) + 1, Before(text, i) + Len(text[i]))
             /\ Len(text[i]) \in Nat \ {0} /\ Before(text, i) \in Nat
             /\ Before(text, i) + Len(text[i]) <= Len(Spoken)
             /\ i = n => Before(text, i) + Len(text[i]) = Len(Spoken)
             /\ \A j \in 1..n : i < j => Before(text, i) + Len(text[i]) <= Before(text, j)
             /\ i < n => Before(text, i + 1) = Before(text, i) + Len(text[i])
             /\ i = 1 => Before(text, i) = 0
  <2>1. Before(text, i) = pos[i - 1] /\ pos[i - 1] + Len(text[i]) = pos[i] BY <1>3
  <2>2. pos[i] <= Len(Spoken) /\ (i = n => pos[i] = Len(Spoken)) BY <1>3, <1>4, <1>6 DEF L
  <2>3. ASSUME NEW j \in 1..n, i < j PROVE pos[i] <= Before(text, j)
    <3>1. i \in 0..n /\ j - 1 \in 0..n /\ i <= j - 1 BY <1>4, <2>3
    <3> QED BY <1>3, <1>5, <3>1
  <2>4. i < n => Before(text, i + 1) = pos[i]
    <3> SUFFICES ASSUME i < n PROVE Before(text, i + 1) = pos[i] OBVIOUS
    <3>1. i + 1 \in 1..n /\ i + 1 - 1 = i BY <1>1
    <3> QED BY <1>3, <3>1
  <2>5. i = 1 => pos[i - 1] = 0 BY <1>3
  <2>6. r.stamps[i] = stamp(i) /\ r.words[i] = heardOf(i)
    <3> HIDE DEF stamp, heardOf
    <3> QED BY <1>7, <1>11
  <2> HIDE DEF r
  <2> QED BY <1>4, <2>1, <2>2, <2>3, <2>4, <2>5, <2>6
<1>13. r.ok /\ Len(r.stamps) = n BY <1>7, <1>11
<1> QED BY <1>12, <1>13 DEF n

-----------------------------------------------------------------------------
(* Cards.                                                                  *)

\* Sums of natural numbers.
LEMMA TotalNat ==
  ASSUME NEW n \in Nat, NEW s \in [1..n -> Nat]
  PROVE  /\ Total(s) \in Nat
         /\ n # 0 /\ (\A i \in 1..n : s[i] # 0) => Total(s) # 0
<1>1. s \in [1..n -> Int] OBVIOUS
<1>2. PICK sum \in [0..n -> Int] :
        /\ sum[0] = 0 /\ \A i \in 1..n : sum[i] = sum[i - 1] + s[i]
        /\ \A i \in 0..n : Total(SubSeq(s, 1, i)) = sum[i]
        /\ Total(s) = sum[n]
  BY <1>1, PartialSums
<1>3. ASSUME NEW i \in 1..n
      PROVE  sum[i - 1] \in Int /\ sum[i] \in Int /\ s[i] \in Nat /\ sum[i] = sum[i - 1] + s[i]
  <2>1. i - 1 \in 0..n /\ i \in 0..n OBVIOUS
  <2> QED BY <1>2, <2>1
<1>4. ASSUME NEW i \in 1..n PROVE sum[i - 1] <= sum[i] BY <1>3
<1>5. \A i, j \in 0..n : i <= j => sum[i] <= sum[j] BY <1>4, Monotone
<1>6. 0 \in 0..n /\ n \in 0..n /\ 0 <= n OBVIOUS
<1>7. sum[n] \in Nat BY <1>2, <1>5, <1>6
<1>8. ASSUME n # 0, \A i \in 1..n : s[i] # 0 PROVE sum[n] # 0
  <2>1. n \in 1..n BY <1>8
  <2>2. n - 1 \in 0..n /\ 0 <= n - 1 BY <1>8
  <2>3. 0 <= sum[n - 1] BY <1>2, <1>5, <1>6, <2>2
  <2>4. s[n] # 0 /\ s[n] \in Nat /\ sum[n - 1] \in Int /\ sum[n] = sum[n - 1] + s[n]
    BY <1>3, <1>8, <2>1
  <2> QED BY <2>3, <2>4
<1> QED BY <1>2, <1>7, <1>8

\* Sums of integers.
LEMMA TotalInt == ASSUME NEW n \in Nat, NEW s \in [1..n -> Int] PROVE Total(s) \in Int
<1>1. PICK sum \in [0..n -> Int] :
        /\ sum[0] = 0 /\ \A i \in 1..n : sum[i] = sum[i - 1] + s[i]
        /\ \A i \in 0..n : Total(SubSeq(s, 1, i)) = sum[i]
        /\ Total(s) = sum[n]
  BY PartialSums
<1>2. n \in 0..n OBVIOUS
<1> QED BY <1>1, <1>2

\* What whole-number division leaves.
LEMMA Remainder ==
  ASSUME NEW x \in Nat, NEW d \in Nat, d # 0
  PROVE  x % d \in 0..(d - 1) /\ x = d * (x \div d) + (x % d)
OBVIOUS

\* A multiple of a number divided by it.
LEMMA MulDiv == ASSUME NEW a \in Nat, NEW d \in Nat \ {0} PROVE (a * d) \div d = a
OBVIOUS

\* Products of natural numbers grow with their factors.
LEMMA MulMono == ASSUME NEW a \in Nat, NEW b \in Nat, NEW c \in Nat, a <= b
                 PROVE a * c \in Nat /\ b * c \in Nat /\ a * c <= b * c
OBVIOUS

\* The storyboard gives each sentence a duration.
LEMMA AlignTyped ==
  ASSUME NEW t \in Texts, NEW scenes \in SceneLengths, NEW i \in 1..Len(t)
  PROVE  AlignSentences(t, scenes)[i] \in Int
<1> DEFINE n == Len(t)
           m == Len(scenes)
           base == m \div n
           first(k) == (k - 1) * base + AtMost(k - 1, m % n) + 1
           count(k) == AtLeast(1, Len(t[k]))
           counts == [k \in 1..n |-> count(k)]
           words == Total(counts)
<1>1. n \in Nat \ {0} /\ t \in [1..n -> Seq(Words)] BY TextFacts
<1>2. scenes \in Seq(Nat) /\ m \in Nat /\ scenes \in [1..m -> Nat] BY ScriptAssumption, LenProperties
<1>3. AlignSentences(t, scenes)[i] =
        IF n <= m THEN Total(SubSeq(scenes, first(i), first(i + 1) - 1))
        ELSE AtLeast(MinShare, (count(i) * Total(scenes)) \div words)
  BY DEF AlignSentences
<1>4. i \in 1..n OBVIOUS
<1> HIDE DEF n, m
<1>5. \A k \in 1..n : count(k) \in Nat /\ count(k) # 0
  <2> SUFFICES ASSUME NEW k \in 1..n PROVE count(k) \in Nat /\ count(k) # 0 OBVIOUS
  <2>1. Len(t[k]) \in Nat
    <3>1. t[k] \in Seq(Words) BY <1>1
    <3> QED BY <3>1, LenProperties
  <2> QED BY <2>1 DEF AtLeast
<1>6. ASSUME n <= m PROVE Total(SubSeq(scenes, first(i), first(i + 1) - 1)) \in Int
  <2>1. base \in Nat /\ m % n \in 0..(n - 1) /\ m = n * base + (m % n)
    BY <1>1, <1>2, Division, Remainder
  <2> DEFINE rest == m % n
  <2> HIDE DEF base, rest
  <2>2. rest \in Nat /\ m = n * base + rest BY <1>1, <2>1 DEF rest
  <2>3. i - 1 \in Nat /\ i \in Nat /\ n \in Nat /\ i <= n BY <1>1, <1>4
  <2>4. (i - 1) * base \in Nat /\ i * base \in Nat /\ n * base \in Nat /\ i * base <= n * base
    BY <2>1, <2>3, MulMono
  <2>5. AtMost(i - 1, rest) \in Nat /\ AtMost(i, rest) \in Nat /\ AtMost(i, rest) <= rest
    BY <2>2, <2>3 DEF AtMost
  <2>6. first(i) \in Int /\ 1 <= first(i) BY <2>4, <2>5 DEF rest
  <2>7. first(i + 1) - 1 = i * base + AtMost(i, rest)
    <3>1. i + 1 - 1 = i BY <2>3
    <3>2. first(i + 1) = i * base + AtMost(i, rest) + 1 BY <3>1 DEF rest
    <3> QED BY <2>4, <2>5, <3>2
  <2>8. first(i + 1) - 1 \in Int /\ first(i + 1) - 1 <= m BY <2>2, <2>4, <2>5, <2>7
  <2> DEFINE lo == first(i)
             hi == first(i + 1) - 1
             u == SubSeq(scenes, lo, hi)
  <2>9. lo \in Int /\ hi \in Int /\ 1 <= lo /\ hi <= m BY <2>6, <2>8
  <2> HIDE DEF first, lo, hi
  <2>10. \A k \in lo..hi : scenes[k] \in Int
    <3>1. \A k \in lo..hi : k \in 1..m BY <1>2, <2>9
    <3> QED BY <1>2, <3>1
  <2>11. u \in Seq(Int) BY <2>9, <2>10, SubSeqProperties
  <2> HIDE DEF u
  <2>12. Len(u) \in Nat /\ u \in [1..Len(u) -> Int] BY <2>11, LenProperties
  <2>13. Total(u) \in Int BY <2>12, TotalInt
  <2> QED BY <2>13 DEF u, lo, hi
<1>7. AtLeast(MinShare, (count(i) * Total(scenes)) \div words) \in Int
  <2>1. n \in Nat /\ n # 0 BY <1>1
  <2>2. counts \in [1..n -> Nat] /\ \A k \in 1..n : counts[k] # 0
    <3> HIDE DEF count
    <3> QED BY <1>5
  <2> HIDE DEF counts
  <2>3. words \in Nat /\ words # 0 BY <2>1, <2>2, TotalNat
  <2>4. count(i) \in Nat BY <1>4, <1>5
  <2>5. Total(scenes) \in Nat BY <1>2, TotalNat
  <2> HIDE DEF count, words
  <2>6. count(i) * Total(scenes) \in Nat BY <2>4, <2>5
  <2>7. (count(i) * Total(scenes)) \div words \in Nat BY <2>3, <2>6, Division
  <2>8. MinShare \in Nat BY TimelineAssumption
  <2> QED BY <2>7, <2>8 DEF AtLeast
<1> HIDE DEF first, count, counts, words
<1> QED BY <1>3, <1>6, <1>7

\* Cards timed by word count, and cards with stamps.
Plain(c, t) ==
  Len(c) = Len(t) /\ \A i \in 1..Len(t) : c[i].dur \in Int /\ c[i] = PlainCard(t[i], c[i].dur)

Timed(c, t) ==
  Len(c) = Len(t) /\ \A i \in 1..Len(t) : /\ c[i].text = t[i] /\ c[i].timed
                                          /\ c[i].dur \in Int /\ c[i].start \in Nat /\ c[i].end \in Nat

\* What a stamp makes of a card.
LEMMA TimedCardIs ==
  ASSUME NEW s, NEW d, NEW stamp \in Stamp, NEW words
  PROVE  LET c == TimedCard(PlainCard(s, d), stamp, words) IN
         /\ c.text = s /\ c.timed /\ c.start = stamp.start /\ c.end = stamp.end
         /\ c.dur = AtLeast(MinCard, stamp.end - stamp.start)
         /\ c.words = IF s = << >> THEN words ELSE KaraokeWords(s, words, stamp.start, c.dur)
BY DEF TimedCard, PlainCard

\* Stamps are applied to all cards or to none.
LEMMA Applied ==
  ASSUME NEW t \in Texts, NEW c, Plain(c, t), NEW r,
         r.ok /\ Len(r.stamps) = Len(c) => \A i \in 1..Len(t) : r.stamps[i] \in Stamp
  PROVE  LET d == ApplyTimings(c, r) IN
         /\ d = c \/ Timed(d, t)
         /\ r.ok /\ Len(r.stamps) = Len(c) =>
              Timed(d, t) /\ \A i \in 1..Len(t) : d[i] = TimedCard(PlainCard(t[i], c[i].dur), r.stamps[i], r.words[i])
<1> DEFINE d == ApplyTimings(c, r)
<1>1. CASE r.ok /\ Len(r.stamps) = Len(c)
  <2>1. Len(t) \in Nat /\ Len(c) = Len(t) BY TextFacts DEF Plain
  <2>2. d = [i \in 1..Len(c) |-> TimedCard(c[i], r.stamps[i], r.words[i])] BY <1>1 DEF ApplyTimings
  <2> HIDE DEF d
  <2>3. Len(d) = Len(t) BY <2>1, <2>2
  <2>4. \A i \in 1..Len(t) : d[i] = TimedCard(PlainCard(t[i], c[i].dur), r.stamps[i], r.words[i])
    BY <2>1, <2>2 DEF Plain
  <2>5. ASSUME NEW i \in 1..Len(t)
        PROVE  d[i].text = t[i] /\ d[i].timed /\ d[i].dur \in Int /\ d[i].start \in Nat /\ d[i].end \in Nat
    <3>1. r.stamps[i] \in Stamp BY <1>1
    <3> DEFINE st == r.stamps[i]
    <3>2. st.start \in Nat /\ st.end \in Nat BY <3>1 DEF Stamp
    <3>3. /\ d[i].text = t[i] /\ d[i].timed /\ d[i].start = st.start /\ d[i].end = st.end
          /\ d[i].dur = AtLeast(MinCard, st.end - st.start)
      BY <2>4, <3>1, TimedCardIs
    <3>4. AtLeast(MinCard, st.end - st.start) \in Int BY <3>2, TimelineAssumption DEF AtLeast
    <3> QED BY <3>2, <3>3, <3>4
  <2>6. Timed(d, t) BY <2>3, <2>5 DEF Timed
  <2> QED BY <2>4, <2>6 DEF d
<1>2. CASE ~(r.ok /\ Len(r.stamps) = Len(c)) BY <1>2 DEF ApplyTimings
<1> QED BY <1>1, <1>2

\* As many heard words as clean ones: each word has its own time, up to the end of the next.
LEMMA KaraokeExact ==
  ASSUME NEW s \in Seq(Words), s # << >>, NEW words \in Seq(HeardWord), Len(words) = Len(s),
         NEW start, NEW len
  PROVE  /\ Len(KaraokeWords(s, words, start, len)) = Len(s)
         /\ \A k \in 1..Len(s) :
              KaraokeWords(s, words, start, len)[k] =
                [start |-> words[k].start, end |-> words[AtMost(k + 1, Len(s))].end]
<1> DEFINE n == Len(s)
           at(k) == AtMost(((k - 1) * n) \div n, n - 1) + 1
           to(k) == AtMost((k * n) \div n, n - 1) + 1
<1>1. n \in Nat \ {0} BY EmptySeq
<1>2. KaraokeWords(s, words, start, len) =
        [k \in 1..n |-> [start |-> words[at(k)].start, end |-> words[to(k)].end]]
  BY <1>1 DEF KaraokeWords
<1> HIDE DEF n
<1>3. ASSUME NEW k \in 1..n PROVE at(k) = k /\ to(k) = AtMost(k + 1, n)
  <2>1. k - 1 \in Nat /\ k \in Nat BY <1>1
  <2>2. ((k - 1) * n) \div n = k - 1 /\ (k * n) \div n = k BY <1>1, <2>1, MulDiv
  <2>3. at(k) = AtMost(k - 1, n - 1) + 1 /\ to(k) = AtMost(k, n - 1) + 1 BY <2>2
  <2>4. k <= n BY <1>1
  <2> HIDE DEF at, to
  <2> QED BY <1>1, <2>1, <2>3, <2>4 DEF AtMost
<1> HIDE DEF at, to
<1>4. Len(KaraokeWords(s, words, start, len)) = n BY <1>1, <1>2
<1>5. \A k \in 1..n : KaraokeWords(s, words, start, len)[k] =
                        [start |-> words[k].start, end |-> words[AtMost(k + 1, n)].end]
  BY <1>2, <1>3
<1> QED BY <1>4, <1>5 DEF n

\* Cards timed by an exact hearing.
Exact(c) ==
  \A i \in 1..Len(text) :
    /\ c[i].start = Lead + Before(text, i) * audio.beat
    /\ c[i].end = Lead + (Before(text, i) + Len(text[i])) * audio.beat
    /\ Len(c[i].words) = Len(text[i])
    /\ \A k \in 1..Len(text[i]) :
         c[i].words[k] = [start |-> Lead + (Before(text, i) + k - 1) * audio.beat,
                          end |-> Lead + (Before(text, i) + AtMost(k + 1, Len(text[i]))) * audio.beat]

\* What an exact hearing makes of the cards of a script.
LEMMA ExactApplied ==
  ASSUME text \in Texts, text # << << >> >>, audio.beat \in Nat, NEW c, Plain(c, text)
  PROVE  LET d == ApplyTimings(c, Transcribe(text, Spoken)) IN Timed(d, text) /\ Exact(d)
<1> DEFINE r == Transcribe(text, Spoken)
           d == ApplyTimings(c, r)
           n == Len(text)
           b(i) == Before(text, i)
           l(i) == Len(text[i])
           L == Len(Spoken)
<1>1. n \in Nat \ {0} /\ text \in [1..n -> Seq(Words)] BY TextFacts
<1>2. /\ r.ok /\ Len(r.stamps) = n
      /\ \A i \in 1..n :
           /\ r.stamps[i] = [start |-> Spoken[b(i) + 1].start, end |-> Spoken[b(i) + l(i)].end]
           /\ r.words[i] = SubSeq(Spoken, b(i) + 1, b(i) + l(i))
           /\ l(i) \in Nat \ {0} /\ b(i) \in Nat /\ b(i) + l(i) <= L
  BY ExactTranscription
<1>3. Spoken \in Seq(HeardWord) /\ L \in Nat
      /\ \A p \in 1..L : Spoken[p].start = Lead + (p - 1) * audio.beat
                         /\ Spoken[p].end = Lead + p * audio.beat
  <2>1. /\ Spoken \in Seq(HeardWord) /\ L = Len(FlattenSeq(text)) /\ L \in Nat
        /\ \A k \in 1..Len(FlattenSeq(text)) :
             Spoken[k] = [word |-> FlattenSeq(text)[k], start |-> Lead + (k - 1) * audio.beat,
                          end |-> Lead + k * audio.beat]
    BY SpokenFacts
  <2> HIDE DEF L
  <2>2. ASSUME NEW p \in 1..L PROVE Spoken[p].start = Lead + (p - 1) * audio.beat
                                    /\ Spoken[p].end = Lead + p * audio.beat
    <3>1. p \in 1..Len(FlattenSeq(text)) BY <2>1
    <3>2. Spoken[p] = [word |-> FlattenSeq(text)[p], start |-> Lead + (p - 1) * audio.beat,
                       end |-> Lead + p * audio.beat]
      BY <2>1, <3>1
    <3> QED BY <3>2
  <2> QED BY <2>1, <2>2
<1> HIDE DEF r, n, L, b, l
<1>4. ASSUME NEW i \in 1..n
      PROVE  /\ r.stamps[i] \in Stamp
             /\ r.stamps[i].start = Lead + b(i) * audio.beat
             /\ r.stamps[i].end = Lead + (b(i) + l(i)) * audio.beat
  <2>0. PICK p \in Nat, q \in Nat \ {0} : p = b(i) /\ q = l(i) /\ p + q <= L
    <3> b(i) \in Nat /\ l(i) \in Nat \ {0} /\ b(i) + l(i) <= L BY <1>2
    <3> QED OBVIOUS
  <2>7. L \in Nat /\ p + q <= L BY <1>3, <2>0
  <2>1. p + 1 \in 1..L /\ p + q \in 1..L /\ p + 1 - 1 = p BY <2>7
  <2>2. Spoken[p + 1] \in HeardWord /\ Spoken[p + q] \in HeardWord
    BY <1>3, <2>1, LenProperties DEF L
  <2>3. Spoken[p + 1].start \in Nat /\ Spoken[p + q].end \in Nat BY <2>2 DEF HeardWord
  <2>4. Spoken[p + 1].start = Lead + p * audio.beat /\ Spoken[p + q].end = Lead + (p + q) * audio.beat
    BY <1>3, <2>1
  <2>5. r.stamps[i] = [start |-> Spoken[p + 1].start, end |-> Spoken[p + q].end] BY <1>2, <2>0
  <2>6. r.stamps[i] \in Stamp BY <2>3, <2>5 DEF Stamp
  <2> QED BY <2>0, <2>4, <2>5, <2>6
<1>5. /\ Timed(d, text)
      /\ \A i \in 1..n : d[i] = TimedCard(PlainCard(text[i], c[i].dur), r.stamps[i], r.words[i])
  <2>1. Len(c) = n BY DEF Plain, n
  <2>2. r.ok /\ Len(r.stamps) = Len(c) BY <1>2, <2>1
  <2>3. \A i \in 1..Len(text) : r.stamps[i] \in Stamp BY <1>4 DEF n
  <2> QED BY <2>2, <2>3, Applied DEF n
<1> HIDE DEF d
<1>6. ASSUME NEW i \in 1..n
      PROVE  /\ d[i].start = Lead + b(i) * audio.beat
             /\ d[i].end = Lead + (b(i) + l(i)) * audio.beat
             /\ Len(d[i].words) = l(i)
             /\ \A k \in 1..l(i) :
                  d[i].words[k] = [start |-> Lead + (b(i) + k - 1) * audio.beat,
                                   end |-> Lead + (b(i) + AtMost(k + 1, l(i))) * audio.beat]
  <2> DEFINE st == r.stamps[i]
             w == r.words[i]
             s == text[i]
  <2>0. PICK p \in Nat, q \in Nat \ {0} : p = b(i) /\ q = l(i) /\ p + q <= L
    <3> b(i) \in Nat /\ l(i) \in Nat \ {0} /\ b(i) + l(i) <= L BY <1>2
    <3> QED OBVIOUS
  <2>1. s \in Seq(Words) /\ q = Len(s) /\ s # << >>
    <3>1. s \in Seq(Words) /\ q = Len(s) BY <1>1, <2>0 DEF l
    <3>2. Len(s) # 0 BY <2>0, <3>1
    <3> QED BY <3>1, <3>2, EmptySeq
  <2>2. st \in Stamp /\ st.start = Lead + p * audio.beat /\ st.end = Lead + (p + q) * audio.beat
    BY <1>4, <2>0
  <2>3. w = SubSeq(Spoken, p + 1, p + q) BY <1>2, <2>0
  <2>4. d[i] = TimedCard(PlainCard(s, c[i].dur), st, w) BY <1>5
  <2> HIDE DEF st, w, s
  <2>5. \A x \in (p + 1)..(p + q) : x \in 1..L /\ Spoken[x] \in HeardWord
    <3>1. \A x \in (p + 1)..(p + q) : x \in 1..L BY <1>3, <2>0
    <3> QED BY <1>3, <3>1, LenProperties DEF L
  <2>12. p + 1 \in Int /\ p + q \in Int OBVIOUS
  <2>6. /\ w \in Seq(HeardWord)
        /\ Len(w) = IF p + 1 <= p + q THEN p + q - (p + 1) + 1 ELSE 0
        /\ \A k \in 1..(p + q - (p + 1) + 1) : w[k] = Spoken[p + 1 + k - 1]
    BY <2>3, <2>5, <2>12, SubSeqProperties
  <2>7. Len(w) = q /\ p + q - (p + 1) + 1 = q BY <2>0, <2>6
  <2>8. ASSUME NEW k \in 1..q
        PROVE  w[k].start = Lead + (p + k - 1) * audio.beat /\ w[k].end = Lead + (p + k) * audio.beat
    <3>1. w[k] = Spoken[p + 1 + k - 1] BY <2>6, <2>7
    <3>2. L \in Nat /\ p + q <= L /\ k \in 1..q BY <1>3, <2>0
    <3>3. p + 1 + k - 1 = p + k /\ p + k \in 1..L BY <3>2
    <3>4. w[k] = Spoken[p + k] BY <3>1, <3>3
    <3>5. Spoken[p + k].start = Lead + (p + k - 1) * audio.beat
          /\ Spoken[p + k].end = Lead + (p + k) * audio.beat
      BY <1>3, <3>3
    <3> QED BY <3>4, <3>5
  <2>9. /\ d[i].start = st.start /\ d[i].end = st.end
        /\ d[i].words = KaraokeWords(s, w, st.start, d[i].dur)
    BY <2>1, <2>2, <2>4, TimedCardIs
  <2>10. /\ Len(d[i].words) = Len(s)
         /\ \A k \in 1..Len(s) :
              d[i].words[k] = [start |-> w[k].start, end |-> w[AtMost(k + 1, Len(s))].end]
    BY <2>1, <2>6, <2>7, <2>9, KaraokeExact
  <2>11. ASSUME NEW k \in 1..q
         PROVE  d[i].words[k] = [start |-> Lead + (p + k - 1) * audio.beat,
                                 end |-> Lead + (p + AtMost(k + 1, q)) * audio.beat]
    <3>1. AtMost(k + 1, q) \in 1..q BY <2>0 DEF AtMost
    <3>2. d[i].words[k] = [start |-> w[k].start, end |-> w[AtMost(k + 1, q)].end] BY <2>1, <2>10
    <3> QED BY <2>8, <3>1, <3>2
  <2> QED BY <2>0, <2>1, <2>2, <2>9, <2>10, <2>11
<1>7. Exact(d) BY <1>6 DEF Exact, n, b, l
<1> QED BY <1>5, <1>7 DEF d, r

\* The stamps of a sidecar can be read.
LEMMA SidecarStamps ==
  ASSUME text \in Texts, audio.length \in Nat, NEW m \in 1..(MaxSentences + 1), NEW i \in 1..Len(text)
  PROVE  FromSidecar(text, Rows(m)).stamps[i] \in Stamp
<1> DEFINE rows == Rows(m)
           n == Len(text)
           lo == AtMost(((i - 1) * m) \div n, m - 1) + 1
           hi == AtLeast(AtMost((i * m) \div n, m), lo)
<1>1. m \in Nat \ {0} BY RenderAssumption
<1>2. n \in Nat \ {0} BY TextFacts
<1>3. rows = [r \in 1..m |-> [start |-> ((r - 1) * audio.length) \div m,
                              end |-> AtLeast(1, (r * audio.length) \div m)]]
  BY DEF Rows
<1> HIDE DEF rows
<1>4. Len(rows) = m BY <1>1, <1>3
<1>5. FromSidecar(text, rows).stamps[i] = [start |-> rows[lo].start, end |-> rows[hi].end]
  BY <1>4 DEF FromSidecar
<1>6. ASSUME NEW r \in 1..m PROVE rows[r].start \in Nat /\ rows[r].end \in Nat
  <2>1. r - 1 \in Nat /\ r \in Nat BY <1>1
  <2>2. (r - 1) * audio.length \in Nat /\ r * audio.length \in Nat BY <2>1
  <2>3. ((r - 1) * audio.length) \div m \in Nat /\ (r * audio.length) \div m \in Nat
    BY <1>1, <2>2, Division
  <2>4. AtLeast(1, (r * audio.length) \div m) \in Nat BY <2>3 DEF AtLeast
  <2>5. rows[r] = [start |-> ((r - 1) * audio.length) \div m,
                   end |-> AtLeast(1, (r * audio.length) \div m)]
    BY <1>3
  <2> QED BY <2>3, <2>4, <2>5
<1>7. lo \in 1..m /\ hi \in 1..m
  <2>1. i - 1 \in Nat /\ i \in Nat BY <1>2
  <2>2. (i - 1) * m \in Nat /\ i * m \in Nat BY <1>1, <2>1
  <2>3. ((i - 1) * m) \div n \in Nat /\ (i * m) \div n \in Nat BY <1>2, <2>2, Division
  <2> HIDE DEF n
  <2>4. lo \in 1..m BY <1>1, <2>3 DEF AtMost
  <2>5. AtMost((i * m) \div n, m) \in Nat /\ AtMost((i * m) \div n, m) <= m BY <1>1, <2>3 DEF AtMost
  <2> HIDE DEF lo
  <2> QED BY <1>1, <2>4, <2>5 DEF AtLeast
<1> HIDE DEF lo, hi
<1>8. rows[lo].start \in Nat /\ rows[hi].end \in Nat BY <1>6, <1>7
<1> QED BY <1>5, <1>8 DEF Stamp, rows

-----------------------------------------------------------------------------
(* The cards of a run.                                                     *)

VoiceInv ==
  /\ mode \in Modes /\ text \in Texts
  /\ \/ audio = Silent
     \/ \E beat \in Beats, rest \in MaxRests :
          audio = [beat |-> beat, length |-> Lead + beat * Len(FlattenSeq(text)) + rest]

Carded == phase \notin {"idle", "audio"}

CardInv ==
  /\ Carded => Plain(cards, text) \/ Timed(cards, text)
  /\ phase = "aligned" => Plain(cards, text)
  /\ exact => Carded /\ phase # "aligned"
  /\ exact => text # << << >> >> /\ audio.length > 0 /\ Timed(cards, text) /\ Exact(cards)

\* What the voice file is.
LEMMA VoiceFacts ==
  ASSUME VoiceInv
  PROVE  /\ audio.beat \in Nat /\ audio.length \in Nat
         /\ Len(FlattenSeq(text)) \in Nat
         /\ audio.length > 0 => /\ audio.beat # 0
                                /\ Lead + Len(FlattenSeq(text)) * audio.beat <= audio.length
<1>1. FlattenSeq(text) \in Seq(Words) /\ Len(FlattenSeq(text)) \in Nat
  <2>1. Len(text) \in Nat /\ text \in [1..Len(text) -> Seq(Words)] BY TextFacts DEF VoiceInv
  <2>2. FlattenSeq(text) \in Seq(Words) BY <2>1, Positions
  <2> QED BY <2>2, LenProperties
<1>2. CASE audio = Silent
  <2>1. audio.beat = 0 /\ audio.length = 0 BY <1>2 DEF Silent
  <2> QED BY <1>1, <2>1
<1>3. CASE audio # Silent
  <2>1. PICK beat \in Beats, rest \in MaxRests :
          audio = [beat |-> beat, length |-> Lead + beat * Len(FlattenSeq(text)) + rest]
    BY <1>3 DEF VoiceInv
  <2>2. beat \in Nat \ {0} /\ rest \in Nat /\ Lead \in Nat BY RenderAssumption
  <2> DEFINE l == Len(FlattenSeq(text))
  <2>3. audio.beat = beat /\ audio.length = Lead + beat * l + rest /\ l \in Nat BY <1>1, <2>1
  <2> HIDE DEF l
  <2>4. beat * l \in Nat /\ l * beat = beat * l BY <2>2, <2>3
  <2>5. Lead + beat * l + rest \in Nat /\ Lead + l * beat <= Lead + beat * l + rest BY <2>2, <2>4
  <2> QED BY <2>2, <2>3, <2>5 DEF l
<1> QED BY <1>2, <1>3

\* The voice and the script stay what they are while a run uses them.
LEMMA VoiceStep == VoiceInv /\ [Next]_vars => VoiceInv'
<1> SUFFICES ASSUME VoiceInv, [Next]_vars PROVE VoiceInv' OBVIOUS
<1>1. CASE ResolveAudio BY <1>1 DEF ResolveAudio, VoiceInv, given
<1>2. ASSUME UNCHANGED given, audio' \in {audio, Silent} PROVE VoiceInv' BY <1>2 DEF VoiceInv, given
<1>3. CASE Align BY <1>2, <1>3 DEF Align
<1>4. CASE Whisper BY <1>2, <1>4 DEF Whisper
<1>5. CASE Sidecar BY <1>2, <1>5 DEF Sidecar
<1>6. CASE Illustrate BY <1>2, <1>6 DEF Illustrate
<1>7. CASE Save BY <1>2, <1>7 DEF Save
<1>8. CASE DrawCards BY <1>2, <1>8 DEF DrawCards
<1>9. CASE Assemble BY <1>2, <1>9 DEF Assemble
<1>10. CASE Decorate BY <1>2, <1>10 DEF Decorate
<1>11. CASE Encode BY <1>2, <1>11 DEF Encode
<1>12. CASE RenderFails BY <1>2, <1>12 DEF RenderFails
<1>13. CASE MarkComplete BY <1>2, <1>13 DEF MarkComplete, Return
<1>14. CASE MarkFailed BY <1>2, <1>14 DEF MarkFailed, Return
<1>15. CASE Die BY <1>2, <1>15 DEF Die, Return
<1>16. CASE UNCHANGED vars BY <1>2, <1>16 DEF vars, given
<1> QED BY <1>1, <1>3, <1>4, <1>5, <1>6, <1>7, <1>8, <1>9, <1>10, <1>11, <1>12, <1>13,
           <1>14, <1>15, <1>16 DEF Next, Work

\* Cards are timed by word count and then by all stamps of a transcription or sidecar.
LEMMA CardStep == VoiceInv /\ CardInv /\ [Next]_vars => CardInv'
<1> SUFFICES ASSUME VoiceInv, CardInv, [Next]_vars PROVE CardInv' OBVIOUS
<1>0. text \in Texts /\ Len(text) \in Nat \ {0} BY TextFacts DEF VoiceInv
<1>1. ASSUME UNCHANGED <<given, audio, cards, exact>>, Carded, phase # "aligned",
             Carded', phase' # "aligned"
      PROVE  CardInv'
  <2>1. text' = text /\ Exact(cards)' = Exact(cards) /\ cards' = cards /\ exact' = exact
        /\ audio' = audio
    BY <1>1 DEF given, Exact
  <2> QED BY <1>1, <2>1 DEF CardInv
<1>2. ASSUME phase' = "idle", exact' = FALSE PROVE CardInv' BY <1>2 DEF CardInv, Carded
<1>3. CASE ResolveAudio BY <1>3 DEF ResolveAudio, CardInv, Carded
<1>4. CASE Align
  <2>1. PICK scenes \in SceneLengths :
          cards' = [i \in 1..Len(text) |-> PlainCard(text[i], AlignSentences(text, scenes)[i])]
    BY <1>4 DEF Align
  <2>2. text' = text /\ exact' = exact /\ phase = "audio" /\ phase' = "aligned" BY <1>4 DEF Align, given
  <2>3. Len(cards') = Len(text) BY <1>0, <2>1
  <2>4. ASSUME NEW i \in 1..Len(text)
        PROVE  cards'[i].dur \in Int /\ cards'[i] = PlainCard(text[i], cards'[i].dur)
    <3> DEFINE d == AlignSentences(text, scenes)[i]
    <3>1. d \in Int BY <1>0, AlignTyped
    <3>2. cards'[i] = PlainCard(text[i], d) BY <2>1
    <3> HIDE DEF d
    <3>3. cards'[i].dur = d BY <3>2 DEF PlainCard
    <3> QED BY <3>1, <3>2, <3>3
  <2>5. Plain(cards', text') BY <2>2, <2>3, <2>4 DEF Plain
  <2>6. ~exact BY <2>2 DEF CardInv, Carded
  <2> QED BY <2>2, <2>5, <2>6 DEF CardInv, Carded
<1>5. CASE Whisper
  <2>1. text' = text /\ audio' = audio /\ phase = "aligned" /\ phase' = "timed" BY <1>5 DEF Whisper, given
  <2>2. Plain(cards, text) BY <2>1 DEF CardInv
  <2>3. CASE cards' = cards /\ exact' = FALSE BY <2>1, <2>2, <2>3 DEF CardInv, Carded
  <2>4. ASSUME audio.length > 0, NEW h \in Heard, cards' = ApplyTimings(cards, Transcribe(text, h)),
               exact' = (h = Spoken /\ text # << << >> >>)
        PROVE  CardInv'
    <3> DEFINE r == Transcribe(text, h)
    <3>1. audio.beat \in Nat BY VoiceFacts
    <3>2. h \in Seq(HeardWord) BY <1>0, <3>1, HeardTyped
    <3>3. r \in Matched
      <4>1. Len(text) \in Nat /\ text \in [1..Len(text) -> Seq(Words)] BY <1>0, TextFacts
      <4>2. PICK acc \in [0..Len(text) -> Matched] : r = acc[Len(text)] BY <3>2, <4>1, Transcribed
      <4>3. Len(text) \in 0..Len(text) BY <1>0
      <4> QED BY <4>2, <4>3
    <3>4. ASSUME Len(r.stamps) = Len(cards), NEW i \in 1..Len(text) PROVE r.stamps[i] \in Stamp
      <4>1. r.stamps \in Seq(Stamp) BY <3>3 DEF Matched
      <4>2. Len(r.stamps) = Len(text) BY <2>2, <3>4 DEF Plain
      <4> HIDE DEF r
      <4> QED BY <4>1, <4>2, LenProperties
    <3>5. cards' = cards \/ Timed(cards', text)
      <4> HIDE DEF r
      <4> QED BY <1>0, <2>2, <2>4, <3>4, Applied DEF r
    <3>6. Plain(cards', text') \/ Timed(cards', text') BY <2>1, <2>2, <3>5
    <3>7. ASSUME exact' PROVE text # << << >> >> /\ Timed(cards', text) /\ Exact(cards')
      <4>1. h = Spoken /\ text # << << >> >> BY <2>4, <3>7
      <4> QED BY <1>0, <2>2, <2>4, <3>1, <4>1, ExactApplied
    <3>8. Exact(cards)' <=> Exact(cards') BY <2>1 DEF Exact, Before
    <3> QED BY <2>1, <2>4, <3>6, <3>7, <3>8 DEF CardInv, Carded
  <2> QED BY <1>5, <2>3, <2>4 DEF Whisper
<1>6. CASE Sidecar
  <2>1. text' = text /\ phase = "aligned" /\ phase' = "timed" /\ exact' = FALSE BY <1>6 DEF Sidecar, given
  <2>2. Plain(cards, text) BY <2>1 DEF CardInv
  <2>3. CASE cards' = cards BY <2>1, <2>2, <2>3 DEF CardInv, Carded
  <2>4. ASSUME NEW m \in 1..(MaxSentences + 1), cards' = ApplyTimings(cards, FromSidecar(text, Rows(m)))
        PROVE  CardInv'
    <3>1. audio.length \in Nat BY VoiceFacts
    <3>2. \A i \in 1..Len(text) : FromSidecar(text, Rows(m)).stamps[i] \in Stamp
      BY <1>0, <3>1, SidecarStamps
    <3>3. cards' = cards \/ Timed(cards', text) BY <1>0, <2>2, <2>4, <3>2, Applied
    <3> QED BY <2>1, <2>2, <3>3 DEF CardInv, Carded
  <2> QED BY <1>6, <2>3, <2>4 DEF Sidecar
<1>7. CASE Illustrate BY <1>1, <1>7 DEF Illustrate, Carded
<1>8. CASE Save BY <1>1, <1>8 DEF Save, Carded
<1>9. CASE DrawCards BY <1>1, <1>9 DEF DrawCards, Carded
<1>10. CASE Assemble BY <1>1, <1>10 DEF Assemble, Carded
<1>11. CASE Decorate BY <1>1, <1>11 DEF Decorate, Carded
<1>12. CASE Encode BY <1>1, <1>12 DEF Encode, Carded
<1>13. CASE RenderFails BY <1>1, <1>13 DEF RenderFails, Carded
<1>14. CASE MarkComplete BY <1>2, <1>14 DEF MarkComplete, Return
<1>15. CASE MarkFailed BY <1>2, <1>15 DEF MarkFailed, Return
<1>16. CASE Die BY <1>2, <1>16 DEF Die, Return
<1>17. CASE UNCHANGED vars
  <2>1. text' = text /\ Exact(cards)' = Exact(cards) /\ cards' = cards /\ exact' = exact
        /\ audio' = audio /\ phase' = phase
    BY <1>17 DEF vars, Exact
  <2> QED BY <2>1 DEF CardInv, Carded
<1> QED BY <1>3, <1>4, <1>5, <1>6, <1>7, <1>8, <1>9, <1>10, <1>11, <1>12, <1>13, <1>14, <1>15,
           <1>16, <1>17 DEF Next, Work

-----------------------------------------------------------------------------
(* The captions.                                                           *)

\* In every run of the renderer the cards are those of the script.
LEMMA CardTexts ==
  ASSUME VoiceInv, CardInv, Carded
  PROVE  Len(cards) = Len(text) /\ \A i \in 1..Len(text) : cards[i].text = text[i]
<1>1. CASE Timed(cards, text) BY <1>1 DEF Timed
<1>2. CASE Plain(cards, text)
  <2>1. ASSUME NEW i \in 1..Len(text) PROVE cards[i].text = text[i]
    <3>1. cards[i] = PlainCard(text[i], cards[i].dur) BY <1>2 DEF Plain
    <3>2. \A d : PlainCard(text[i], d).text = text[i] BY DEF PlainCard
    <3> QED BY <3>1, <3>2, Zenon
  <2> QED BY <1>2, <2>1 DEF Plain
<1> QED BY <1>1, <1>2 DEF CardInv

\* What a cut leaves: the first words, and perhaps a part of the next; all of a sentence
\* that is not longer than the cut.
LEMMA ClippedProperties ==
  ASSUME NEW W, NEW s \in Seq(W)
  PROVE  /\ \E k \in 0..Len(s) : /\ SubSeq(s, 1, k) \in Seq(W)
                               /\ Clipped(s) \in {SubSeq(s, 1, k), Append(SubSeq(s, 1, k), Part)}
         /\ Letters(s) <= MaxShown => Clipped(s) = s
<1> DEFINE n == Len(s)
           S == {j \in 0..n : Letters(SubSeq(s, 1, j)) <= MaxShown}
<1>1. n \in Nat /\ \A i \in 1..n : s[i] \in W BY LenProperties
<1>2. 0 \in S
  <2>1. SubSeq(s, 1, 0) = << >> OBVIOUS
  <2>2. Letters(<< >>) = 0
    <3> DEFINE c == [k \in 1..Len(<< >>) |-> IF << >>[k] \in Wide THEN 2 ELSE 1]
               sum == [k \in 0..0 |-> 0]
    <3>1. c \in [1..0 -> Int] OBVIOUS
    <3>2. sum \in [0..0 -> Int] /\ sum[0] = 0 OBVIOUS
    <3> HIDE DEF c, sum
    <3>3. 0 \in Nat /\ \A i \in 1..0 : sum[i] = sum[i - 1] + c[i] OBVIOUS
    <3>4. Total(c) = sum[0] BY <3>1, <3>2, <3>3, TotalIs
    <3> QED BY <3>2, <3>4 DEF Letters, c
  <2>3. 0 <= MaxShown BY TimelineAssumption
  <2>4. Letters(SubSeq(s, 1, 0)) = 0 BY <2>1, <2>2, Zenon
  <2>5. Letters(SubSeq(s, 1, 0)) <= MaxShown BY <2>3, <2>4
  <2>6. 0 \in 0..n BY <1>1
  <2> QED BY <2>5, <2>6, Zenon
<1>3. Max(S) \in S /\ \A j \in S : j <= Max(S)
  <2> DEFINE T == S \ {0}
  <2>1. S \in SUBSET (0..n) /\ S \in SUBSET Int /\ T \in SUBSET (1..n) OBVIOUS
  <2> HIDE DEF S
  <2>2. CASE T = {}
    <3>1. \A y \in S : y <= 0 BY <2>2
    <3>2. Max(S) = 0 BY <1>2, <2>1, <3>1, MaxIs
    <3> QED BY <1>2, <3>1, <3>2
  <2>3. CASE T # {}
    <3>1. PICK x \in T : \A y \in T : y <= x
      <4> HIDE DEF T
      <4> QED BY <1>1, <2>1, <2>3, MaxExists
    <3>2. x \in S /\ \A y \in S : y <= x BY <2>1, <3>1
    <3>3. Max(S) = x BY <2>1, <3>2, MaxIs
    <3> QED BY <3>2, <3>3
  <2> QED BY <2>2, <2>3
<1> DEFINE k == Max(S)
           start == SubSeq(s, 1, k)
<1>4. Clipped(s) = IF k < n /\ Letters(start) < MaxShown THEN Append(start, Part) ELSE start
  BY DEF Clipped
<1>5. k \in 0..n BY <1>3
<1> HIDE DEF k
<1>6. start \in Seq(W)
  <2>1. \A i \in 1..k : s[i] \in W BY <1>1, <1>5
  <2> QED BY <1>5, <2>1, SubSeqProperties
<1>7. ASSUME Letters(s) <= MaxShown PROVE Clipped(s) = s
  <2>1. SubSeq(s, 1, n) = s BY SubSeqFull
  <2>5. Letters(SubSeq(s, 1, n)) <= MaxShown BY <1>7, <2>1, Zenon
  <2>6. n \in 0..n BY <1>1
  <2>2. n \in S BY <2>5, <2>6, Zenon
  <2>3. n <= k BY <1>3, <2>2 DEF k
  <2>4. k = n BY <1>1, <1>5, <2>3
  <2>7. ~(k < n) BY <1>1, <2>4
  <2> HIDE DEF S, n
  <2> QED BY <1>4, <2>1, <2>4, <2>7
<1> HIDE DEF start
<1>8. Clipped(s) \in {start, Append(start, Part)} BY <1>4
<1> QED BY <1>5, <1>6, <1>7, <1>8 DEF start

\* The whole words of a prefix of what a cut leaves are a prefix of the sentence.
LEMMA WholeWords ==
  ASSUME NEW W, NEW s \in Seq(W), NEW k \in 0..Len(s), SubSeq(s, 1, k) \in Seq(W),
         NEW c \in {SubSeq(s, 1, k), Append(SubSeq(s, 1, k), Part)},
         NEW shown, shown = SubSeq(c, 1, Len(shown)), Len(shown) \in 0..Len(c)
  PROVE  LET whole == IF shown # << >> /\ Last(shown) = Part THEN Front(shown) ELSE shown
         IN  whole = SubSeq(s, 1, Len(whole))
<1> DEFINE start == SubSeq(s, 1, k)
           whole == IF shown # << >> /\ Last(shown) = Part THEN Front(shown) ELSE shown
           V == W \cup {Part}
           m == Len(shown)
<1>1. Len(s) \in Nat /\ \A i \in 1..Len(s) : s[i] \in W BY LenProperties
<1>2. Len(start) = k /\ \A i \in 1..k : start[i] = s[i]
  <2>1. \A i \in 1..k : s[i] \in W BY <1>1
  <2> QED BY <1>1, <2>1, SubSeqProperties
<1> HIDE DEF start
<1>3. /\ Len(c) \in {k, k + 1} /\ \A i \in 1..k : c[i] = s[i]
      /\ \A i \in (k + 1)..Len(c) : c[i] = Part
      /\ c \in Seq(V)
  <2>1. start \in Seq(V) /\ Part \in V BY DEF start
  <2>2. CASE c = start BY <1>1, <1>2, <2>1, <2>2
  <2>3. CASE c = Append(start, Part)
    <3>1. /\ c \in Seq(V) /\ Len(c) = k + 1 /\ c[k + 1] = Part
          /\ \A i \in 1..k : c[i] = start[i]
      BY <1>2, <2>1, <2>3, AppendProperties
    <3> QED BY <1>1, <1>2, <3>1
  <2> QED BY <2>2, <2>3 DEF start
<1>4. m \in 0..Len(c) /\ m \in Nat BY <1>3
<1>5. shown \in Seq(V) /\ \A i \in 1..m : shown[i] = c[i]
  <2>1. \A i \in 1..m : c[i] \in V BY <1>3, <1>4, LenProperties
  <2>2. SubSeq(c, 1, m) \in Seq(V) /\ \A i \in 1..(m - 1 + 1) : SubSeq(c, 1, m)[i] = c[1 + i - 1]
    BY <1>4, <2>1, SubSeqProperties
  <2> QED BY <1>4, <2>2
<1>6. whole \in Seq(V) /\ Len(whole) \in 0..k /\ \A i \in 1..Len(whole) : whole[i] = s[i]
  <2>1. CASE m = k + 1
    <3>1. shown # << >> /\ Last(shown) = shown[m] BY <1>1, <1>4, <2>1 DEF Last
    <3>2. m \in 1..m /\ m \in (k + 1)..Len(c) BY <1>1, <1>3, <1>4, <2>1
    <3>3. Last(shown) = Part BY <1>3, <1>5, <3>1, <3>2
    <3>4. whole = SubSeq(shown, 1, k) BY <1>1, <2>1, <3>1, <3>3 DEF Front
    <3>5. \A i \in 1..k : i \in 1..m /\ shown[i] \in V BY <1>1, <1>5, <2>1, LenProperties
    <3>6. /\ SubSeq(shown, 1, k) \in Seq(V) /\ Len(SubSeq(shown, 1, k)) = k
          /\ \A i \in 1..(k - 1 + 1) : SubSeq(shown, 1, k)[i] = shown[1 + i - 1]
      BY <1>1, <3>5, SubSeqProperties
    <3>7. \A i \in 1..k : i \in 1..(k - 1 + 1) /\ 1 + i - 1 = i BY <1>1
    <3> HIDE DEF whole
    <3>8. \A i \in 1..k : SubSeq(shown, 1, k)[i] = s[i] BY <1>3, <1>5, <3>5, <3>6, <3>7
    <3>9. k \in 0..k BY <1>1
    <3> QED BY <3>4, <3>6, <3>8, <3>9, Zenon
  <2>2. CASE m # k + 1
    <3>1. m \in 0..k
      <4>1. Len(c) = k \/ Len(c) = k + 1 BY <1>3, Zenon
      <4>2. k \in Nat BY <1>1
      <4> HIDE DEF m
      <4> QED BY <1>4, <2>2, <4>1, <4>2
    <3>2. \A i \in 1..m : i \in 1..k /\ shown[i] = s[i] BY <1>1, <1>3, <1>5, <3>1
    <3>3. CASE whole = shown BY <1>5, <3>1, <3>2, <3>3
    <3>4. CASE shown # << >> /\ Last(shown) = Part
      <4>1. whole = SubSeq(shown, 1, m - 1) BY <3>4 DEF Front
      <4>2. m - 1 \in 0..k /\ m - 1 \in Nat
        <5>1. m # 0 BY <1>5, <3>4, EmptySeq
        <5> QED BY <1>1, <3>1, <5>1
      <4>3. \A i \in 1..(m - 1) : i \in 1..m /\ shown[i] \in V BY <1>5, <4>2, LenProperties
      <4>4. /\ SubSeq(shown, 1, m - 1) \in Seq(V) /\ Len(SubSeq(shown, 1, m - 1)) = m - 1
            /\ \A i \in 1..(m - 1 - 1 + 1) : SubSeq(shown, 1, m - 1)[i] = shown[1 + i - 1]
        BY <4>2, <4>3, SubSeqProperties
      <4>5. \A i \in 1..(m - 1) : i \in 1..(m - 1 - 1 + 1) /\ 1 + i - 1 = i BY <4>2
      <4> HIDE DEF whole
      <4> QED BY <3>2, <4>1, <4>2, <4>3, <4>4, <4>5
    <3> QED BY <3>3, <3>4
  <2> QED BY <2>1, <2>2
<1> HIDE DEF whole
<1> DEFINE u == SubSeq(s, 1, Len(whole))
<1>7. /\ u \in Seq(W) /\ Len(u) = Len(whole)
      /\ \A i \in 1..(Len(whole) - 1 + 1) : u[i] = s[1 + i - 1]
  <2>1. Len(whole) \in 0..Len(s) /\ Len(whole) \in Nat BY <1>1, <1>6
  <2>2. \A i \in 1..Len(whole) : s[i] \in W BY <1>1, <2>1
  <2> QED BY <2>1, <2>2, SubSeqProperties
<1>8. u \in Seq(V) BY <1>7
<1>9. ASSUME NEW i \in 1..Len(whole) PROVE whole[i] = u[i]
  <2>1. i \in 1..(Len(whole) - 1 + 1) /\ 1 + i - 1 = i BY <1>6
  <2> QED BY <1>6, <1>7, <2>1
<1>10. whole = u
  <2> HIDE DEF u
  <2> QED BY <1>6, <1>7, <1>8, <1>9, SeqEqual
<1> QED BY <1>10 DEF u, whole

\* The same of a whole sentence.
LEMMA WholeSentence ==
  ASSUME NEW W, NEW s \in Seq(W)
  PROVE  LET whole == IF s # << >> /\ Last(s) = Part THEN Front(s) ELSE s
         IN  whole = SubSeq(s, 1, Len(whole))
<1>1. Len(s) \in Nat /\ SubSeq(s, 1, Len(s)) = s BY LenProperties, SubSeqFull
<1>2. Len(s) \in 0..Len(s) BY <1>1
<1> QED BY <1>1, <1>2, WholeWords

\* The static bar of a sentence that is cut first: its whole words begin the sentence, and
\* it is all of one that is not longer than the cut, or ends with an ellipsis.
LEMMA ClippedBarHonest ==
  ASSUME NEW W, NEW s \in Seq(W)
  PROVE  LET bar == CaptionBar(Clipped(s))
             shown == FlattenSeq(bar.lines)
             whole == IF shown # << >> /\ Last(shown) = Part THEN Front(shown) ELSE shown
         IN  /\ whole = SubSeq(s, 1, Len(whole))
             /\ Fit(bar.lines)
             /\ shown = s \/ bar.ellipsis \/ Letters(s) > MaxShown
<1> DEFINE V == W \cup {Part}
           shown == FlattenSeq(CaptionBar(Clipped(s)).lines)
           whole == IF shown # << >> /\ Last(shown) = Part THEN Front(shown) ELSE shown
<1> DEFINE c == Clipped(s)
<1>1. PICK k \in 0..Len(s) :
        /\ SubSeq(s, 1, k) \in Seq(W)
        /\ c \in {SubSeq(s, 1, k), Append(SubSeq(s, 1, k), Part)}
  BY ClippedProperties
<1>6. Letters(s) <= MaxShown => c = s BY ClippedProperties
<1> HIDE DEF c
<1>2. c \in Seq(V)
  <2>1. SubSeq(s, 1, k) \in Seq(V) /\ Part \in V BY <1>1
  <2>2. Append(SubSeq(s, 1, k), Part) \in Seq(V) BY <2>1, AppendProperties
  <2>3. c = SubSeq(s, 1, k) \/ c = Append(SubSeq(s, 1, k), Part) BY <1>1
  <2> QED BY <2>1, <2>2, <2>3, Zenon
<1> HIDE DEF V
<1>3. /\ shown = SubSeq(c, 1, Len(shown)) /\ Len(shown) \in 0..Len(c)
      /\ Fit(CaptionBar(c).lines)
      /\ shown = c \/ CaptionBar(c).ellipsis
  BY <1>2, BarHonest DEF c
<1> HIDE DEF shown
<1>4. whole = SubSeq(s, 1, Len(whole)) BY <1>1, <1>3, WholeWords
<1>5. ASSUME ~(Letters(s) > MaxShown) PROVE c = s
  <2> DEFINE n == Len(s)
             f == [j \in 1..n |-> IF s[j] \in Wide THEN 2 ELSE 1]
  <2>1. n \in Nat BY LenProperties
  <2>2. f \in [1..n -> Int] OBVIOUS
  <2> HIDE DEF f, n
  <2>3. Total(f) \in Int BY <2>1, <2>2, TotalInt
  <2>4. Letters(s) \in Int BY <2>3 DEF Letters, f, n
  <2>5. Letters(s) <= MaxShown BY <1>5, <2>4, TimelineAssumption
  <2> QED BY <1>6, <2>5
<1> HIDE DEF whole
<1> QED BY <1>3, <1>4, <1>5 DEF shown, whole, c

\* What the property says of one card's bar.
Honest(bar, i) ==
  /\ bar.kind \in {"bar", "karaoke"} =>
       LET shown == FlattenSeq(bar.bar.lines)
           whole == IF shown # << >> /\ Last(shown) = Part THEN Front(shown) ELSE shown IN
       /\ whole = SubSeq(text[i], 1, Len(whole))
       /\ \A j \in 1..Len(bar.bar.lines) : Width(bar.bar.lines[j]) <= LineWidth
       /\ \/ shown = text[i]
          \/ bar.kind = "bar" /\ (bar.bar.ellipsis \/ Letters(text[i]) > MaxShown)
  /\ ~mode.karaoke /\ bar.kind # "bar" => text[i] = << >> \/ (i = 1 /\ mode.hook)

\* The bars of a run are drawn from its sentences.
LEMMA BarStep == VoiceInv /\ CardInv /\ CaptionsHonest /\ [Next]_vars => CaptionsHonest'
<1> SUFFICES ASSUME VoiceInv, CardInv, CaptionsHonest, [Next]_vars PROVE CaptionsHonest' OBVIOUS
<1>0. text \in Texts /\ text \in [1..Len(text) -> Seq(Words)] /\ Len(text) \in Nat \ {0}
  BY TextFacts DEF VoiceInv
<1>1. ASSUME UNCHANGED given, bars' \in {bars, << >>} PROVE CaptionsHonest'
  BY <1>1 DEF CaptionsHonest, given
<1>2. CASE DrawCards
  <2> DEFINE barred == {i \in 1..Len(cards) : cards[i].text # << >>}
             skipped == IF mode.hook /\ barred # {} THEN {Min(barred)} ELSE {}
             plain(i) == [kind |-> IF mode.karaoke /\ Narrated(i) THEN "card" ELSE "none"]
  <2>1. PICK animated \in {mode.karaoke, FALSE} :
          bars' = [i \in 1..Len(cards) |->
            IF animated /\ cards[i].words # << >>
            THEN [kind |-> "karaoke", bar |-> [lines |-> KaraokeLines(cards[i].text)]]
            ELSE IF ~mode.karaoke /\ i \in barred \ skipped
            THEN [kind |-> "bar", bar |-> CaptionBar(Clipped(cards[i].text))]
            ELSE plain(i)]
    BY <1>2 DEF DrawCards
  <2>2. mode' = mode /\ text' = text BY <1>2 DEF DrawCards, given
  <2>3. Carded BY <1>2 DEF DrawCards, Carded
  <2>4. Len(cards) = Len(text) /\ \A i \in 1..Len(text) : cards[i].text = text[i] BY <2>3, CardTexts
  <2>5. Len(bars') = Len(text)
    <3> HIDE DEF barred, skipped, plain
    <3> QED BY <1>0, <2>1, <2>4
  <2>6. ASSUME NEW i \in 1..Len(text), i \in barred, i \in skipped PROVE i = 1 /\ mode.hook
    <3>1. mode.hook /\ i = Min(barred) BY <2>6
    <3>2. text[i] # << >> BY <2>4, <2>6
    <3>3. text # << << >> >>
      <4>1. ASSUME text = << << >> >> PROVE FALSE
        <5>1. Len(text) = 1 BY <4>1
        <5>2. i = 1 BY <5>1
        <5> QED BY <3>2, <4>1, <5>2
      <4> QED BY <4>1
    <3>4. \A k \in 1..Len(text) : text[k] # << >> BY <1>0, <3>3, TextFacts
    <3>5. barred \in SUBSET Int /\ 1 \in barred /\ \A k \in barred : 1 <= k BY <1>0, <2>4, <3>4
    <3> HIDE DEF barred
    <3>6. Min(barred) = 1 BY <3>5, MinIs
    <3> QED BY <3>1, <3>6
  <2>7. ASSUME NEW i \in 1..Len(text) PROVE Honest(bars'[i], i)
    <3> DEFINE s == text[i]
    <3>1. s \in Seq(Words) BY <1>0
    <3>2. cards[i].text = s /\ i \in 1..Len(cards) BY <2>4
    <3> HIDE DEF s
    <3>3. CASE animated /\ cards[i].words # << >>
      <4>1. bars'[i] = [kind |-> "karaoke", bar |-> [lines |-> KaraokeLines(s)]] BY <2>1, <3>2, <3>3
      <4>2. mode.karaoke BY <2>1, <3>3
      <4>3. FlattenSeq(KaraokeLines(s)) = s /\ Fit(KaraokeLines(s)) BY <3>1, KaraokeHonest
      <4>4. LET whole == IF s # << >> /\ Last(s) = Part THEN Front(s) ELSE s
            IN  whole = SubSeq(s, 1, Len(whole))
        BY <3>1, WholeSentence
      <4>5. /\ bars'[i].kind = "karaoke" /\ bars'[i].bar.lines = KaraokeLines(s) BY <4>1
      <4> QED BY <4>2, <4>3, <4>4, <4>5 DEF Honest, Fit, s
    <3>4. CASE ~(animated /\ cards[i].words # << >>) /\ ~mode.karaoke /\ i \in barred \ skipped
      <4>1. bars'[i] = [kind |-> "bar", bar |-> CaptionBar(Clipped(s))]
        <5> HIDE DEF barred, skipped, plain
        <5> QED BY <2>1, <3>2, <3>4
      <4>2. bars'[i].kind = "bar" /\ bars'[i].bar = CaptionBar(Clipped(s)) BY <4>1
      <4>3. LET bar == CaptionBar(Clipped(s))
                shown == FlattenSeq(bar.lines)
                whole == IF shown # << >> /\ Last(shown) = Part THEN Front(shown) ELSE shown
            IN  /\ whole = SubSeq(s, 1, Len(whole)) /\ Fit(bar.lines)
                /\ shown = s \/ bar.ellipsis \/ Letters(s) > MaxShown
        BY <3>1, ClippedBarHonest
      <4> QED BY <4>2, <4>3 DEF Honest, Fit, s
    <3>5. CASE /\ ~(animated /\ cards[i].words # << >>)
               /\ ~(~mode.karaoke /\ i \in barred \ skipped)
      <4>1. bars'[i] = plain(i)
        <5> HIDE DEF barred, skipped, plain
        <5> QED BY <2>1, <3>2, <3>5
      <4>2. bars'[i].kind \in {"card", "none"} BY <4>1
      <4>3. ASSUME ~mode.karaoke PROVE s = << >> \/ (i = 1 /\ mode.hook)
        <5>1. CASE i \in barred BY <2>6, <3>5, <4>3, <5>1
        <5>2. CASE i \notin barred BY <3>2, <5>2
        <5> QED BY <5>1, <5>2
      <4>4. bars'[i].kind \notin {"bar", "karaoke"} BY <4>2
      <4> QED BY <4>3, <4>4 DEF Honest, s
    <3> QED BY <3>3, <3>4, <3>5
  <2> HIDE DEF barred, skipped, plain
  <2> QED BY <2>2, <2>5, <2>7 DEF CaptionsHonest, Honest
<1>3. CASE ResolveAudio BY <1>1, <1>3 DEF ResolveAudio
<1>4. CASE Align BY <1>1, <1>4 DEF Align
<1>5. CASE Whisper BY <1>1, <1>5 DEF Whisper
<1>6. CASE Sidecar BY <1>1, <1>6 DEF Sidecar
<1>7. CASE Illustrate BY <1>1, <1>7 DEF Illustrate
<1>8. CASE Save BY <1>1, <1>8 DEF Save
<1>9. CASE Assemble BY <1>1, <1>9 DEF Assemble
<1>10. CASE Decorate BY <1>1, <1>10 DEF Decorate
<1>11. CASE Encode BY <1>1, <1>11 DEF Encode
<1>12. CASE RenderFails BY <1>1, <1>12 DEF RenderFails
<1>13. CASE MarkComplete BY <1>1, <1>13 DEF MarkComplete, Return
<1>14. CASE MarkFailed BY <1>1, <1>14 DEF MarkFailed, Return
<1>15. CASE Die BY <1>1, <1>15 DEF Die, Return
<1>16. CASE UNCHANGED vars BY <1>1, <1>16 DEF vars, given
<1> QED BY <1>2, <1>3, <1>4, <1>5, <1>6, <1>7, <1>8, <1>9, <1>10, <1>11, <1>12, <1>13,
           <1>14, <1>15, <1>16 DEF Next, Work

-----------------------------------------------------------------------------
(* The film.                                                               *)

Assembled == {"assembled", "decorated", "encoded", "failed"}

\* The film that Assemble makes of the cards and an audio of this length.
Cut(loaded) == AtMost(loaded, Last(cards).end + Closing)
IsTimed(loaded) == loaded > 0 /\ Stamped
Clips(loaded) ==
  IF IsTimed(loaded) THEN StampedClips(cards, Cut(loaded), mode.fade)
  ELSE ChainedClips(Scaled(cards, loaded), mode.fade)
Length(loaded) == IF IsTimed(loaded) THEN Cut(loaded) ELSE Last(Clips(loaded)).to

Built(loaded) ==
  /\ film = [clips |-> film.clips, length |-> film.length, sound |-> film.sound, timed |-> film.timed]
  /\ film.clips = Clips(loaded) /\ film.length = Length(loaded) /\ film.timed = IsTimed(loaded)
  /\ film.sound \in {0, AtMost(loaded, Length(loaded))}

FilmInv ==
  film # NoFilm => /\ phase \in Assembled
                   /\ \E loaded \in {0, audio.length} : Built(loaded)

\* A film is built from the cards of its run, which change no more.
LEMMA FilmStep == FilmInv /\ [Next]_vars => FilmInv'
<1> SUFFICES ASSUME FilmInv, [Next]_vars PROVE FilmInv' OBVIOUS
<1>1. ASSUME film' = film, phase \notin Assembled PROVE FilmInv' BY <1>1 DEF FilmInv, NoFilm
<1>2. ASSUME film' = NoFilm PROVE FilmInv' BY <1>2 DEF FilmInv, NoFilm
<1>3. ASSUME UNCHANGED <<mode, audio, cards>>, phase' \in Assembled,
             film' = film \/ film' = [film EXCEPT !.sound = 0]
      PROVE  FilmInv'
  <2>1. CASE film' = film
    <3>1. ASSUME NEW loaded, Built(loaded) PROVE Built(loaded)'
      BY <1>3, <2>1, <3>1 DEF Built, Clips, Length, Cut, IsTimed, Stamped
    <3> QED BY <1>3, <2>1, <3>1 DEF FilmInv, NoFilm
  <2>2. CASE film' = [film EXCEPT !.sound = 0]
    <3>1. CASE film = NoFilm
      <4>1. film' = NoFilm BY <2>2, <3>1 DEF NoFilm
      <4> QED BY <4>1 DEF FilmInv, NoFilm
    <3>2. CASE film # NoFilm
      <4>1. PICK loaded \in {0, audio.length} : Built(loaded) BY <3>2 DEF FilmInv
      <4>2. film' = [clips |-> film.clips, length |-> film.length, sound |-> 0, timed |-> film.timed]
        BY <2>2, <4>1 DEF Built
      <4>3. /\ film'.clips = film.clips /\ film'.length = film.length /\ film'.timed = film.timed
            /\ film'.sound = 0
            /\ film' = [clips |-> film'.clips, length |-> film'.length, sound |-> film'.sound,
                        timed |-> film'.timed]
        BY <4>2
      <4>4. Built(loaded)' BY <1>3, <4>1, <4>3 DEF Built, Clips, Length, Cut, IsTimed, Stamped
      <4> QED BY <1>3, <4>1, <4>4 DEF FilmInv
    <3> QED BY <3>1, <3>2
  <2> QED BY <1>3, <2>1, <2>2
<1>4. CASE Assemble
  <2>1. PICK loaded \in {0, audio.length} :
          film' = [clips |-> Clips(loaded), length |-> Length(loaded),
                   sound |-> AtMost(loaded, Length(loaded)), timed |-> IsTimed(loaded)]
    BY <1>4 DEF Assemble, Clips, Length, Cut, IsTimed
  <2>2. /\ film'.clips = Clips(loaded) /\ film'.length = Length(loaded)
        /\ film'.timed = IsTimed(loaded) /\ film'.sound = AtMost(loaded, Length(loaded))
        /\ film' = [clips |-> film'.clips, length |-> film'.length, sound |-> film'.sound,
                    timed |-> film'.timed]
    BY <2>1
  <2>3. mode' = mode /\ cards' = cards /\ audio' = audio /\ phase' = "assembled"
    BY <1>4 DEF Assemble, given
  <2>4. Built(loaded)' BY <2>2, <2>3 DEF Built, Clips, Length, Cut, IsTimed, Stamped
  <2> QED BY <2>3, <2>4 DEF FilmInv, Assembled
<1>5. CASE ResolveAudio BY <1>1, <1>5 DEF ResolveAudio, Assembled
<1>6. CASE Align BY <1>1, <1>6 DEF Align, Assembled
<1>7. CASE Whisper BY <1>1, <1>7 DEF Whisper, Assembled
<1>8. CASE Sidecar BY <1>1, <1>8 DEF Sidecar, Assembled
<1>9. CASE Illustrate BY <1>1, <1>9 DEF Illustrate, Assembled
<1>10. CASE Save BY <1>1, <1>10 DEF Save, Assembled
<1>11. CASE DrawCards BY <1>1, <1>11 DEF DrawCards, Assembled
<1>12. CASE Decorate BY <1>3, <1>12 DEF Decorate, given, Assembled
<1>13. CASE Encode BY <1>3, <1>13 DEF Encode, given, Assembled
<1>14. CASE RenderFails BY <1>3, <1>14 DEF RenderFails, given, Assembled
<1>15. CASE MarkComplete BY <1>2, <1>15 DEF MarkComplete, Return
<1>16. CASE MarkFailed BY <1>2, <1>16 DEF MarkFailed, Return
<1>17. CASE Die BY <1>2, <1>17 DEF Die, Return
<1>18. CASE UNCHANGED vars
  <2>1. ASSUME NEW loaded, Built(loaded) PROVE Built(loaded)'
    BY <1>18, <2>1 DEF vars, Built, Clips, Length, Cut, IsTimed, Stamped
  <2> QED BY <1>18, <2>1 DEF vars, FilmInv, NoFilm
<1> QED BY <1>4, <1>5, <1>6, <1>7, <1>8, <1>9, <1>10, <1>11, <1>12, <1>13, <1>14, <1>15, <1>16,
           <1>17, <1>18 DEF Next, Work

\* One more duration in a comparison of sums.
LEMMA OneMore ==
  ASSUME NEW A \in Int, NEW R \in Int, NEW s \in Int, NEW d \in Int, NEW k \in Int,
         NEW r \in Int, NEW e \in Int,
         s * A <= R * (d + (k - 1)), r * A <= R * e + R
  PROVE  (s + r) * A <= R * (d + e + k)
<1>1. (s + r) * A = s * A + r * A OBVIOUS
<1>2. R * (d + e + k) = R * (d + (k - 1)) + (R * e + R) OBVIOUS
<1>3. s * A \in Int /\ r * A \in Int /\ R * (d + (k - 1)) \in Int /\ R * e + R \in Int OBVIOUS
<1> QED BY <1>1, <1>2, <1>3

\* The durations of chained cards: none is shorter than MinCard, and up to a tick for each
\* card they last as long as the audio.
LEMMA ScaledFacts ==
  ASSUME NEW c, NEW n \in Nat \ {0}, Len(c) = n, \A i \in 1..n : c[i].dur \in Int,
         NEW loaded \in Nat
  PROVE  /\ Scaled(c, loaded) \in [1..n -> Nat]
         /\ \A i \in 1..n : Scaled(c, loaded)[i] >= MinCard
         /\ loaded <= Total(Scaled(c, loaded)) + n
<1> DEFINE raw == [i \in 1..n |-> AtLeast(MinCard, c[i].dur)]
           R == Total(raw)
           durs == Scaled(c, loaded)
<1>1. MinCard \in Nat \ {0} BY TimelineAssumption
<1>2. \A i \in 1..n : raw[i] \in Nat /\ raw[i] >= MinCard BY <1>1 DEF AtLeast
<1>3. raw \in [1..n -> Nat] BY <1>2
<1>4. durs = IF loaded = 0 THEN raw
             ELSE [i \in 1..n |-> AtLeast(MinCard, (raw[i] * loaded) \div R)]
  BY DEF Scaled
<1> HIDE DEF raw, durs
<1>5. R \in Nat \ {0}
  <2>1. \A i \in 1..n : raw[i] # 0 BY <1>1, <1>2
  <2> QED BY <1>3, <2>1, TotalNat
<1> HIDE DEF R
<1>6. CASE loaded = 0
  <2>1. durs = raw BY <1>4, <1>6
  <2>2. R + n >= 0 BY <1>5
  <2> QED BY <1>2, <1>3, <1>6, <2>1, <2>2 DEF durs, R
<1>7. CASE loaded # 0
  <2>1. ASSUME NEW i \in 1..n
        PROVE  /\ durs[i] \in Nat /\ durs[i] >= MinCard
               /\ raw[i] * loaded \in Nat /\ raw[i] * loaded <= R * durs[i] + R
    <3> DEFINE x == raw[i] * loaded
               q == x \div R
    <3>1. x \in Nat BY <1>2
    <3> HIDE DEF x
    <3>2. q \in Nat /\ x < R * q + R BY <1>5, <3>1, Division
    <3>3. durs[i] = AtLeast(MinCard, q) BY <1>4, <1>7 DEF x
    <3> HIDE DEF q
    <3>4. durs[i] \in Nat /\ durs[i] >= MinCard /\ q <= durs[i] BY <1>1, <3>2, <3>3 DEF AtLeast
    <3>5. q * R \in Nat /\ durs[i] * R \in Nat /\ q * R <= durs[i] * R BY <1>5, <3>2, <3>4, MulMono
    <3>6. q * R = R * q /\ durs[i] * R = R * durs[i] BY <1>5, <3>2, <3>4
    <3>7. x <= R * durs[i] + R BY <1>5, <3>1, <3>2, <3>5, <3>6
    <3> QED BY <3>1, <3>4, <3>7 DEF x
  <2>2. durs \in [1..n -> Nat] BY <1>4, <1>7, <2>1
  <2>3. PICK D \in [0..n -> Int] :
          /\ D[0] = 0 /\ \A i \in 1..n : D[i] = D[i - 1] + durs[i]
          /\ Total(durs) = D[n]
    <3>1. durs \in [1..n -> Int] BY <2>2
    <3>2. n \in Nat OBVIOUS
    <3> QED BY <3>1, <3>2, PartialSums
  <2>4. PICK S \in [0..n -> Int] :
          /\ S[0] = 0 /\ \A i \in 1..n : S[i] = S[i - 1] + raw[i]
          /\ Total(raw) = S[n]
    <3>1. raw \in [1..n -> Int] BY <1>3
    <3>2. n \in Nat OBVIOUS
    <3> QED BY <3>1, <3>2, PartialSums
  <2> DEFINE K == {k \in 0..n : S[k] * loaded <= R * (D[k] + k)}
  <2>5. 0 \in K BY <1>5, <2>3, <2>4
  <2>6. ASSUME NEW k \in 1..n, k - 1 \in K PROVE k \in K
    <3>1. k - 1 \in 0..n /\ k \in 0..n /\ k \in Int OBVIOUS
    <3>2. S[k - 1] \in Int /\ D[k - 1] \in Int /\ raw[k] \in Int /\ durs[k] \in Int
      BY <1>2, <2>1, <2>3, <2>4, <3>1
    <3> PICK s \in Int, d \in Int, r \in Int, e \in Int :
               s = S[k - 1] /\ d = D[k - 1] /\ r = raw[k] /\ e = durs[k]
      BY <3>2
    <3>3. S[k] = s + r /\ D[k] = d + e BY <2>3, <2>4
    <3>4. s * loaded <= R * (d + (k - 1)) BY <2>6
    <3>5. r * loaded <= R * e + R BY <2>1
    <3>10. R \in Int /\ loaded \in Int /\ k \in Int BY <1>5, <3>1
    <3>9. (s + r) * loaded <= R * (d + e + k) BY <3>4, <3>5, <3>10, OneMore
    <3> QED BY <3>1, <3>3, <3>9
  <2> HIDE DEF K
  <2>7. 0..n \subseteq K BY <2>5, <2>6, UpTo
  <2>8. R * loaded <= R * (D[n] + n)
    <3>1. n \in 0..n OBVIOUS
    <3>2. S[n] = R BY <2>4 DEF R
    <3> QED BY <2>7, <3>1, <3>2 DEF K
  <2>9. D[n] \in Int BY <2>3
  <2>10. loaded <= D[n] + n
    <3>1. PICK y \in Int : y = D[n] + n BY <2>9
    <3>2. R * loaded <= R * y BY <2>8, <3>1
    <3>3. ASSUME y < loaded PROVE FALSE
      <4>1. loaded - y \in Nat \ {0} BY <3>1, <3>3
      <4>2. R * (loaded - y) > 0 BY <1>5, <4>1
      <4>3. R * (loaded - y) = R * loaded - R * y BY <1>5, <3>1
      <4>4. R * loaded \in Int /\ R * y \in Int BY <1>5, <3>1
      <4> QED BY <3>2, <4>2, <4>3, <4>4
    <3> QED BY <3>1, <3>3
  <2> QED BY <2>1, <2>2, <2>3, <2>10 DEF durs
<1> QED BY <1>6, <1>7

\* Clips in a row, each fading into the next.
Chain(clips, n, fade) ==
  /\ Len(clips) = n /\ clips[1].from = 0
  /\ \A i \in 1..n : clips[i].from \in Int /\ clips[i].to \in Int /\ clips[i].from + MinCard <= clips[i].to
  /\ \A i \in 1..n : i < n => clips[i + 1].from = clips[i].to - fade

\* What concatenating the clips makes of their durations.
LEMMA ChainedFacts ==
  ASSUME NEW n \in Nat \ {0}, NEW durs \in [1..n -> Nat], \A i \in 1..n : durs[i] >= MinCard,
         NEW fade \in Nat
  PROVE  /\ Chain(ChainedClips(durs, fade), n, fade)
         /\ fade = 0 => Last(ChainedClips(durs, fade)).to = Total(durs)
<1> DEFINE clips == ChainedClips(durs, fade)
<1>0. n \in Nat /\ durs \in [1..n -> Int] /\ Len(durs) = n /\ MinCard \in Nat BY TimelineAssumption
<1>1. PICK sum \in [0..n -> Int] :
        /\ sum[0] = 0 /\ \A i \in 1..n : sum[i] = sum[i - 1] + durs[i]
        /\ \A i \in 0..n : Total(SubSeq(durs, 1, i)) = sum[i]
        /\ Total(durs) = sum[n]
  BY <1>0, PartialSums
<1>2. clips = [i \in 1..n |-> [from |-> Total(SubSeq(durs, 1, i - 1)) - (i - 1) * fade,
                               to |-> Total(SubSeq(durs, 1, i - 1)) - (i - 1) * fade + durs[i]]]
  BY <1>0 DEF ChainedClips
<1> HIDE DEF clips
<1>3. ASSUME NEW i \in 1..n
      PROVE  /\ sum[i - 1] \in Int /\ sum[i] = sum[i - 1] + durs[i]
             /\ clips[i].from = sum[i - 1] - (i - 1) * fade
             /\ clips[i].to = sum[i - 1] - (i - 1) * fade + durs[i]
             /\ (i - 1) * fade \in Int
  <2>1. i - 1 \in 0..n OBVIOUS
  <2>2. clips[i] = [from |-> Total(SubSeq(durs, 1, i - 1)) - (i - 1) * fade,
                    to |-> Total(SubSeq(durs, 1, i - 1)) - (i - 1) * fade + durs[i]]
    BY <1>2
  <2> QED BY <1>1, <2>1, <2>2
<1>4. Len(clips) = n BY <1>2
<1>5. clips[1].from = 0
  <2>1. 1 \in 1..n /\ (1 - 1) * fade = 0 OBVIOUS
  <2> QED BY <1>1, <1>3, <2>1
<1>6. ASSUME NEW i \in 1..n
      PROVE  clips[i].from \in Int /\ clips[i].to \in Int /\ clips[i].from + MinCard <= clips[i].to
  <2>1. durs[i] \in Nat /\ durs[i] >= MinCard OBVIOUS
  <2>2. PICK z \in Int, p \in Int : z = (i - 1) * fade /\ p = sum[i - 1] BY <1>3
  <2>3. clips[i].from = p - z /\ clips[i].to = p - z + durs[i] BY <1>3, <2>2
  <2> QED BY <1>0, <2>1, <2>3
<1>7. ASSUME NEW i \in 1..n, i < n PROVE clips[i + 1].from = clips[i].to - fade
  <2>1. PICK j \in 1..n : j = i + 1 /\ j - 1 = i BY <1>7
  <2>8. clips[j].from = sum[j - 1] - (j - 1) * fade BY <1>3
  <2>2. clips[i + 1].from = sum[i] - i * fade BY <2>1, <2>8
  <2>3. PICK z \in Int, p \in Int : z = (i - 1) * fade /\ p = sum[i - 1] BY <1>3
  <2>4. PICK a \in Int : a = i * fade /\ a = z + fade BY <2>3
  <2>9. clips[i + 1].from = sum[i] - a BY <2>2, <2>4
  <2>5. sum[i] = p + durs[i] /\ clips[i].to = p - z + durs[i] BY <1>3, <2>3
  <2>6. durs[i] \in Nat OBVIOUS
  <2>7. clips[i + 1].from = p + durs[i] - (z + fade) BY <2>4, <2>5, <2>9
  <2> QED BY <2>5, <2>6, <2>7
<1>8. ASSUME fade = 0 PROVE Last(clips).to = Total(durs)
  <2>1. n \in 1..n /\ (n - 1) * fade = 0 BY <1>8
  <2>2. sum[n - 1] \in Int /\ durs[n] \in Nat BY <1>3, <2>1
  <2>3. clips[n].to = sum[n - 1] - 0 + durs[n] /\ sum[n] = sum[n - 1] + durs[n] BY <1>3, <2>1
  <2>4. clips[n].to = sum[n] BY <2>2, <2>3
  <2> QED BY <1>1, <1>4, <2>4 DEF Last
<1> QED BY <1>4, <1>5, <1>6, <1>7, <1>8 DEF Chain, clips

\* The settings of a film.
LEMMA ModeFacts == ASSUME VoiceInv
                   PROVE  mode.fade \in Nat /\ mode.fade <= Fade /\ Fade \in Nat /\ Fade < MinCard
                          /\ MinCard \in Nat \ {0} /\ Closing \in Nat
<1>1. mode.fade \in {0, Fade} BY DEF VoiceInv, Modes
<1> QED BY <1>1, TimelineAssumption

\* Clips that follow the stamps: each is up from its card's stamp, or a fade before it, to
\* the next card's stamp, or the end.
Placed(n) ==
  /\ Len(film.clips) = n /\ film.clips[1].from = cards[1].start
  /\ \A i \in 1..n :
       /\ film.clips[i].from \in Int /\ film.clips[i].to \in Int
       /\ film.clips[i].from <= cards[i].start /\ cards[i].start <= film.clips[i].from + mode.fade
       /\ i # 1 => film.clips[i].from = AtLeast(0, cards[i].start - mode.fade)
       /\ i < n => cards[i + 1].start <= film.clips[i].to
  /\ film.length <= film.clips[n].to

\* What a film is, from the cards it was built of.
LEMMA FilmFacts ==
  ASSUME VoiceInv, CardInv, FilmInv, film # NoFilm
  PROVE  LET n == Len(text) IN
         /\ n \in Nat \ {0} /\ Len(cards) = n /\ \A i \in 1..n : cards[i].text = text[i]
         /\ Len(film.clips) = n /\ film.length \in Int /\ film.timed \in BOOLEAN
         /\ ~film.timed => Chain(film.clips, n, mode.fade) /\ film.length = film.clips[n].to
         /\ film.timed => /\ Timed(cards, text) /\ Placed(n)
                          /\ film.length = AtMost(audio.length, cards[n].end + Closing)
         /\ film.sound > 0 => film.sound = AtMost(audio.length, film.length)
         /\ film.sound > 0 /\ ~film.timed /\ mode.fade = 0 => audio.length <= film.length + n
<1> DEFINE n == Len(text)
<1>1. PICK loaded \in {0, audio.length} : Built(loaded) BY DEF FilmInv
<1>2. /\ film.clips = Clips(loaded) /\ film.length = Length(loaded) /\ film.timed = IsTimed(loaded)
      /\ film.sound \in {0, AtMost(loaded, Length(loaded))}
  BY <1>1 DEF Built
<1>3. Carded BY DEF FilmInv, Assembled, Carded
<1>4. n \in Nat \ {0} /\ text \in Texts BY TextFacts DEF VoiceInv
<1>5. Len(cards) = n /\ \A i \in 1..n : cards[i].text = text[i] BY <1>3, CardTexts
<1>6. audio.length \in Nat /\ loaded \in Nat BY <1>1, VoiceFacts
<1>7. /\ mode.fade \in Nat /\ mode.fade <= Fade /\ Fade \in Nat /\ Fade < MinCard
      /\ MinCard \in Nat \ {0} /\ Closing \in Nat
  BY ModeFacts
<1> HIDE DEF n
<1>8. n \in 1..n /\ 1 \in 1..n BY <1>4
<1>9. CASE IsTimed(loaded)
  <2>1. loaded > 0 /\ loaded = audio.length BY <1>1, <1>9 DEF IsTimed
  <2>2. \A i \in 1..n : cards[i].timed BY <1>5, <1>9 DEF IsTimed, Stamped
  <2>3. Timed(cards, text)
    <3>1. ASSUME Plain(cards, text) PROVE FALSE
      <4>1. cards[1] = PlainCard(text[1], cards[1].dur) BY <1>8, <3>1 DEF Plain, n
      <4>2. \A d : PlainCard(text[1], d).timed = FALSE BY DEF PlainCard
      <4>3. cards[1].timed = FALSE BY <4>1, <4>2, Zenon
      <4> QED BY <1>8, <2>2, <4>3
    <3> QED BY <1>3, <3>1 DEF CardInv
  <2>4. \A i \in 1..n : cards[i].start \in Nat /\ cards[i].end \in Nat BY <2>3 DEF Timed, n
  <2>5. film.length = AtMost(audio.length, cards[n].end + Closing)
    <3>1. Last(cards) = cards[n] BY <1>5 DEF Last
    <3> QED BY <1>2, <1>9, <2>1, <3>1 DEF Length, Cut
  <2>6. film.length \in Nat BY <1>6, <1>7, <1>8, <2>4, <2>5 DEF AtMost
  <2>7. film.clips = [i \in 1..n |->
          LET c == cards[i]
              next == IF i < n THEN cards[i + 1].start ELSE film.length
              len == AtLeast(MinCard, next - c.start)
              lead == IF i > 1 THEN mode.fade ELSE 0
              from == AtLeast(0, c.start - lead)
          IN  [from |-> from, to |-> from + len + lead]]
    BY <1>2, <1>5, <1>9 DEF Clips, Length, StampedClips
  <2>8. ASSUME NEW i \in 1..n
        PROVE  /\ film.clips[i].from \in Int /\ film.clips[i].to \in Int
               /\ film.clips[i].from <= cards[i].start
               /\ cards[i].start <= film.clips[i].from + mode.fade
               /\ i = 1 => film.clips[i].from = cards[i].start
               /\ i # 1 => film.clips[i].from = AtLeast(0, cards[i].start - mode.fade)
               /\ i < n => cards[i + 1].start <= film.clips[i].to
               /\ i = n => film.length <= film.clips[i].to
    <3> DEFINE a == cards[i].start
               next == IF i < n THEN cards[i + 1].start ELSE film.length
               len == AtLeast(MinCard, next - a)
               lead == IF i > 1 THEN mode.fade ELSE 0
               from == AtLeast(0, a - lead)
    <3>1. film.clips[i] = [from |-> from, to |-> from + len + lead] BY <2>7
    <3>2. film.clips[i].from = from /\ film.clips[i].to = from + len + lead BY <3>1
    <3>3. a \in Nat BY <2>4
    <3>4. next \in Int
      <4>1. i < n => i + 1 \in 1..n BY <1>4
      <4> QED BY <2>4, <2>6, <4>1
    <3>5. i < n => next = cards[i + 1].start OBVIOUS
    <3>6. i = n => next = film.length BY <1>4
    <3>7. lead \in Nat /\ lead <= mode.fade /\ (i = 1 => lead = 0) /\ (i # 1 => lead = mode.fade)
      BY <1>4, <1>7
    <3> HIDE DEF next, lead
    <3>8. len \in Int /\ next - a <= len BY <1>7, <3>3, <3>4 DEF AtLeast
    <3>9. from \in Int /\ from <= a /\ a <= from + lead BY <3>3, <3>7 DEF AtLeast
    <3>10. i = 1 => from = a BY <3>3, <3>7 DEF AtLeast
    <3>11. i # 1 => from = AtLeast(0, a - mode.fade) BY <3>7
    <3> HIDE DEF a, len, from
    <3>12. from + len + lead \in Int /\ next <= from + len + lead BY <3>3, <3>4, <3>7, <3>8, <3>9
    <3>13. a <= from + mode.fade BY <1>7, <3>3, <3>7, <3>9
    <3> QED BY <3>2, <3>5, <3>6, <3>9, <3>10, <3>11, <3>12, <3>13 DEF a
  <2>9. Len(film.clips) = n BY <1>4, <2>7
  <2>10. Placed(n) BY <1>8, <2>8, <2>9 DEF Placed
  <2>11. film.sound > 0 => film.sound = AtMost(audio.length, film.length) BY <1>2, <2>1
  <2> QED BY <1>2, <1>4, <1>5, <1>9, <2>3, <2>5, <2>6, <2>9, <2>10, <2>11 DEF n
<1>10. CASE ~IsTimed(loaded)
  <2> DEFINE durs == Scaled(cards, loaded)
  <2>1. film.clips = ChainedClips(durs, mode.fade) BY <1>2, <1>10 DEF Clips
  <2>2. \A i \in 1..n : cards[i].dur \in Int BY <1>3 DEF CardInv, Plain, Timed, n
  <2>3. durs \in [1..n -> Nat] /\ (\A i \in 1..n : durs[i] >= MinCard) /\ loaded <= Total(durs) + n
    BY <1>4, <1>5, <1>6, <2>2, ScaledFacts
  <2> HIDE DEF durs
  <2>4. Chain(film.clips, n, mode.fade) /\ (mode.fade = 0 => Last(film.clips).to = Total(durs))
    BY <1>4, <1>7, <2>1, <2>3, ChainedFacts
  <2>5. Len(film.clips) = n /\ film.clips[n].to \in Int BY <1>8, <2>4 DEF Chain
  <2>6. film.length = film.clips[n].to BY <1>2, <1>10, <2>5 DEF Length, Last
  <2>7. film.sound > 0 => film.sound = AtMost(audio.length, film.length)
    <3>1. ASSUME film.sound > 0 PROVE loaded # 0 \/ film.sound = AtMost(audio.length, film.length)
      <4>1. film.sound = AtMost(loaded, film.length) BY <1>2, <3>1
      <4>2. ASSUME loaded = 0 PROVE FALSE
        <5>1. film.sound <= 0 /\ film.sound \in Int BY <2>5, <2>6, <4>1, <4>2 DEF AtMost
        <5> QED BY <3>1, <5>1
      <4> QED BY <4>2
    <3> QED BY <1>1, <1>2, <3>1
  <2>8. ASSUME film.sound > 0, mode.fade = 0 PROVE audio.length <= film.length + n
    <3>1. film.length = Total(durs) BY <2>4, <2>5, <2>6, <2>8 DEF Last
    <3>2. loaded # 0
      <4>1. film.sound = AtMost(loaded, film.length) BY <1>2, <2>8
      <4>2. ASSUME loaded = 0 PROVE FALSE
        <5>1. film.sound <= 0 /\ film.sound \in Int BY <2>5, <2>6, <4>1, <4>2 DEF AtMost
        <5> QED BY <2>8, <5>1
      <4> QED BY <4>2
    <3> QED BY <1>1, <2>3, <3>1, <3>2
  <2>9. film.timed = FALSE
    <3>1. film.timed \in BOOLEAN BY <1>2 DEF IsTimed
    <3>2. ~film.timed BY <1>2, <1>10
    <3> QED BY <3>1, <3>2
  <2>10. film.length \in Int BY <2>5, <2>6
  <2> QED BY <1>4, <1>5, <2>4, <2>5, <2>6, <2>7, <2>8, <2>9, <2>10 DEF n
<1> QED BY <1>9, <1>10

-----------------------------------------------------------------------------
(* What is on screen.                                                      *)

\* The last clip that has begun is on top if it is not over.
LEMMA TopIs ==
  ASSUME NEW n \in Nat, Len(film.clips) = n, NEW t \in Int, NEW i \in 1..n,
         film.clips[i].from <= t, t < film.clips[i].to,
         \A j \in 1..n : film.clips[j].from <= t => j <= i
  PROVE  OnScreen(t) # {} /\ Top(t) = i
<1>1. OnScreen(t) \in SUBSET Int /\ i \in OnScreen(t) BY DEF OnScreen
<1>2. \A j \in OnScreen(t) : j <= i BY DEF OnScreen
<1> QED BY <1>1, <1>2, MaxIs DEF Top

\* The last clip that has begun.
LEMMA LastBegun ==
  ASSUME NEW n \in Nat \ {0}, NEW t \in Int, film.clips[1].from <= t
  PROVE  \E i \in 1..n : /\ film.clips[i].from <= t
                         /\ \A j \in 1..n : film.clips[j].from <= t => j <= i
<1> DEFINE S == {j \in 1..n : film.clips[j].from <= t}
<1>1. S \in SUBSET (1..n) /\ S # {}
  <2>1. 1 \in S OBVIOUS
  <2> QED BY <2>1
<1>2. Max(S) \in S /\ \A j \in S : j <= Max(S)
  <2> HIDE DEF S
  <2> QED BY <1>1, MaxExists
<1> QED BY <1>2

\* In a row every clip begins after the one before it, and no gap is left.
LEMMA ChainOrder ==
  ASSUME NEW n \in Nat \ {0}, NEW fade \in Nat, fade < MinCard, MinCard \in Nat,
         NEW clips, Chain(clips, n, fade)
  PROVE  \A i, j \in 1..n : i < j => clips[i].from < clips[j].from
<1> DEFINE f == [i \in 0..n |-> IF i = 0 THEN -1 - n ELSE clips[i].from - i]
<1>1. \A i \in 1..n : clips[i].from \in Int /\ clips[i].to \in Int /\ clips[i].from + MinCard <= clips[i].to
  BY DEF Chain
<1>2. f \in [0..n -> Int]
  <2>1. \A i \in 0..n : i # 0 => i \in 1..n OBVIOUS
  <2> QED BY <1>1, <2>1
<1>3. ASSUME NEW i \in 1..n PROVE f[i - 1] <= f[i]
  <2>1. CASE i = 1
    <3>1. clips[1].from = 0 BY DEF Chain
    <3> QED BY <2>1, <3>1
  <2>2. CASE i # 1
    <3>1. i - 1 \in 1..n /\ i - 1 < n /\ i - 1 + 1 = i BY <2>2
    <3>2. clips[i].from = clips[i - 1].to - fade BY <3>1 DEF Chain
    <3>3. clips[i - 1].from < clips[i].from BY <1>1, <3>1, <3>2
    <3>4. f[i - 1] = clips[i - 1].from - (i - 1) /\ f[i] = clips[i].from - i BY <3>1
    <3> QED BY <1>1, <3>1, <3>3, <3>4
  <2> QED BY <2>1, <2>2
<1>4. \A i \in 1..n : f[i] = clips[i].from - i /\ i \in 0..n OBVIOUS
<1> HIDE DEF f
<1>5. \A i, j \in 0..n : i <= j => f[i] <= f[j] BY <1>2, <1>3, Monotone
<1>6. ASSUME NEW i \in 1..n, NEW j \in 1..n, i < j PROVE clips[i].from < clips[j].from
  <2>1. f[i] <= f[j] BY <1>4, <1>5, <1>6
  <2> QED BY <1>1, <1>4, <1>6, <2>1
<1> QED BY <1>6

\* The card on top follows the voice.
LEMMA Follows == VoiceInv /\ CardInv /\ FilmInv => CardsFollowVoice
<1> SUFFICES ASSUME VoiceInv, CardInv, FilmInv, film.clips # << >>,
                    NEW t \in film.clips[1].from..(film.length - 1)
             PROVE  /\ OnScreen(t) # {}
                    /\ film.timed => Top(t) \in {Speaking(t), Speaking(t + mode.fade)}
  BY DEF CardsFollowVoice
<1> DEFINE n == Len(text)
<1>1. film # NoFilm BY DEF NoFilm
<1>2. /\ n \in Nat \ {0} /\ Len(cards) = n /\ Len(film.clips) = n /\ film.length \in Int
      /\ ~film.timed => Chain(film.clips, n, mode.fade) /\ film.length = film.clips[n].to
      /\ film.timed => Timed(cards, text) /\ Placed(n)
  BY <1>1, FilmFacts
<1>3. mode.fade \in Nat /\ mode.fade < MinCard /\ MinCard \in Nat BY ModeFacts
<1> HIDE DEF n
<1>4. 1 \in 1..n /\ n \in Nat BY <1>2
<1>5. film.clips[1].from \in Int BY <1>2, <1>4 DEF Chain, Placed
<1>6. t \in Int /\ film.clips[1].from <= t /\ t < film.length BY <1>2, <1>5
<1>7. PICK i \in 1..n : /\ film.clips[i].from <= t
                        /\ \A j \in 1..n : film.clips[j].from <= t => j <= i
  BY <1>2, <1>6, LastBegun
<1>8. i # n => i < n /\ i + 1 \in 1..n /\ ~(film.clips[i + 1].from <= t)
  <2>1. i # n => i < n /\ i + 1 \in 1..n /\ ~(i + 1 <= i) BY <1>2
  <2> QED BY <1>7, <2>1
<1>9. CASE ~film.timed
  <2>1. Chain(film.clips, n, mode.fade) /\ film.length = film.clips[n].to BY <1>2, <1>9
  <2>2. film.clips[i].to \in Int BY <2>1 DEF Chain
  <2>3. t < film.clips[i].to
    <3>1. CASE i = n BY <1>6, <2>1, <3>1
    <3>2. CASE i # n
      <4>1. film.clips[i + 1].from = film.clips[i].to - mode.fade BY <1>8, <2>1, <3>2 DEF Chain
      <4> QED BY <1>3, <1>6, <1>8, <2>2, <3>2, <4>1
    <3> QED BY <3>1, <3>2
  <2> QED BY <1>2, <1>4, <1>6, <1>7, <1>9, <2>3, TopIs
<1>10. CASE film.timed
  <2>1. Placed(n) BY <1>2, <1>10
  <2>2. \A j \in 1..n : cards[j].start \in Nat BY <1>2, <1>10 DEF Timed, n
  <2>3. film.clips[i].to \in Int BY <2>1 DEF Placed
  <2>4. t < film.clips[i].to
    <3>1. CASE i = n
      <4>1. film.length <= film.clips[n].to BY <2>1 DEF Placed
      <4> QED BY <1>2, <1>6, <2>3, <3>1, <4>1
    <3>2. CASE i # n
      <4>1. cards[i + 1].start <= film.clips[i].to BY <1>8, <2>1, <3>2 DEF Placed
      <4>2. film.clips[i + 1].from <= cards[i + 1].start /\ film.clips[i + 1].from \in Int
        BY <1>8, <2>1, <3>2 DEF Placed
      <4>3. cards[i + 1].start \in Nat /\ ~(film.clips[i + 1].from <= t) BY <1>8, <2>2, <3>2
      <4> QED BY <1>6, <2>3, <4>1, <4>2, <4>3
    <3> QED BY <3>1, <3>2
  <2>5. OnScreen(t) # {} /\ Top(t) = i BY <1>2, <1>4, <1>6, <1>7, <2>4, TopIs
  <2>6. t \in Nat /\ cards[1].start <= t
    <3>1. film.clips[1].from = cards[1].start BY <2>1 DEF Placed
    <3> QED BY <1>4, <1>6, <2>2, <3>1
  <2>7. ASSUME NEW j \in 1..n PROVE film.clips[j].from <= t <=> cards[j].start <= t + mode.fade
    <3>1. cards[j].start \in Nat BY <2>2
    <3>2. CASE j = 1
      <4>1. film.clips[1].from <= t BY <1>6
      <4>2. cards[1].start \in Nat /\ cards[1].start <= t /\ t \in Nat BY <1>4, <2>2, <2>6
      <4>3. cards[1].start <= t + mode.fade BY <1>3, <4>2
      <4> QED BY <3>2, <4>1, <4>3
    <3>3. CASE j # 1
      <4>1. film.clips[j].from = AtLeast(0, cards[j].start - mode.fade) BY <2>1, <3>3 DEF Placed
      <4> QED BY <1>3, <2>6, <3>1, <4>1 DEF AtLeast
    <3> QED BY <3>2, <3>3
  <2> DEFINE S == {j \in 1..Len(cards) : cards[j].start <= t + mode.fade}
  <2>8. S \in SUBSET Int /\ i \in S /\ \A j \in S : j <= i BY <1>2, <1>7, <2>7
  <2> HIDE DEF S
  <2>9. Max(S) = i BY <2>8, MaxIs
  <2> QED BY <2>5, <2>9 DEF S, Speaking
<1> QED BY <1>9, <1>10

\* When Whisper hears the words, the stamps are the times at which the sentences are spoken.
LEMMA ExactTimes ==
  ASSUME VoiceInv, CardInv, exact
  PROVE  LET n == Len(text) IN
         /\ n \in Nat \ {0} /\ Len(Spoken) = Len(FlattenSeq(text)) /\ Spoken # << >>
         /\ \A i \in 1..n :
              /\ cards[i].start \in Nat /\ cards[i].end \in Nat
              /\ cards[i].start < cards[i].end /\ cards[i].end <= cards[n].end
              /\ cards[1].start <= cards[i].start
              /\ \A j \in 1..n : i < j => cards[i].end <= cards[j].start
         /\ cards[n].end <= audio.length /\ Last(Spoken).end = cards[n].end
<1> DEFINE n == Len(text)
           b(i) == Before(text, i)
           l(i) == Len(text[i])
           L == Len(Spoken)
           beat == audio.beat
<1>1. /\ text \in Texts /\ n \in Nat \ {0} /\ text # << << >> >> /\ Exact(cards)
      /\ audio.length > 0
  BY TextFacts DEF VoiceInv, CardInv
<1>2. /\ beat \in Nat /\ beat # 0 /\ audio.length \in Nat /\ Len(FlattenSeq(text)) \in Nat
      /\ Lead + Len(FlattenSeq(text)) * beat <= audio.length
  BY <1>1, VoiceFacts
<1>3. \A i \in 1..n :
        /\ l(i) \in Nat \ {0} /\ b(i) \in Nat /\ b(i) + l(i) <= L
        /\ i = n => b(i) + l(i) = L
        /\ \A j \in 1..n : i < j => b(i) + l(i) <= b(j)
  <2>1. audio.beat \in Nat BY <1>2
  <2> QED BY <1>1, <2>1, ExactTranscription
<1>4. /\ L = Len(FlattenSeq(text)) /\ Spoken \in Seq(HeardWord)
      /\ \A k \in 1..Len(FlattenSeq(text)) : Spoken[k].end = Lead + k * beat
  <2>1. audio.beat \in Nat BY <1>2
  <2>2. /\ Len(Spoken) = Len(FlattenSeq(text)) /\ Spoken \in Seq(HeardWord)
        /\ \A k \in 1..Len(FlattenSeq(text)) :
             Spoken[k] = [word |-> FlattenSeq(text)[k], start |-> Lead + (k - 1) * audio.beat,
                          end |-> Lead + k * audio.beat]
    BY <1>1, <2>1, SpokenFacts
  <2>3. ASSUME NEW k \in 1..Len(FlattenSeq(text)) PROVE Spoken[k].end = Lead + k * beat
    <3>1. Spoken[k] = [word |-> FlattenSeq(text)[k], start |-> Lead + (k - 1) * audio.beat,
                       end |-> Lead + k * audio.beat]
      BY <2>2
    <3> QED BY <3>1
  <2> QED BY <2>2, <2>3
<1>5. \A i \in 1..n : /\ cards[i].start = Lead + b(i) * beat
                      /\ cards[i].end = Lead + (b(i) + l(i)) * beat
  BY <1>1 DEF Exact
<1>6. Lead \in Nat BY RenderAssumption
<1> HIDE DEF n, b, l, L, beat
<1>7. n \in 1..n /\ 1 \in 1..n /\ L \in Nat BY <1>1, <1>2, <1>4
<1>8. \A p, q \in Nat : /\ Lead + p * beat \in Nat
                        /\ p <= q => Lead + p * beat <= Lead + q * beat
                        /\ p < q => Lead + p * beat < Lead + q * beat
  <2> SUFFICES ASSUME NEW p \in Nat, NEW q \in Nat
               PROVE  /\ Lead + p * beat \in Nat
                      /\ p <= q => Lead + p * beat <= Lead + q * beat
                      /\ p < q => Lead + p * beat < Lead + q * beat
    OBVIOUS
  <2>1. p * beat \in Nat /\ q * beat \in Nat BY <1>2
  <2>2. p <= q => p * beat <= q * beat BY <1>2, MulMono
  <2>3. ASSUME p < q PROVE p * beat < q * beat
    <3>1. p + 1 <= q /\ p + 1 \in Nat BY <2>3
    <3>2. (p + 1) * beat <= q * beat BY <1>2, <3>1, MulMono
    <3>3. (p + 1) * beat = p * beat + beat BY <1>2
    <3> QED BY <1>2, <2>1, <3>2, <3>3
  <2> QED BY <1>6, <2>1, <2>2, <2>3
<1>9. ASSUME NEW i \in 1..n
      PROVE  /\ cards[i].start \in Nat /\ cards[i].end \in Nat
             /\ cards[i].start < cards[i].end /\ cards[i].end <= cards[n].end
             /\ cards[1].start <= cards[i].start
             /\ \A j \in 1..n : i < j => cards[i].end <= cards[j].start
  <2>1. /\ b(i) \in Nat /\ b(i) + l(i) \in Nat /\ b(i) < b(i) + l(i)
        /\ b(i) + l(i) <= L /\ b(n) + l(n) = L
    BY <1>3, <1>7
  <2>2. cards[i].start \in Nat /\ cards[i].end \in Nat /\ cards[i].start < cards[i].end
    BY <1>5, <1>8, <2>1
  <2>3. cards[i].end <= cards[n].end BY <1>5, <1>7, <1>8, <2>1
  <2>4. cards[1].start <= cards[i].start
    <3>1. CASE i = 1 BY <2>2, <3>1
    <3>2. CASE i # 1
      <4>1. 1 < i BY <3>2
      <4>2. b(1) \in Nat /\ l(1) \in Nat /\ b(1) + l(1) <= b(i) BY <1>3, <1>7, <4>1
      <4>3. b(1) <= b(i) BY <2>1, <4>2
      <4> QED BY <1>5, <1>7, <1>8, <2>1, <4>2, <4>3
    <3> QED BY <3>1, <3>2
  <2>5. ASSUME NEW j \in 1..n, i < j PROVE cards[i].end <= cards[j].start
    <3>1. b(j) \in Nat /\ b(i) + l(i) <= b(j) BY <1>3, <2>5
    <3> QED BY <1>5, <1>8, <2>1, <3>1
  <2> QED BY <2>2, <2>3, <2>4, <2>5
<1>10. cards[n].end = Lead + L * beat
  <2>1. b(n) + l(n) = L BY <1>3, <1>7
  <2> QED BY <1>5, <1>7, <2>1
<1>11. L # 0
  <2>1. b(n) \in Nat /\ l(n) \in Nat \ {0} /\ b(n) + l(n) <= L BY <1>3, <1>7
  <2> QED BY <2>1
<1>12. Spoken # << >> BY <1>11 DEF L
<1>13. Last(Spoken).end = Lead + L * beat
  <2>1. L \in 1..L BY <1>7, <1>11
  <2>2. Spoken[L].end = Lead + L * beat BY <1>4, <2>1
  <2> QED BY <2>2 DEF Last, L
<1>14. cards[n].end <= audio.length BY <1>2, <1>4, <1>10
<1> QED BY <1>1, <1>4, <1>9, <1>10, <1>12, <1>13, <1>14 DEF n, L

\* The narration is not cut off.
LEMMA Kept == VoiceInv /\ CardInv /\ FilmInv => NarrationKept
<1> SUFFICES ASSUME VoiceInv, CardInv, FilmInv, film.sound > 0, Spoken # << >>,
                    (film.timed /\ exact) \/ (~film.timed /\ mode.fade = 0)
             PROVE  Last(Spoken).end <= film.sound + (IF film.timed THEN 0 ELSE Len(cards))
  BY DEF NarrationKept
<1> DEFINE n == Len(text)
<1>1. film # NoFilm BY DEF NoFilm
<1>2. /\ n \in Nat \ {0} /\ Len(cards) = n /\ film.length \in Int
      /\ film.timed => film.length = AtMost(audio.length, cards[n].end + Closing)
      /\ film.sound = AtMost(audio.length, film.length)
      /\ ~film.timed /\ mode.fade = 0 => audio.length <= film.length + n
  BY <1>1, FilmFacts
<1>3. /\ text \in Texts /\ audio.beat \in Nat /\ audio.length \in Nat /\ Closing \in Nat
  BY VoiceFacts, ModeFacts DEF VoiceInv
<1> HIDE DEF n
<1>4. CASE film.timed /\ exact
  <2>1. cards[n].end \in Nat /\ cards[n].end <= audio.length /\ Last(Spoken).end = cards[n].end
    BY <1>2, <1>4, ExactTimes DEF n
  <2>2. film.length = AtMost(audio.length, cards[n].end + Closing) BY <1>2, <1>4
  <2>3. cards[n].end <= film.sound /\ film.sound \in Int BY <1>2, <1>3, <2>1, <2>2 DEF AtMost
  <2> QED BY <1>4, <2>1, <2>3
<1>5. CASE ~film.timed /\ mode.fade = 0
  <2>1. Last(Spoken).end <= audio.length /\ Last(Spoken).end \in Int
    <3> DEFINE L == Len(FlattenSeq(text))
    <3>1. /\ L \in Nat /\ Spoken \in Seq(HeardWord) /\ Len(Spoken) = L
          /\ \A k \in 1..L : Spoken[k] = [word |-> FlattenSeq(text)[k], start |-> Lead + (k - 1) * audio.beat,
                                          end |-> Lead + k * audio.beat]
      BY <1>3, SpokenFacts
    <3> HIDE DEF L
    <3>2. L \in 1..L
      <4>1. L # 0 BY <3>1, EmptySeq
      <4> QED BY <3>1, <4>1
    <3>3. Last(Spoken).end = Lead + L * audio.beat BY <3>1, <3>2 DEF Last
    <3>4. audio.length > 0
      <4>1. film.sound = AtMost(audio.length, film.length) BY <1>2
      <4>2. ASSUME audio.length = 0 PROVE FALSE
        <5>1. film.sound \in Int /\ film.sound <= 0 BY <1>2, <1>3, <4>1, <4>2 DEF AtMost
        <5> QED BY <5>1
      <4> QED BY <1>3, <4>2
    <3>5. Lead + L * audio.beat <= audio.length BY <3>4, VoiceFacts DEF L
    <3>6. Lead \in Nat /\ L * audio.beat \in Nat BY <1>3, <3>1, RenderAssumption
    <3>7. Lead + L * audio.beat \in Int BY <3>6
    <3> QED BY <3>3, <3>5, <3>7
  <2>2. audio.length <= film.length + n BY <1>2, <1>5
  <2>3. audio.length <= film.sound + n /\ film.sound \in Int BY <1>2, <1>3, <2>2 DEF AtMost
  <2>4. Last(Spoken).end <= film.sound + n BY <1>2, <1>3, <2>1, <2>3
  <2> QED BY <1>2, <1>5, <2>4
<1> QED BY <1>4, <1>5

\* Every sentence is on top at some time: a chained clip when it begins, a sentence whose
\* words are heard when its first word is spoken.
LEMMA Seen == VoiceInv /\ CardInv /\ FilmInv => EverySentenceSeen
<1> SUFFICES ASSUME VoiceInv, CardInv, FilmInv, film.clips # << >>, exact \/ ~film.timed
             PROVE  /\ Len(cards) = Len(text)
                    /\ \A i \in 1..Len(cards) : cards[i].text = text[i]
                    /\ \A i \in 1..Len(cards) :
                         (film.timed => cards[i].end - cards[i].start > mode.fade) =>
                           \E t \in film.clips[1].from..(film.length - 1) : i = Top(t)
  BY DEF EverySentenceSeen
<1> DEFINE n == Len(text)
<1>1. film # NoFilm BY DEF NoFilm
<1>2. /\ n \in Nat \ {0} /\ Len(cards) = n /\ \A i \in 1..n : cards[i].text = text[i]
      /\ Len(film.clips) = n /\ film.length \in Int
      /\ ~film.timed => Chain(film.clips, n, mode.fade) /\ film.length = film.clips[n].to
      /\ film.timed => Placed(n) /\ film.length = AtMost(audio.length, cards[n].end + Closing)
  BY <1>1, FilmFacts
<1>3. mode.fade \in Nat /\ mode.fade < MinCard /\ MinCard \in Nat /\ Closing \in Nat
  BY ModeFacts
<1>4. audio.length \in Nat BY VoiceFacts
<1> SUFFICES ASSUME NEW i \in 1..n, film.timed => cards[i].end - cards[i].start > mode.fade
             PROVE  \E t \in film.clips[1].from..(film.length - 1) : i = Top(t)
  BY <1>2
<1>5. film.timed => exact OBVIOUS
<1> HIDE DEF n
<1>6. 1 \in 1..n /\ n \in 1..n /\ n \in Nat BY <1>2
<1>7. CASE ~film.timed
  <2>1. Chain(film.clips, n, mode.fade) /\ film.length = film.clips[n].to BY <1>2, <1>7
  <2>2. \A j, k \in 1..n : j < k => film.clips[j].from < film.clips[k].from
    BY <1>2, <1>3, <2>1, ChainOrder
  <2>3. \A j \in 1..n : /\ film.clips[j].from \in Int /\ film.clips[j].to \in Int
                        /\ film.clips[j].from < film.clips[j].to
    <3>1. MinCard \in Nat \ {0} BY ModeFacts
    <3>2. ASSUME NEW j \in 1..n
          PROVE  /\ film.clips[j].from \in Int /\ film.clips[j].to \in Int
                 /\ film.clips[j].from < film.clips[j].to
      <4>1. /\ film.clips[j].from \in Int /\ film.clips[j].to \in Int
            /\ film.clips[j].from + MinCard <= film.clips[j].to
        BY <2>1 DEF Chain
      <4> QED BY <3>1, <4>1
    <3> QED BY <3>2
  <2> DEFINE t == film.clips[i].from
  <2>4. t \in Int BY <2>3
  <2>5. t < film.clips[i].to BY <2>3
  <2>6. ASSUME NEW j \in 1..n, film.clips[j].from <= t PROVE j <= i
    <3>1. ASSUME i < j PROVE FALSE BY <2>2, <2>3, <2>6, <3>1
    <3> QED BY <3>1
  <2>7. film.clips[1].from <= t
    <3>1. CASE i = 1 BY <2>4, <3>1
    <3>2. CASE i # 1
      <4>1. 1 < i BY <3>2
      <4> QED BY <1>6, <2>2, <2>3, <4>1
    <3> QED BY <3>1, <3>2
  <2>8. t <= film.length - 1
    <3>1. t <= film.clips[n].from
      <4>1. CASE i = n BY <2>4, <4>1
      <4>2. CASE i # n
        <5>1. i < n BY <1>6, <4>2
        <5> QED BY <1>6, <2>2, <2>3, <5>1
      <4> QED BY <4>1, <4>2
    <3>2. film.clips[n].from \in Int /\ film.clips[n].from < film.length BY <1>6, <2>1, <2>3
    <3> QED BY <1>2, <2>4, <3>1, <3>2
  <2>9. t <= t BY <2>4
  <2>10. film.clips[1].from \in Int BY <1>6, <2>3
  <2>11. film.clips[i].from <= t BY <2>9
  <2> HIDE DEF t
  <2>12. Top(t) = i BY <1>2, <1>6, <2>4, <2>5, <2>6, <2>11, TopIs
  <2>13. t \in film.clips[1].from..(film.length - 1) BY <1>2, <2>4, <2>7, <2>8, <2>10
  <2> QED BY <2>12, <2>13
<1>8. CASE film.timed
  <2>1. Placed(n) /\ film.length = AtMost(audio.length, cards[n].end + Closing) BY <1>2, <1>8
  <2>2. /\ \A j \in 1..n :
             /\ cards[j].start \in Nat /\ cards[j].end \in Nat
             /\ cards[j].start < cards[j].end /\ cards[j].end <= cards[n].end
             /\ cards[1].start <= cards[j].start
             /\ \A k \in 1..n : j < k => cards[j].end <= cards[k].start
        /\ cards[n].end <= audio.length
    BY <1>5, <1>8, ExactTimes DEF n
  <2> DEFINE t == cards[i].start
  <2>3. t \in Nat /\ cards[i].end \in Nat /\ cards[n].end \in Nat /\ cards[i].end <= cards[n].end
        /\ t < cards[i].end /\ cards[i].end - t > mode.fade
    BY <1>6, <1>8, <2>2
  <2>4. film.clips[i].from <= t BY <2>1 DEF Placed
  <2>5. t < film.length BY <1>3, <1>4, <2>1, <2>2, <2>3 DEF AtMost
  <2>6. t < film.clips[i].to
    <3>1. film.clips[i].to \in Int BY <2>1 DEF Placed
    <3>2. CASE i = n
      <4>1. film.length <= film.clips[n].to BY <2>1 DEF Placed
      <4> QED BY <1>2, <2>3, <2>5, <3>1, <3>2, <4>1
    <3>3. CASE i # n
      <4>1. i < n /\ i + 1 \in 1..n BY <1>6, <3>3
      <4>2. cards[i + 1].start <= film.clips[i].to BY <2>1, <4>1 DEF Placed
      <4>3. cards[i].end <= cards[i + 1].start /\ cards[i + 1].start \in Nat
        <5>1. i < i + 1 OBVIOUS
        <5> QED BY <2>2, <4>1, <5>1
      <4> QED BY <2>3, <3>1, <4>2, <4>3
    <3> QED BY <3>2, <3>3
  <2>7. ASSUME NEW j \in 1..n, film.clips[j].from <= t PROVE j <= i
    <3>1. ASSUME i < j PROVE FALSE
      <4>1. cards[i].end <= cards[j].start /\ cards[j].start \in Nat BY <2>2, <3>1
      <4>2. film.clips[j].from \in Int /\ cards[j].start <= film.clips[j].from + mode.fade
        BY <2>1 DEF Placed
      <4>3. film.clips[j].from <= t BY <2>7
      <4> HIDE DEF t
      <4> QED BY <1>3, <2>3, <4>1, <4>2, <4>3
    <3> QED BY <3>1
  <2>8. film.clips[1].from \in Int /\ film.clips[1].from <= t
    <3>1. film.clips[1].from = cards[1].start BY <2>1 DEF Placed
    <3>2. cards[1].start \in Nat /\ cards[1].start <= cards[i].start BY <1>6, <2>2
    <3> QED BY <3>1, <3>2
  <2> HIDE DEF t
  <2>9. t \in Int BY <2>3
  <2>10. Top(t) = i BY <1>2, <1>6, <2>4, <2>6, <2>7, <2>9, TopIs
  <2>11. t \in film.clips[1].from..(film.length - 1) BY <1>2, <2>5, <2>8, <2>9
  <2> QED BY <2>10, <2>11
<1> QED BY <1>7, <1>8

\* The word that is highlighted is the first one whose interval holds the time.
LEMMA ActiveIs ==
  ASSUME NEW n \in Nat, NEW words, Len(words) = n, NEW time
  PROVE  LET h == ActiveWord(words, time) IN
         /\ h = 0 \/ (h \in 1..n /\ words[h].start <= time /\ time <= words[h].end)
         /\ h = 0 => \A k \in 1..n : ~(words[k].start <= time /\ time <= words[k].end)
<1> DEFINE at == {k \in 1..n : words[k].start <= time /\ time <= words[k].end}
<1>1. ActiveWord(words, time) = IF at = {} THEN 0 ELSE Min(at) BY DEF ActiveWord
<1>2. at \in SUBSET (1..n) OBVIOUS
<1>3. ASSUME at # {} PROVE Min(at) \in at /\ Min(at) # 0
  <2>1. Min(at) \in at
    <3> HIDE DEF at
    <3> QED BY <1>2, <1>3, MinExists
  <2> QED BY <1>2, <2>1
<1> QED BY <1>1, <1>3

\* What the property says of one word of one clip at one time.
KeepsUp(i, k, t) ==
  LET before == Before(text, i)
      h == Highlighted(i, t)
  IN  /\ h # 0 => h >= k - 2 /\ (h > k => Spoken[before + h].start <= t + mode.fade)
      /\ h = 0 => Spoken[before + Len(text[i])].end < t + mode.fade

\* The highlight keeps up with the voice.
LEMMA Highlights == VoiceInv /\ CardInv /\ FilmInv => HighlightKeepsUp
<1> SUFFICES ASSUME VoiceInv, CardInv, FilmInv, film.timed, exact,
                    NEW i \in 1..Len(film.clips), NEW k \in 1..Len(text[i]),
                    NEW t \in film.clips[i].from..(film.clips[i].to - 1),
                    Spoken[Before(text, i) + k].start <= t, t < Spoken[Before(text, i) + k].end
             PROVE  KeepsUp(i, k, t)
  BY DEF HighlightKeepsUp, KeepsUp, Before
<1> DEFINE n == Len(text)
           words == cards[i].words
           time == cards[i].start + t - film.clips[i].from
           h == Highlighted(i, t)
           beat == audio.beat
<1>1. film # NoFilm BY DEF NoFilm
<1>2. /\ n \in Nat \ {0} /\ Len(film.clips) = n /\ Timed(cards, text) /\ Placed(n)
  BY <1>1, FilmFacts
<1>3. mode.fade \in Nat BY ModeFacts
<1>4. text \in Texts /\ text # << << >> >> /\ Exact(cards) /\ audio.length > 0
  BY DEF VoiceInv, CardInv
<1>5. beat \in Nat /\ beat # 0 BY <1>4, VoiceFacts
<1>6. i \in 1..n BY <1>2
<1>7. PICK b \in Nat, l \in Nat \ {0} : b = Before(text, i) /\ l = Len(text[i]) /\ b + l <= Len(Spoken)
  <2>1. audio.beat \in Nat BY <1>5
  <2>2. /\ Before(text, i) \in Nat /\ Len(text[i]) \in Nat \ {0}
        /\ Before(text, i) + Len(text[i]) <= Len(Spoken)
    BY <1>4, <1>6, <2>1, ExactTranscription
  <2> QED BY <2>2
<1>8. /\ Len(words) = l
      /\ \A m \in 1..l : words[m] = [start |-> Lead + (b + m - 1) * beat,
                                     end |-> Lead + (b + AtMost(m + 1, l)) * beat]
  BY <1>4, <1>6, <1>7 DEF Exact
<1>9. Len(Spoken) \in Nat
      /\ \A m \in 1..Len(Spoken) : /\ Spoken[m].start = Lead + (m - 1) * beat
                                   /\ Spoken[m].end = Lead + m * beat
  <2>1. audio.beat \in Nat BY <1>5
  <2>2. /\ Len(Spoken) = Len(FlattenSeq(text)) /\ Len(FlattenSeq(text)) \in Nat
        /\ \A m \in 1..Len(FlattenSeq(text)) :
             Spoken[m] = [word |-> FlattenSeq(text)[m], start |-> Lead + (m - 1) * audio.beat,
                          end |-> Lead + m * audio.beat]
    BY <1>4, <2>1, SpokenFacts
  <2>3. ASSUME NEW m \in 1..Len(Spoken)
        PROVE  Spoken[m].start = Lead + (m - 1) * beat /\ Spoken[m].end = Lead + m * beat
    <3>1. Spoken[m] = [word |-> FlattenSeq(text)[m], start |-> Lead + (m - 1) * audio.beat,
                       end |-> Lead + m * audio.beat]
      BY <2>2
    <3> QED BY <3>1
  <2> QED BY <2>2, <2>3
<1>10. /\ film.clips[i].from \in Int /\ film.clips[i].to \in Int /\ cards[i].start \in Nat
       /\ film.clips[i].from <= cards[i].start /\ cards[i].start <= film.clips[i].from + mode.fade
  BY <1>2, <1>6 DEF Placed, Timed
<1>11. h = ActiveWord(words, time) BY DEF Highlighted
<1>12. t \in Int BY <1>10
<1>13. time \in Int /\ t <= time /\ time <= t + mode.fade BY <1>3, <1>10, <1>12
<1> HIDE DEF n, words, time, h, beat
<1>14. Lead \in Nat BY RenderAssumption
<1> DEFINE at(p) == Lead + p * beat
<1>15. \A p \in Nat : at(p) \in Nat BY <1>5, <1>14
<1>16. \A p, q \in Nat : at(p) <= at(q) => p <= q
  <2> SUFFICES ASSUME NEW p \in Nat, NEW q \in Nat, q < p PROVE at(q) < at(p)
    BY <1>15
  <2>1. q + 1 <= p /\ q + 1 \in Nat OBVIOUS
  <2>2. (q + 1) * beat <= p * beat /\ p * beat \in Nat /\ q * beat \in Nat BY <1>5, <2>1, MulMono
  <2>3. (q + 1) * beat = q * beat + beat BY <1>5
  <2> QED BY <1>5, <1>14, <2>2, <2>3
<1>17. \A p, q \in Nat : p <= q => at(p) <= at(q)
  <2> SUFFICES ASSUME NEW p \in Nat, NEW q \in Nat, p <= q PROVE at(p) <= at(q)
    OBVIOUS
  <2>1. p * beat <= q * beat /\ p * beat \in Nat /\ q * beat \in Nat BY <1>5, MulMono
  <2> QED BY <1>14, <2>1
<1>18. \A m \in 1..l : /\ words[m].start = at(b + m - 1) /\ words[m].end = at(b + AtMost(m + 1, l))
                       /\ b + m \in 1..Len(Spoken) /\ b + m - 1 \in Nat
                       /\ AtMost(m + 1, l) \in 1..l
                       /\ Spoken[b + m].start = at(b + m - 1) /\ Spoken[b + m].end = at(b + m)
  <2> SUFFICES ASSUME NEW m \in 1..l
               PROVE  /\ words[m].start = at(b + m - 1) /\ words[m].end = at(b + AtMost(m + 1, l))
                      /\ b + m \in 1..Len(Spoken) /\ b + m - 1 \in Nat
                      /\ AtMost(m + 1, l) \in 1..l
                      /\ Spoken[b + m].start = at(b + m - 1) /\ Spoken[b + m].end = at(b + m)
    OBVIOUS
  <2>1. b + l <= Len(Spoken) BY <1>7
  <2>2. b + m \in 1..Len(Spoken) /\ b + m - 1 \in Nat BY <1>9, <2>1
  <2>3. AtMost(m + 1, l) \in 1..l BY DEF AtMost
  <2>4. words[m] = [start |-> Lead + (b + m - 1) * beat, end |-> Lead + (b + AtMost(m + 1, l)) * beat]
    BY <1>8
  <2>5. words[m].start = at(b + m - 1) /\ words[m].end = at(b + AtMost(m + 1, l)) BY <2>4
  <2>6. Spoken[b + m].start = at(b + m - 1) /\ Spoken[b + m].end = at(b + m) BY <1>9, <2>2
  <2> HIDE DEF at
  <2> QED BY <2>2, <2>3, <2>5, <2>6
<1> HIDE DEF at
<1>19. k \in 1..l /\ at(b + k - 1) <= t /\ t < at(b + k) /\ b + k - 1 \in Nat
  BY <1>7, <1>18
<1>20. /\ h = 0 \/ (h \in 1..l /\ words[h].start <= time /\ time <= words[h].end)
       /\ h = 0 => \A m \in 1..l : ~(words[m].start <= time /\ time <= words[m].end)
  BY <1>8, <1>11, ActiveIs
<1>21. ASSUME h # 0 PROVE h >= k - 2 /\ (h > k => Spoken[b + h].start <= t + mode.fade)
  <2>1. h \in 1..l /\ words[h].start <= time /\ time <= words[h].end BY <1>20, <1>21
  <2>2. AtMost(h + 1, l) \in 1..l /\ words[h].end = at(b + AtMost(h + 1, l))
        /\ Spoken[b + h].start = words[h].start /\ words[h].start = at(b + h - 1) /\ b + h - 1 \in Nat
    BY <1>18, <2>1
  <2>3. PICK e \in 1..l : e = AtMost(h + 1, l) BY <2>2
  <2>11. b + e \in Nat OBVIOUS
  <2>4. b + e \in Nat /\ at(b + e) \in Nat /\ at(b + k - 1) \in Nat BY <1>15, <1>19, <2>11
  <2>5. at(b + k - 1) <= at(b + e) BY <1>12, <1>13, <1>19, <2>1, <2>2, <2>3, <2>4
  <2>6. b + k - 1 <= b + e BY <1>16, <1>19, <2>4, <2>5
  <2>12. h \in Nat BY <2>1
  <2>7. e <= h + 1 BY <2>3, <2>12 DEF AtMost
  <2>8. h >= k - 2 BY <1>19, <2>1, <2>6, <2>7
  <2>9. at(b + h - 1) \in Nat BY <1>15, <2>2
  <2>10. Spoken[b + h].start <= t + mode.fade BY <1>3, <1>12, <1>13, <2>1, <2>2, <2>9
  <2> QED BY <2>8, <2>10
<1>22. ASSUME h = 0 PROVE Spoken[b + l].end < t + mode.fade
  <2> DEFINE S == {m \in 1..l : words[m].start <= time}
  <2>1. 1 \in S
    <3>0. 1 \in 1..l OBVIOUS
    <3>1. 1 \in 1..l /\ words[1].start = at(b + 1 - 1) /\ b + 1 - 1 \in Nat BY <1>18, <3>0
    <3>2. b + 1 - 1 <= b + k - 1 BY <1>19
    <3>3. at(b + 1 - 1) <= at(b + k - 1) /\ at(b + 1 - 1) \in Nat /\ at(b + k - 1) \in Nat
      BY <1>15, <1>17, <1>19, <3>1, <3>2
    <3>4. words[1].start <= time BY <1>12, <1>13, <1>19, <3>1, <3>3
    <3> QED BY <3>1, <3>4
  <2>2. PICK m \in S : \A j \in S : j <= m
    <3>1. S \in SUBSET (1..l) /\ S # {} /\ l \in Nat BY <2>1
    <3> HIDE DEF S
    <3> QED BY <3>1, MaxExists
  <2>3. m \in 1..l /\ words[m].start <= time BY <2>2
  <2>4. ~(time <= words[m].end) BY <1>20, <1>22, <2>3
  <2>5. words[m].end = at(b + AtMost(m + 1, l)) BY <1>18, <2>3
  <2>6. m = l
    <3>1. ASSUME m # l PROVE FALSE
      <4>1. m + 1 \in 1..l /\ ~(m + 1 <= m) /\ AtMost(m + 1, l) = m + 1 /\ b + (m + 1) - 1 = b + m
        BY <2>3, <3>1 DEF AtMost
      <4>2. ~(words[m + 1].start <= time) BY <2>2, <4>1
      <4>3. words[m + 1].start = at(b + m) BY <1>18, <4>1
      <4>4. at(b + m) <= at(b + (m + 1)) /\ at(b + m) \in Nat /\ at(b + (m + 1)) \in Nat
        <5>1. b + m \in Nat /\ b + (m + 1) \in Nat /\ b + m <= b + (m + 1) BY <2>3
        <5> QED BY <1>15, <1>17, <5>1
      <4> QED BY <1>13, <2>4, <2>5, <4>1, <4>2, <4>3, <4>4
    <3> QED BY <3>1
  <2>7. AtMost(m + 1, l) = l BY <2>6 DEF AtMost
  <2>8. l \in 1..l /\ b + l \in Nat OBVIOUS
  <2>9. Spoken[b + l].end = at(b + l) BY <1>18, <2>8
  <2>10. at(b + l) \in Nat BY <1>15, <2>8
  <2>11. ~(time <= at(b + l)) BY <2>4, <2>5, <2>7
  <2> QED BY <1>3, <1>12, <1>13, <2>9, <2>10, <2>11
<1> QED BY <1>7, <1>21, <1>22 DEF KeepsUp, h

-----------------------------------------------------------------------------
(* Theorems.                                                               *)

\* What all of them rest on: what the voice, the cards and the film of a run are.
LEMMA RunInvariant == Spec => [](VoiceInv /\ CardInv /\ FilmInv)
<1>1. Init => VoiceInv /\ CardInv /\ FilmInv
  BY DEF Init, VoiceInv, CardInv, Carded, FilmInv
<1>2. VoiceInv /\ CardInv /\ FilmInv /\ [Next]_vars => (VoiceInv /\ CardInv /\ FilmInv)'
  BY VoiceStep, CardStep, FilmStep
<1> QED BY <1>1, <1>2, PTL DEF Spec

\* A COMPLETE Video row never describes another file than the one at its path, whatever
\* runs are repeated over it and wherever they die (run_for_script commits GENERATING
\* before the renderer touches the file).
THEOREM RowMatchesFile == Spec => []CompleteMatchesFile
<1>1. Init => RowInv BY DEF Init, RowInv, Rendering, CompleteMatchesFile
<1>2. RowInv => CompleteMatchesFile BY DEF RowInv
<1> QED BY <1>1, <1>2, RowStep, PTL DEF Spec

\* A caption shows its sentence from the first word on, in lines that fit, whatever the
\* sentences, the caption width and the number of lines.
THEOREM Captions == Spec => []CaptionsHonest
<1>1. Init => CaptionsHonest
  <2>1. ASSUME bars = << >> PROVE CaptionsHonest
    <3>1. 1..Len(bars) = {} BY <2>1
    <3> QED BY <3>1 DEF CaptionsHonest
  <2> QED BY <2>1 DEF Init
<1>2. (VoiceInv /\ CardInv) /\ CaptionsHonest /\ [Next]_vars => CaptionsHonest' BY BarStep
<1> QED BY <1>1, <1>2, RunInvariant, PTL DEF Spec

\* From the first card on the film is never black, and while its clips follow the stamps
\* the card on top is the sentence that is spoken or the next one, fading in
\* (_assemble_video).
THEOREM FollowsVoice == Spec => []CardsFollowVoice
BY RunInvariant, Follows, PTL

\* No sentence of the script is missing on the screen when Whisper hears the words or the
\* cards are chained, unless it is spoken within a fade (_assemble_video).
THEOREM SentencesSeen == Spec => []EverySentenceSeen
BY RunInvariant, Seen, PTL

\* The film does not end before the narration when Whisper hears the words and, up to a
\* tick for each card, when cards without transitions are chained (_assemble_video).
THEOREM NarrationWhole == Spec => []NarrationKept
BY RunInvariant, Kept, PTL

\* When Whisper hears the words the highlighted word is never more than two words behind
\* the voice, and ahead of it only by what is said during a fade (the karaoke clips of
\* renderer.py).
THEOREM HighlightInTime == Spec => []HighlightKeepsUp
BY RunInvariant, Highlights, PTL
=============================================================================
