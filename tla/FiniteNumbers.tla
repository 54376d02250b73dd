---------------------------- MODULE FiniteNumbers ----------------------------
(***************************************************************************)
(* What the proofs need of finite sets of numbers: that there is a         *)
(* greatest one, induction up to a bound, and that the sums of             *)
(* MapThenSumSet do not depend on the order in which it takes the          *)
(* elements. Inductions are over the subsets of a finite set.              *)
(***************************************************************************)
EXTENDS Integers, FiniteSets, FiniteSetsExt, FiniteSetTheorems, WellFoundedInduction, TLAPS

\* A finite set of numbers that is not empty has a greatest one.
LEMMA MaxOfFinite ==
  ASSUME NEW S \in SUBSET Int, IsFiniteSet(S), S # {}
  PROVE  Max(S) \in S /\ \A y \in S : y <= Max(S)
<1> DEFINE Without == {A \in SUBSET S : A # {} /\ \A x \in A : \E y \in A : ~ x >= y}
           R == StrictSubsetOrdering(S)
<1>1. SUFFICES S \notin Without
  BY <1>1 DEF Max
<1>2. SUFFICES ASSUME Without # {} PROVE FALSE
  OBVIOUS
<1>3. IsWellFoundedOn(R, SUBSET S)
  BY FS_StrictSubsetOrderingWellFounded, FS_FiniteSubsetsOfFinite
<1> HIDE DEF R
<1>4. PICK A \in Without : \A B \in Without : <<B, A>> \notin R
  BY <1>2, <1>3, WFMin
<1>5. PICK a \in A : TRUE
  OBVIOUS
<1> DEFINE B == A \ {a}
<1>6. B # {}
  <2>1. SUFFICES ASSUME A = {a} PROVE FALSE
    OBVIOUS
  <2> QED
    BY <2>1, a \in Int
<1>7. <<B, A>> \in R
  BY <1>5 DEF R, StrictSubsetOrdering
<1>8. PICK b \in B : \A y \in B : b >= y
  BY <1>4, <1>6, <1>7
<1>9. CASE a >= b
  <2>1. \A y \in A : a >= y
    BY <1>8, <1>9, a \in Int, A \subseteq Int
  <2> QED
    BY <2>1, <1>5
<1>10. CASE ~ a >= b
  <2>1. \A y \in A : b >= y
    BY <1>8, <1>10, a \in Int, A \subseteq Int
  <2> QED
    BY <2>1, <1>8
<1> QED
  BY <1>9, <1>10

\* Numbers up to a bound can be gone through one by one.
LEMMA InductionTo ==
  ASSUME NEW n \in Nat, NEW S, 0 \in S, \A k \in 0..n : k < n /\ k \in S => k + 1 \in S
  PROVE  0..n \subseteq S
<1> DEFINE T == {k \in 0..n : k \notin S}
           R == StrictSubsetOrdering(0..n)
<1>1. SUFFICES ASSUME T # {} PROVE FALSE
  OBVIOUS
<1>2. IsWellFoundedOn(R, SUBSET (0..n))
  <2>1. IsFiniteSet(0..n)
    BY FS_Interval
  <2> QED
    BY <2>1, FS_StrictSubsetOrderingWellFounded, FS_FiniteSubsetsOfFinite
<1>3. {T \cap (0..k) : k \in T} \subseteq SUBSET (0..n) /\ {T \cap (0..k) : k \in T} # {}
  BY <1>1
<1> HIDE DEF R
<1>4. PICK A \in {T \cap (0..k) : k \in T} :
        \A B \in {T \cap (0..k) : k \in T} : <<B, A>> \notin R
  BY <1>2, <1>3, WFMin
<1>5. PICK k \in T : A = T \cap (0..k)
  BY <1>4
<1>6. k \in 1..n
  OBVIOUS
<1>7. k - 1 \in 0..n /\ k - 1 < n /\ (k - 1) + 1 = k
  BY <1>6
<1>8. k - 1 \in T
  BY <1>7
<1> DEFINE B == T \cap (0..(k - 1))
<1>9. B \in {T \cap (0..j) : j \in T}
  BY <1>8
<1>10. <<B, A>> \in R
  <2>1. B \subseteq A /\ k \in A /\ k \notin B
    BY <1>5, <1>6
  <2>2. A \in SUBSET (0..n) /\ B \in SUBSET (0..n)
    BY <1>5
  <2> QED
    BY <2>1, <2>2 DEF R, StrictSubsetOrdering
<1> QED
  BY <1>4, <1>9, <1>10

-----------------------------------------------------------------------------
\* Sums ----------------------------------------------------------------------

\* The recursion by which MapThenSumSet sums g over the subsets of S.
OneOf(s) == CHOOSE x \in s : TRUE
SumsOver(it, g, S) ==
  it = [s \in SUBSET S |-> IF s = {} THEN 0 ELSE g[OneOf(s)] + it[s \ {OneOf(s)}]]

\* What holds of a set when it holds of all that is smaller, holds.
LEMMA SmallerFirst ==
  ASSUME NEW S, IsFiniteSet(S), NEW G,
         \A s \in SUBSET S : (\A r \in SUBSET s : r # s => r \in G) => s \in G
  PROVE  SUBSET S \subseteq G
<1>1. PICK B : B = (SUBSET S) \ G
  OBVIOUS
<1>2. PICK R : R = StrictSubsetOrdering(S)
  OBVIOUS
<1>3. PICK P : P = SUBSET S
  OBVIOUS
<1>4. IsWellFoundedOn(R, P)
  BY <1>2, <1>3, FS_StrictSubsetOrderingWellFounded, FS_FiniteSubsetsOfFinite
<1>5. CASE B # {}
  <2>1. B \subseteq P
    BY <1>1, <1>3
  <2>2. PICK s \in B : \A r \in B : <<r, s>> \notin R
    BY <1>4, <1>5, <2>1, WFMin
  <2>3. s \in SUBSET S /\ s \notin G
    BY <1>1
  <2>4. PICK r \in SUBSET s : r # s /\ r \notin G
    BY <2>3
  <2>5. r \in B
    BY <1>1, <2>3, <2>4
  <2>6. <<r, s>> \in R
    BY <1>2, <2>3, <2>4 DEF StrictSubsetOrdering
  <2> QED
    BY <2>2, <2>5, <2>6
<1> QED
  BY <1>1, <1>5

\* The sums of a subset are those of the set.
LEMMA SumsRestrict ==
  ASSUME NEW S, NEW g, NEW it, SumsOver(it, g, S), NEW T \in SUBSET S
  PROVE  \E jt : SumsOver(jt, g, T) /\ jt[T] = it[T]
<1>1. PICK jt : jt = [s \in SUBSET T |-> it[s]]
  OBVIOUS
<1>2. ASSUME NEW s \in SUBSET T
      PROVE  jt[s] = IF s = {} THEN 0 ELSE g[OneOf(s)] + jt[s \ {OneOf(s)}]
  <2>1. it[s] = IF s = {} THEN 0 ELSE g[OneOf(s)] + it[s \ {OneOf(s)}]
    BY DEF SumsOver
  <2> QED
    BY <1>1, <2>1
<1>3. SumsOver(jt, g, T)
  BY <1>1, <1>2 DEF SumsOver
<1>4. T \in SUBSET T
  OBVIOUS
<1> QED
  BY <1>1, <1>3, <1>4

\* Two ways to sum the same values agree.
LEMMA SumsAgree ==
  ASSUME NEW S, IsFiniteSet(S), NEW g, NEW h, \A x \in S : g[x] = h[x],
         NEW it, SumsOver(it, g, S), NEW jt, SumsOver(jt, h, S)
  PROVE  it = jt
<1>1. PICK G : G = {s \in SUBSET S : it[s] = jt[s]}
  OBVIOUS
<1>2. ASSUME NEW s \in SUBSET S, \A r \in SUBSET s : r # s => r \in G
      PROVE  s \in G
  <2>1. CASE s = {}
    BY <1>1, <2>1 DEF SumsOver
  <2>2. CASE s # {}
    <3>1. OneOf(s) \in s
      BY <2>2 DEF OneOf
    <3>2. PICK x \in s : x = OneOf(s)
      BY <3>1
    <3>3. it[s] = g[x] + it[s \ {x}] /\ jt[s] = h[x] + jt[s \ {x}]
      BY <2>2, <3>2 DEF SumsOver
    <3>4. it[s \ {x}] = jt[s \ {x}]
      BY <1>1, <1>2
    <3> QED
      BY <1>1, <3>3, <3>4
  <2> QED
    BY <2>1, <2>2
<1>3. SUBSET S \subseteq G
  BY <1>2, SmallerFirst
<1> QED
  BY <1>1, <1>3 DEF SumsOver

\* Every finite set has its sums.
LEMMA SumsExist ==
  ASSUME NEW S, IsFiniteSet(S), NEW g
  PROVE  \E it : SumsOver(it, g, S)
<1>1. PICK G : G = {s \in SUBSET S : \E it : SumsOver(it, g, s)}
  OBVIOUS
<1>2. ASSUME NEW s \in SUBSET S, \A r \in SUBSET s : r # s => r \in G
      PROVE  s \in G
  <2>1. \A r \in SUBSET s : r # s => \E it : SumsOver(it, g, r)
    BY <1>1, <1>2
  <2>2. PICK sums : sums = [r \in (SUBSET s) \ {s} |-> CHOOSE it : SumsOver(it, g, r)]
    OBVIOUS
  <2>3. ASSUME NEW r \in SUBSET s, r # s PROVE SumsOver(sums[r], g, r)
    BY <2>1, <2>2, <2>3
  <2>4. PICK x : x = OneOf(s)
    OBVIOUS
  <2>5. s # {} => x \in s
    BY <2>4 DEF OneOf
  <2>6. PICK it : it = [r \in SUBSET s |-> IF r # s THEN sums[r][r]
                          ELSE IF s = {} THEN 0
                          ELSE g[x] + sums[s \ {x}][s \ {x}]]
    OBVIOUS
  <2>7. ASSUME NEW r \in SUBSET s, r # s, r # {}
        PROVE  it[r] = g[OneOf(r)] + it[r \ {OneOf(r)}]
    <3>1. PICK y \in r : y = OneOf(r)
      BY <2>7 DEF OneOf
    <3>2. PICK q : q = r \ {y}
      OBVIOUS
    <3>3. q \in SUBSET r /\ q \in SUBSET s /\ q # s /\ q # r
      BY <2>7, <3>2
    <3>4. SumsOver(sums[r], g, r) /\ SumsOver(sums[q], g, q)
      BY <2>3, <2>7, <3>3
    <3>5. sums[r][r] = g[y] + sums[r][q]
      BY <2>7, <3>1, <3>2, <3>4 DEF SumsOver
    <3>6. PICK jt : SumsOver(jt, g, q) /\ jt[q] = sums[r][q]
      <4>1. PICK kt : kt = sums[r]
        OBVIOUS
      <4>2. SumsOver(kt, g, r) /\ q \in SUBSET r
        BY <3>3, <3>4, <4>1
      <4> QED
        BY <4>1, <4>2, SumsRestrict
    <3>7. IsFiniteSet(q)
      BY <3>3, FS_Subset
    <3>8. jt = sums[q]
      <4>1. PICK kt : kt = sums[q]
        OBVIOUS
      <4> QED
        BY <3>4, <3>6, <3>7, <4>1, SumsAgree
    <3> QED
      BY <2>6, <2>7, <3>1, <3>2, <3>3, <3>5, <3>6, <3>8
  <2>8. ASSUME NEW r \in SUBSET s, r # s, r = {}
        PROVE  it[r] = 0
    <3>1. SumsOver(sums[r], g, r)
      BY <2>3, <2>8
    <3>2. sums[r][r] = 0
      BY <2>8, <3>1 DEF SumsOver
    <3> QED
      BY <2>6, <2>8, <3>2
  <2>9. s # {} => it[s] = g[x] + it[s \ {x}]
    BY <2>5, <2>6
  <2>10. s = {} => it[s] = 0
    BY <2>6
  <2>11. \A r \in SUBSET s :
           it[r] = IF r = {} THEN 0 ELSE g[OneOf(r)] + it[r \ {OneOf(r)}]
    BY <2>4, <2>7, <2>8, <2>9, <2>10
  <2>12. SumsOver(it, g, s)
    BY <2>6, <2>11 DEF SumsOver
  <2> QED
    BY <1>1, <2>12
<1>3. SUBSET S \subseteq G
  BY <1>2, SmallerFirst
<1> QED
  BY <1>1, <1>3

\* It does not matter which is taken first.
LEMMA SumsTake ==
  ASSUME NEW S, NEW g, NEW it, SumsOver(it, g, S), IsFiniteSet(S), \A x \in S : g[x] \in Int
  PROVE  /\ it[{}] = 0 /\ it[S] \in Int
         /\ \A x \in S : it[S \ {x}] \in Int /\ it[S] = g[x] + it[S \ {x}]
<1>1. PICK G : G = {s \in SUBSET S : /\ it[s] \in Int
                                     /\ \A x \in s : it[s] = g[x] + it[s \ {x}]}
  OBVIOUS
<1>2. ASSUME NEW s \in SUBSET S, \A r \in SUBSET s : r # s => r \in G
      PROVE  s \in G
  <2>1. CASE s = {}
    BY <1>1, <2>1 DEF SumsOver
  <2>2. CASE s # {}
    <3>1. PICK y \in s : y = OneOf(s)
      BY <2>2 DEF OneOf
    <3>2. it[s] = g[y] + it[s \ {y}]
      BY <2>2, <3>1 DEF SumsOver
    <3>3. s \ {y} \in G /\ g[y] \in Int
      BY <1>2
    <3>4. it[s] \in Int /\ it[s \ {y}] \in Int
      BY <1>1, <3>2, <3>3
    <3>5. ASSUME NEW x \in s PROVE it[s] = g[x] + it[s \ {x}]
      <4>1. CASE x = y
        BY <3>2, <4>1
      <4>2. CASE x # y
        <5>1. s \ {x} \in G /\ g[x] \in Int
          BY <1>2
        <5>2. PICK q : q = (s \ {x}) \ {y}
          OBVIOUS
        <5>3. q = (s \ {y}) \ {x} /\ q \in SUBSET s /\ q # s
          BY <5>2
        <5>4. x \in s \ {y} /\ y \in s \ {x}
          BY <4>2
        <5>5. it[s \ {y}] = g[x] + it[q]
          BY <1>1, <3>3, <5>3, <5>4
        <5>6. it[s \ {x}] = g[y] + it[q]
          BY <1>1, <5>1, <5>2, <5>4
        <5>7. q \in G
          BY <1>2, <5>3
        <5>8. it[q] \in Int
          BY <1>1, <5>7
        <5> QED
          BY <3>2, <3>3, <5>1, <5>5, <5>6, <5>8
      <4> QED
        BY <4>1, <4>2
    <3> QED
      BY <1>1, <3>4, <3>5
  <2> QED
    BY <2>1, <2>2
<1>3. SUBSET S \subseteq G
  BY <1>2, SmallerFirst
<1>4. it[{}] = 0
  BY DEF SumsOver
<1>5. S \in G
  <2>1. S \in SUBSET S
    OBVIOUS
  <2> QED
    BY <1>3, <2>1
<1>6. \A x \in S : S \ {x} \in G
  BY <1>3
<1> QED
  BY <1>1, <1>4, <1>5, <1>6

\* The sum of g over S, as MapThenSumSet has it.
SumOf(g, S) == MapThenSumSet(LAMBDA x : g[x], S)
LEMMA SumOfSums ==
  ASSUME NEW S, IsFiniteSet(S), NEW g
  PROVE  \E it : SumsOver(it, g, S) /\ SumOf(g, S) = it[S]
<1>1. PICK jt : SumsOver(jt, g, S)
  BY SumsExist
<1>2. PICK it : it = CHOOSE f : SumsOver(f, g, S)
  OBVIOUS
<1>3. SumsOver(it, g, S)
  BY <1>1, <1>2
<1>4. SumOf(g, S) = it[S]
  BY <1>2 DEF SumOf, MapThenSumSet, MapThenFoldSet, SumsOver, OneOf
<1> QED
  BY <1>3, <1>4

\* A sum is that of one less and the one.
LEMMA SumOfTake ==
  ASSUME NEW S, IsFiniteSet(S), NEW g, \A x \in S : g[x] \in Int
  PROVE  /\ SumOf(g, S) \in Int
         /\ S = {} => SumOf(g, S) = 0
         /\ \A x \in S : SumOf(g, S) = g[x] + SumOf(g, S \ {x})
<1>1. PICK it : SumsOver(it, g, S) /\ SumOf(g, S) = it[S]
  BY SumOfSums
<1>2. ASSUME NEW x \in S PROVE SumOf(g, S) = g[x] + SumOf(g, S \ {x})
  <2>1. PICK T : T = S \ {x}
    OBVIOUS
  <2>2. IsFiniteSet(T) /\ T \in SUBSET S
    BY <2>1, FS_Subset
  <2>3. PICK jt : SumsOver(jt, g, T) /\ SumOf(g, T) = jt[T]
    BY <2>2, SumOfSums
  <2>4. PICK kt : SumsOver(kt, g, T) /\ kt[T] = it[T]
    BY <1>1, <2>2, SumsRestrict
  <2>5. jt = kt
    BY <2>2, <2>3, <2>4, SumsAgree
  <2>6. it[S] = g[x] + it[T]
    <3>1. \A y \in S : it[S \ {y}] \in Int /\ it[S] = g[y] + it[S \ {y}]
      BY <1>1, SumsTake
    <3> QED
      BY <2>1, <3>1
  <2> QED
    BY <1>1, <2>1, <2>3, <2>4, <2>5, <2>6
<1>3. it[S] \in Int /\ it[{}] = 0
  BY <1>1, SumsTake
<1> QED
  BY <1>1, <1>2, <1>3

\* Sums of the same values are the same.
LEMMA SumOfSame ==
  ASSUME NEW S, IsFiniteSet(S), NEW g, NEW h, \A x \in S : g[x] = h[x]
  PROVE  SumOf(g, S) = SumOf(h, S)
<1>1. PICK it : SumsOver(it, g, S) /\ SumOf(g, S) = it[S]
  BY SumOfSums
<1>2. PICK jt : SumsOver(jt, h, S) /\ SumOf(h, S) = jt[S]
  BY SumOfSums
<1> QED
  BY <1>1, <1>2, SumsAgree

LEMMA SumOfTakeIf ==
  ASSUME NEW S, NEW g, IsFiniteSet(S), \A x \in S : g[x] \in Nat,
         NEW y, NEW T, T = S \ {y}, NEW d \in Nat, d = IF y \in S THEN g[y] ELSE 0
  PROVE  /\ IsFiniteSet(T) /\ (\A x \in T : g[x] \in Nat) /\ SumOf(g, T) \in Int
         /\ SumOf(g, S) = d + SumOf(g, T)
<1>1. IsFiniteSet(T) /\ \A x \in T : g[x] \in Int
  BY FS_Subset
<1>2. SumOf(g, T) \in Int
  BY <1>1, SumOfTake
<1>3. \A x \in S : g[x] \in Int
  OBVIOUS
<1>4. \A x \in S : SumOf(g, S) = g[x] + SumOf(g, S \ {x})
  BY <1>3, SumOfTake
<1>5. CASE y \in S
  BY <1>1, <1>2, <1>4, <1>5
<1>6. CASE y \notin S
  <2>1. T = S
    BY <1>6
  <2>2. SumOf(g, S) = SumOf(g, T)
    BY <2>1, Zenon
  <2> QED
    BY <1>1, <1>2, <1>6, <2>2
<1> QED
  BY <1>5, <1>6

\* A sum over at most three.
LEMMA SumOfThree ==
  ASSUME NEW a, NEW b, NEW c, a # b, a # c, b # c, NEW S, S \subseteq {a, b, c},
         NEW g, \A x \in S : g[x] \in Nat
  PROVE  SumOf(g, S) = (IF a \in S THEN g[a] ELSE 0) + (IF b \in S THEN g[b] ELSE 0)
                         + (IF c \in S THEN g[c] ELSE 0)
<1>1. IsFiniteSet(S)
  <2>1. IsFiniteSet({}) /\ IsFiniteSet({a}) /\ IsFiniteSet({a, b})
    BY FS_EmptySet, FS_Singleton, FS_AddElement
  <2>2. IsFiniteSet({a, b} \cup {c})
    BY <2>1, FS_AddElement
  <2>3. {a, b, c} = {a, b} \cup {c}
    OBVIOUS
  <2> QED
    BY <2>2, <2>3, FS_Subset
<1>2. PICK T : T = S \ {a}
  OBVIOUS
<1>3. PICK U : U = T \ {b}
  OBVIOUS
<1>4. PICK V : V = U \ {c}
  OBVIOUS
<1>5. PICK i \in Nat : i = IF a \in S THEN g[a] ELSE 0
  OBVIOUS
<1>6. PICK j \in Nat : j = IF b \in S THEN g[b] ELSE 0
  OBVIOUS
<1>7. PICK k \in Nat : k = IF c \in S THEN g[c] ELSE 0
  OBVIOUS
<1>8. j = (IF b \in T THEN g[b] ELSE 0) /\ k = (IF c \in U THEN g[c] ELSE 0)
  BY <1>2, <1>3, <1>6, <1>7
<1>9. /\ IsFiniteSet(T) /\ (\A x \in T : g[x] \in Nat) /\ SumOf(g, T) \in Int
      /\ SumOf(g, S) = i + SumOf(g, T)
  BY <1>1, <1>2, <1>5, SumOfTakeIf
<1>10. /\ IsFiniteSet(U) /\ (\A x \in U : g[x] \in Nat) /\ SumOf(g, U) \in Int
       /\ SumOf(g, T) = j + SumOf(g, U)
  BY <1>3, <1>8, <1>9, SumOfTakeIf
<1>11. /\ IsFiniteSet(V) /\ SumOf(g, V) \in Int
       /\ SumOf(g, U) = k + SumOf(g, V)
  BY <1>4, <1>8, <1>10, SumOfTakeIf
<1>12. V = {}
  BY <1>2, <1>3, <1>4
<1>13. SumOf(g, V) = 0
  BY <1>11, <1>12, SumOfTake
<1> QED
  BY <1>5, <1>6, <1>7, <1>9, <1>10, <1>11, <1>13

\* A sum over a sequence that gets one more term.
LEMMA SumOfAppend ==
  ASSUME NEW n \in Nat, NEW g, \A i \in 1 .. n : g[i] \in Int,
         NEW h, \A i \in 1 .. n + 1 : h[i] \in Int, \A i \in 1 .. n : h[i] = g[i]
  PROVE  SumOf(g, 1 .. n) \in Int /\ SumOf(h, 1 .. n + 1) = SumOf(g, 1 .. n) + h[n + 1]
<1>1. PICK S : S = 1 .. n
  OBVIOUS
<1>2. PICK T : T = 1 .. n + 1
  OBVIOUS
<1>3. IsFiniteSet(S) /\ IsFiniteSet(T) /\ n + 1 \in T /\ S = T \ {n + 1}
  <2>1. IsFiniteSet(S) /\ IsFiniteSet(T)
    BY <1>1, <1>2, FS_Interval
  <2>2. n + 1 \in T /\ S = T \ {n + 1}
    BY <1>1, <1>2
  <2>3. QED
    BY <2>1, <2>2
<1>4. SumOf(h, T) = h[n + 1] + SumOf(h, S)
  <2>1. \A x \in T : SumOf(h, T) = h[x] + SumOf(h, T \ {x})
    BY <1>2, <1>3, SumOfTake
  <2>2. SumOf(h, T) = h[n + 1] + SumOf(h, T \ {n + 1})
    BY <1>3, <2>1
  <2>3. QED
    BY <1>3, <2>2, Zenon
<1>5. SumOf(h, S) = SumOf(g, S) /\ SumOf(g, S) \in Int
  BY <1>1, <1>2, <1>3, SumOfSame, SumOfTake
<1>6. h[n + 1] \in Int
  BY <1>2, <1>3
<1>7. QED
  BY <1>1, <1>2, <1>4, <1>5, <1>6

LEMMA SumOfNat ==
  ASSUME NEW S, IsFiniteSet(S), NEW g, \A x \in S : g[x] \in Nat
  PROVE  SumOf(g, S) \in Nat
<1>1. PICK G : G = {s \in SUBSET S : SumOf(g, s) \in Nat}
  OBVIOUS
<1>2. ASSUME NEW s \in SUBSET S, \A r \in SUBSET s : r # s => r \in G
      PROVE  s \in G
  <2>1. IsFiniteSet(s) /\ \A x \in s : g[x] \in Int
    BY FS_Subset
  <2>2. CASE s = {}
    BY <1>1, <2>1, <2>2, SumOfTake
  <2>3. CASE s # {}
    <3>1. PICK x \in s : TRUE
      BY <2>3
    <3>2. PICK r : r = s \ {x}
      OBVIOUS
    <3>3. SumOf(g, r) \in Nat /\ g[x] \in Nat
      BY <1>1, <1>2, <3>2
    <3>4. \A y \in s : SumOf(g, s) = g[y] + SumOf(g, s \ {y})
      BY <2>1, SumOfTake
    <3>5. QED
      BY <1>1, <3>2, <3>3, <3>4
  <2>4. QED
    BY <2>2, <2>3
<1>3. SUBSET S \subseteq G
  BY <1>2, SmallerFirst
<1>4. QED
  BY <1>1, <1>3

\* Sums over two sets that have nothing in common.
LEMMA SumOfUnion ==
  ASSUME NEW S, NEW T, IsFiniteSet(S), IsFiniteSet(T), S \cap T = {},
         NEW g, \A x \in S \cup T : g[x] \in Int
  PROVE  SumOf(g, S \cup T) = SumOf(g, S) + SumOf(g, T)
<1>1. PICK G : G = {t \in SUBSET T : SumOf(g, S \cup t) = SumOf(g, S) + SumOf(g, t)}
  OBVIOUS
<1>2. SumOf(g, S) \in Int
  BY SumOfTake
<1>3. ASSUME NEW t \in SUBSET T, \A r \in SUBSET t : r # t => r \in G
      PROVE  t \in G
  <2>1. IsFiniteSet(t) /\ IsFiniteSet(S \cup t)
    BY FS_Subset, FS_Union
  <2>2. (\A x \in t : g[x] \in Int) /\ \A x \in S \cup t : g[x] \in Int
    OBVIOUS
  <2>3. CASE t = {}
    <3>1. SumOf(g, t) = 0
      BY <2>1, <2>2, <2>3, SumOfTake
    <3>2. S \cup t = S
      BY <2>3
    <3>3. SumOf(g, S \cup t) = SumOf(g, S)
      BY <3>2, Zenon
    <3>4. QED
      BY <1>1, <1>2, <3>1, <3>3
  <2>4. CASE t # {}
    <3>1. PICK x \in t : TRUE
      BY <2>4
    <3>2. PICK r : r = t \ {x}
      OBVIOUS
    <3>3. r \in SUBSET t /\ r # t /\ IsFiniteSet(r) /\ (\A y \in r : g[y] \in Int)
      BY <2>1, <2>2, <3>2, FS_Subset
    <3>4. SumOf(g, S \cup r) = SumOf(g, S) + SumOf(g, r)
      BY <1>1, <1>3, <3>3
    <3>5. SumOf(g, r) \in Int /\ g[x] \in Int
      BY <2>2, <3>3, SumOfTake
    <3>6. SumOf(g, t) = g[x] + SumOf(g, r)
      <4>1. \A y \in t : SumOf(g, t) = g[y] + SumOf(g, t \ {y})
        BY <2>1, <2>2, SumOfTake
      <4>2. QED
        BY <3>2, <4>1
    <3>7. SumOf(g, S \cup t) = g[x] + SumOf(g, S \cup r)
      <4>1. PICK U : U = S \cup t
        OBVIOUS
      <4>2. IsFiniteSet(U) /\ (\A y \in U : g[y] \in Int) /\ x \in U
        BY <2>1, <2>2, <4>1
      <4>3. SumOf(g, U) = g[x] + SumOf(g, U \ {x})
        BY <4>2, SumOfTake
      <4>4. U \ {x} = S \cup r
        BY <3>2, <4>1
      <4>5. QED
        BY <4>1, <4>3, <4>4, Zenon
    <3>8. QED
      BY <1>1, <1>2, <3>4, <3>5, <3>6, <3>7
  <2>5. QED
    BY <2>3, <2>4
<1>4. SUBSET T \subseteq G
  BY <1>3, SmallerFirst
<1>5. QED
  BY <1>1, <1>4

\* A sum over a part is no greater, where nothing is below zero.
LEMMA SumOfPart ==
  ASSUME NEW S, IsFiniteSet(S), NEW T \in SUBSET S, NEW g, \A x \in S : g[x] \in Nat
  PROVE  SumOf(g, T) \in Nat /\ SumOf(g, S) \in Nat /\ SumOf(g, T) <= SumOf(g, S)
<1>1. PICK R : R = S \ T
  OBVIOUS
<1>2. IsFiniteSet(R) /\ IsFiniteSet(T) /\ R \cap T = {} /\ R \cup T = S
  BY <1>1, FS_Subset
<1>3. SumOf(g, R) \in Nat /\ SumOf(g, T) \in Nat
  BY <1>1, <1>2, SumOfNat
<1>4. SumOf(g, R \cup T) = SumOf(g, R) + SumOf(g, T)
  BY <1>1, <1>2, SumOfUnion
<1>5. SumOf(g, S) = SumOf(g, R) + SumOf(g, T)
  BY <1>2, <1>4, Zenon
<1>6. QED
  BY <1>3, <1>5

\* A sum is that of the sums over what has the same key.
LEMMA SumOfFibres ==
  ASSUME NEW S, IsFiniteSet(S), NEW g, \A x \in S : g[x] \in Int,
         NEW D, IsFiniteSet(D), NEW key, \A x \in S : key[x] \in D,
         NEW fibre, \A d \in D : /\ fibre[d] \in SUBSET S
                                 /\ \A x \in S : x \in fibre[d] <=> key[x] = d,
         NEW h, \A d \in D : h[d] = SumOf(g, fibre[d])
  PROVE  SumOf(h, D) = SumOf(g, S)
<1>1. PICK G : G = {t \in SUBSET D : SumOf(h, t) = SumOf(g, {x \in S : key[x] \in t})}
  OBVIOUS
<1>2. ASSUME NEW T \in SUBSET S
      PROVE  IsFiniteSet(T) /\ (\A x \in T : g[x] \in Int) /\ SumOf(g, T) \in Int
  <2>1. IsFiniteSet(T) /\ \A x \in T : g[x] \in Int
    BY FS_Subset
  <2>2. QED
    BY <2>1, SumOfTake
<1>3. \A d \in D : h[d] \in Int
  <2>1. TAKE d \in D
  <2>2. PICK T \in SUBSET S : T = fibre[d]
    OBVIOUS
  <2>3. h[d] = SumOf(g, T)
    BY <2>2
  <2>4. QED
    BY <1>2, <2>3
<1>4. ASSUME NEW t \in SUBSET D, \A r \in SUBSET t : r # t => r \in G
      PROVE  t \in G
  <2>1. PICK T \in SUBSET S : T = {x \in S : key[x] \in t}
    OBVIOUS
  <2>2. IsFiniteSet(t) /\ (\A d \in t : h[d] \in Int)
    BY <1>3, FS_Subset
  <2>3. CASE t = {}
    <3>1. T = {} /\ SumOf(g, T) = 0
      BY <1>2, <2>1, <2>3, SumOfTake
    <3>2. SumOf(h, t) = 0
      BY <2>2, <2>3, SumOfTake
    <3>3. QED
      BY <1>1, <2>1, <3>1, <3>2
  <2>4. CASE t # {}
    <3>1. PICK d \in t : TRUE
      BY <2>4
    <3>2. PICK r : r = t \ {d}
      OBVIOUS
    <3>3. PICK R \in SUBSET S : R = {x \in S : key[x] \in r}
      OBVIOUS
    <3>4. PICK F \in SUBSET S : F = fibre[d]
      OBVIOUS
    <3>5. SumOf(h, r) = SumOf(g, R)
      BY <1>1, <1>4, <3>2, <3>3
    <3>6. h[d] = SumOf(g, F)
      BY <3>4
    <3>7. F \cup R = T /\ F \cap R = {}
      BY <2>1, <3>2, <3>3, <3>4
    <3>8. SumOf(g, F \cup R) = SumOf(g, F) + SumOf(g, R)
      BY <1>2, <3>7, SumOfUnion
    <3>9. SumOf(g, T) = SumOf(g, F) + SumOf(g, R)
      BY <3>7, <3>8, Zenon
    <3>10. \A e \in t : SumOf(h, t) = h[e] + SumOf(h, t \ {e})
      BY <2>2, SumOfTake
    <3>11. SumOf(h, t) = SumOf(g, T)
      BY <3>2, <3>5, <3>6, <3>9, <3>10
    <3>12. QED
      BY <1>1, <2>1, <3>11
  <2>5. QED
    BY <2>3, <2>4
<1>5. SUBSET D \subseteq G
  BY <1>4, SmallerFirst
<1>6. SumOf(h, D) = SumOf(g, {x \in S : key[x] \in D})
  BY <1>1, <1>5
<1>7. {x \in S : key[x] \in D} = S
  OBVIOUS
<1>8. QED
  BY <1>6, <1>7, Zenon
=============================================================================
