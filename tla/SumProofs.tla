----------------------------- MODULE SumProofs ------------------------------
(***************************************************************************)
(* Lemmas that several proofs need: induction on the numbers and on the    *)
(* subsets of a finite set, and on sequences; sums over a finite set and   *)
(* the concatenation of a sequence of sequences, as the community modules  *)
(* define them; and functions that go on from place to place.              *)
(***************************************************************************)
EXTENDS Integers, FiniteSets, FiniteSetsExt, Functions, SequencesExt,
        FiniteSetTheorems, SequenceTheorems, WellFoundedInduction, TLAPS

-----------------------------------------------------------------------------
(* Induction. *)

\* A set of naturals that is not empty has a least element.
LEMMA LeastNumber ==
  ASSUME NEW T, T \subseteq Nat, T # {}
  PROVE  \E x \in T : \A y \in T : x <= y
<1> DEFINE R == {ss \in Nat \X Nat : ss[1] < ss[2]}
<1>1. IsWellFoundedOn(R, Nat)
  BY NatLessThanWellFounded DEF OpToRel
<1>2. PICK x \in T : \A y \in T : <<y, x>> \notin R
  <2> HIDE DEF R
  <2>1. QED
    BY <1>1, WFMin
<1>3. \A y \in T : ~(y < x)
  BY <1>2
<1>4. QED
  BY <1>2, <1>3

\* What holds at a bound, and at m whenever it holds below m, holds for all.
LEMMA NumbersUpTo ==
  ASSUME NEW T, \A m \in Nat : (\A k \in Nat : k < m => k \in T) => m \in T
  PROVE  \A m \in Nat : m \in T
<1>1. SUFFICES ASSUME Nat \ T # {} PROVE FALSE
  OBVIOUS
<1>2. PICK x \in Nat \ T : \A y \in Nat \ T : x <= y
  BY <1>1, LeastNumber
<1>3. \A k \in Nat : k < x => k \in T
  BY <1>2
<1>4. QED
  BY <1>2, <1>3

-----------------------------------------------------------------------------
(* Sums over a finite set. *)

Total(f, S) == FoldFunctionOnSet(+, 0, f, S)

\* The equation of the fold, on some of the subsets of the set.
Sums(g, f, A) ==
  g = [B \in A |-> IF B = {} THEN 0
                   ELSE f[CHOOSE x \in B : TRUE] + g[B \ {CHOOSE x \in B : TRUE}]]

\* The subsets with at most m members.
Small(S, m) == {B \in SUBSET S : Cardinality(B) <= m}

\* A function with that equation on the small subsets can be continued by one more
\* member.
LEMMA FoldContinues ==
  ASSUME NEW S, IsFiniteSet(S), NEW f, NEW m \in Nat, NEW h, Sums(h, f, Small(S, m))
  PROVE  \E g : Sums(g, f, Small(S, m + 1))
<1> DEFINE rest(B) == B \ {CHOOSE x \in B : TRUE}
           sum(B) == IF B = {} THEN 0 ELSE f[CHOOSE x \in B : TRUE] + h[rest(B)]
<1>1. PICK g : g = [B \in Small(S, m + 1) |-> sum(B)]
  OBVIOUS
<1>2. \A B \in SUBSET S : IsFiniteSet(B) /\ Cardinality(B) \in Nat
  BY FS_Subset, FS_CardinalityType
<1>3. \A B \in Small(S, m + 1) : B # {} => rest(B) \in Small(S, m)
  <2>1. SUFFICES ASSUME NEW B \in Small(S, m + 1), B # {} PROVE rest(B) \in Small(S, m)
    OBVIOUS
  <2>2. Cardinality(rest(B)) = Cardinality(B) - 1
    BY <1>2, <2>1, FS_RemoveElement DEF Small
  <2>3. QED
    BY <1>2, <2>1, <2>2 DEF Small
<1>4. \A B \in Small(S, m) : B \in Small(S, m + 1)
  BY <1>2 DEF Small
<1>5. \A B \in Small(S, m) : g[B] = h[B]
  <2>1. \A B \in Small(S, m) : h[B] = sum(B)
    BY DEF Sums
  <2> HIDE DEF sum
  <2>2. QED
    BY <1>1, <1>4, <2>1
<1>6. \A B \in Small(S, m + 1) :
        sum(B) = IF B = {} THEN 0 ELSE f[CHOOSE x \in B : TRUE] + g[rest(B)]
  <2>1. SUFFICES ASSUME NEW B \in Small(S, m + 1)
                 PROVE  sum(B) = IF B = {} THEN 0 ELSE f[CHOOSE x \in B : TRUE] + g[rest(B)]
    OBVIOUS
  <2>2. B # {} => g[rest(B)] = h[rest(B)]
    <3> HIDE DEF rest
    <3>1. QED
      BY <1>3, <1>5
  <2>3. QED
    BY <2>2
<1>7. Sums(g, f, Small(S, m + 1))
  <2> HIDE DEF sum
  <2>1. QED
    BY <1>1, <1>6 DEF Sums
<1>8. QED
  BY <1>7

\* The fold is defined: a function on the subsets of a set satisfies its equation.
LEMMA FoldExists ==
  ASSUME NEW S, IsFiniteSet(S), NEW f
  PROVE  \E g : Sums(g, f, SUBSET S)
<1> DEFINE T == {m \in Nat : \E g : Sums(g, f, Small(S, m))}
<1>1. \A B \in SUBSET S : IsFiniteSet(B) /\ Cardinality(B) \in Nat
  BY FS_Subset, FS_CardinalityType
<1>2. 0 \in T
  <2> DEFINE g == [B \in Small(S, 0) |-> 0]
  <2>1. \A B \in Small(S, 0) : B = {}
    BY <1>1, FS_EmptySet DEF Small
  <2>2. Sums(g, f, Small(S, 0))
    BY <2>1 DEF Sums
  <2>3. QED
    BY <2>2
<1>3. \A m \in Nat : m \in T => m + 1 \in T
  BY FoldContinues
<1>4. \A m \in Nat : m \in T
  <2> HIDE DEF T
  <2>1. ASSUME NEW m \in Nat, \A k \in Nat : k < m => k \in T PROVE m \in T
    <3>1. m # 0 => m - 1 \in Nat /\ m - 1 < m /\ (m - 1) + 1 = m
      OBVIOUS
    <3>2. QED
      BY <1>2, <1>3, <2>1, <3>1
  <2>2. QED
    BY <2>1, NumbersUpTo
<1>5. Cardinality(S) \in T
  <2> HIDE DEF T
  <2>1. QED
    BY <1>4, FS_CardinalityType
<1>6. Small(S, Cardinality(S)) = SUBSET S
  BY FS_Subset DEF Small
<1>7. QED
  BY <1>5, <1>6

\* So the sum over a set is that of a function with that equation.
LEMMA TotalIsSum ==
  ASSUME NEW S, IsFiniteSet(S), NEW f
  PROVE  \E g : Sums(g, f, SUBSET S) /\ Total(f, S) = g[S]
<1> DEFINE g == CHOOSE g : Sums(g, f, SUBSET S)
<1>1. Sums(g, f, SUBSET S)
  BY FoldExists
<1>2. Total(f, S) = g[S]
  BY DEF Total, FoldFunctionOnSet, MapThenFoldSet, Sums
<1>3. QED
  BY <1>1, <1>2

\* What holds of the empty set, and of a set when it holds of all but one of its
\* members, holds of every subset.
LEMMA SubsetInduction ==
  ASSUME NEW S, IsFiniteSet(S), NEW T, {} \in T,
         \A B \in SUBSET S : B # {} /\ B \ {CHOOSE x \in B : TRUE} \in T => B \in T
  PROVE  \A B \in SUBSET S : B \in T
<1> DEFINE N == {m \in Nat : \A B \in SUBSET S : Cardinality(B) = m => B \in T}
<1>1. \A B \in SUBSET S : IsFiniteSet(B) /\ Cardinality(B) \in Nat
  BY FS_Subset, FS_CardinalityType
<1>2. ASSUME NEW m \in Nat, \A k \in Nat : k < m => k \in N PROVE m \in N
  <2>1. SUFFICES ASSUME NEW B \in SUBSET S, Cardinality(B) = m, B # {} PROVE B \in T
    OBVIOUS
  <2>2. PICK y : y = CHOOSE x \in B : TRUE
    OBVIOUS
  <2>3. y \in B /\ B \ {y} \in SUBSET S
    BY <2>1, <2>2
  <2>4. Cardinality(B \ {y}) = m - 1 /\ m - 1 \in Nat /\ m - 1 < m
    <3>1. Cardinality(B \ {y}) = Cardinality(B) - 1 /\ Cardinality(B \ {y}) \in Nat
      BY <1>1, <2>3, FS_RemoveElement
    <3>2. QED
      BY <2>1, <3>1
  <2>5. B \ {y} \in T
    BY <1>2, <2>3, <2>4
  <2>6. QED
    BY <2>1, <2>2, <2>5
<1>3. \A m \in Nat : m \in N
  <2> HIDE DEF N
  <2>1. QED
    BY <1>2, NumbersUpTo
<1>4. QED
  BY <1>1, <1>3

\* A sum of naturals is one, and that of smaller ones is smaller.
LEMMA SumsGrow ==
  ASSUME NEW S, IsFiniteSet(S), NEW f \in [S -> Nat], NEW e \in [S -> Nat],
         NEW g, Sums(g, f, SUBSET S), NEW h, Sums(h, e, SUBSET S),
         \A x \in S : e[x] <= f[x]
  PROVE  g[S] \in Nat /\ h[S] \in Nat /\ h[S] <= g[S]
<1> DEFINE T == {B \in SUBSET S : g[B] \in Nat /\ h[B] \in Nat /\ h[B] <= g[B]}
<1>1. {} \in T
  BY DEF Sums
<1>2. ASSUME NEW B \in SUBSET S, B # {}, B \ {CHOOSE x \in B : TRUE} \in T PROVE B \in T
  <2>1. PICK y : y = CHOOSE x \in B : TRUE
    OBVIOUS
  <2>2. y \in B /\ g[B] = f[y] + g[B \ {y}] /\ h[B] = e[y] + h[B \ {y}]
    <3>1. y \in B /\ g[B] = f[y] + g[B \ {y}]
      BY <1>2, <2>1 DEF Sums
    <3>2. h[B] = e[y] + h[B \ {y}]
      BY <1>2, <2>1 DEF Sums
    <3>3. QED
      BY <3>1, <3>2
  <2>3. B \ {y} \in T /\ f[y] \in Nat /\ e[y] \in Nat /\ e[y] <= f[y]
    BY <1>2, <2>1, <2>2
  <2>4. PICK r : r = B \ {y}
    OBVIOUS
  <2>5. g[r] \in Nat /\ h[r] \in Nat /\ h[r] <= g[r]
    BY <2>3, <2>4
  <2>6. g[B] = f[y] + g[r] /\ h[B] = e[y] + h[r]
    BY <2>2, <2>4
  <2>7. QED
    BY <2>3, <2>5, <2>6
<1>3. S \in T
  <2> HIDE DEF T
  <2>1. QED
    BY <1>1, <1>2, SubsetInduction
<1>4. QED
  BY <1>3

\* A sum with one term that is not 0 is that term.
LEMMA SumsOnly ==
  ASSUME NEW S, IsFiniteSet(S), NEW s \in S, NEW f \in [S -> Nat],
         \A x \in S : x # s => f[x] = 0, NEW g, Sums(g, f, SUBSET S)
  PROVE  g[S] = f[s]
<1> DEFINE T == {B \in SUBSET S : g[B] = IF s \in B THEN f[s] ELSE 0}
<1>1. {} \in T
  BY DEF Sums
<1>2. ASSUME NEW B \in SUBSET S, B # {}, B \ {CHOOSE x \in B : TRUE} \in T PROVE B \in T
  <2>1. PICK y : y = CHOOSE x \in B : TRUE
    OBVIOUS
  <2>2. y \in B /\ g[B] = f[y] + g[B \ {y}]
    BY <1>2, <2>1 DEF Sums
  <2>3. PICK r : r = B \ {y}
    OBVIOUS
  <2>4. g[r] = IF s \in r THEN f[s] ELSE 0
    BY <1>2, <2>1, <2>3
  <2>5. g[B] = f[y] + g[r] /\ f[s] \in Nat
    BY <2>2, <2>3
  <2>6. CASE y = s
    BY <2>2, <2>3, <2>4, <2>5, <2>6
  <2>7. CASE y # s
    <3>1. f[y] = 0 /\ (s \in r <=> s \in B)
      BY <2>2, <2>3, <2>7
    <3>2. QED
      BY <2>4, <2>5, <3>1
  <2>8. QED
    BY <2>6, <2>7
<1>3. S \in T
  <2> HIDE DEF T
  <2>1. QED
    BY <1>1, <1>2, SubsetInduction
<1>4. QED
  BY <1>3

\* A sum changes by what one of its terms changes.
LEMMA SumsUpdate ==
  ASSUME NEW S, IsFiniteSet(S), NEW f \in [S -> Nat], NEW e \in [S -> Nat], NEW s \in S,
         \A x \in S : x # s => e[x] = f[x],
         NEW g, Sums(g, f, SUBSET S), NEW h, Sums(h, e, SUBSET S)
  PROVE  g[S] \in Nat /\ h[S] = g[S] - f[s] + e[s]
<1> DEFINE T == {B \in SUBSET S :
                   g[B] \in Nat /\ h[B] = IF s \in B THEN g[B] - f[s] + e[s] ELSE g[B]}
<1>1. {} \in T
  BY DEF Sums
<1>2. ASSUME NEW B \in SUBSET S, B # {}, B \ {CHOOSE x \in B : TRUE} \in T PROVE B \in T
  <2>1. PICK y : y = CHOOSE x \in B : TRUE
    OBVIOUS
  <2>2. y \in B /\ g[B] = f[y] + g[B \ {y}] /\ h[B] = e[y] + h[B \ {y}]
    <3>1. y \in B /\ g[B] = f[y] + g[B \ {y}]
      BY <1>2, <2>1 DEF Sums
    <3>2. h[B] = e[y] + h[B \ {y}]
      BY <1>2, <2>1 DEF Sums
    <3>3. QED
      BY <3>1, <3>2
  <2>3. PICK r : r = B \ {y}
    OBVIOUS
  <2>4. g[r] \in Nat /\ h[r] = IF s \in r THEN g[r] - f[s] + e[s] ELSE g[r]
    BY <1>2, <2>1, <2>3
  <2>5. g[B] = f[y] + g[r] /\ h[B] = e[y] + h[r]
    BY <2>2, <2>3
  <2>6. f[y] \in Nat /\ e[y] \in Nat /\ f[s] \in Nat /\ e[s] \in Nat
    BY <2>2
  <2>7. CASE y = s
    <3>1. s \notin r /\ s \in B
      BY <2>2, <2>3, <2>7
    <3>2. QED
      BY <2>4, <2>5, <2>6, <2>7, <3>1
  <2>8. CASE y # s
    <3>1. e[y] = f[y] /\ (s \in r <=> s \in B)
      BY <2>2, <2>3, <2>8
    <3>2. QED
      BY <2>4, <2>5, <2>6, <3>1
  <2>9. QED
    BY <2>7, <2>8
<1>3. S \in T
  <2> HIDE DEF T
  <2>1. QED
    BY <1>1, <1>2, SubsetInduction
<1>4. QED
  BY <1>3

LEMMA TotalUpdate ==
  ASSUME NEW S, IsFiniteSet(S), NEW f \in [S -> Nat], NEW e \in [S -> Nat], NEW s \in S,
         \A x \in S : x # s => e[x] = f[x]
  PROVE  Total(f, S) \in Nat /\ Total(e, S) = Total(f, S) - f[s] + e[s]
<1>1. PICK g : Sums(g, f, SUBSET S) /\ Total(f, S) = g[S]
  BY TotalIsSum
<1>2. PICK h : Sums(h, e, SUBSET S) /\ Total(e, S) = h[S]
  BY TotalIsSum
<1>3. g[S] \in Nat /\ h[S] = g[S] - f[s] + e[s]
  BY <1>1, <1>2, SumsUpdate
<1>4. QED
  BY <1>1, <1>2, <1>3

-----------------------------------------------------------------------------
(* Sequences one after the other *)

\* The equation of FlattenSeq, for the first n of the sequences.
Flattens(f, s, n) == f = [i \in 1 .. n |-> IF i = 1 THEN s[i] ELSE f[i - 1] \o s[i]]

\* The solution at one of them.
LEMMA FlattensAt ==
  ASSUME NEW s, NEW n, NEW f, Flattens(f, s, n), NEW i \in 1 .. n
  PROVE  f[i] = IF i = 1 THEN s[i] ELSE f[i - 1] \o s[i]
BY DEF Flattens

\* It has a solution.
LEMMA FlattensExists ==
  ASSUME NEW s
  PROVE  \A n \in Nat : \E f : Flattens(f, s, n)
<1> DEFINE T == {n \in Nat : \E f : Flattens(f, s, n)}
<1>1. 0 \in T
  <2>1. Flattens([i \in 1 .. 0 |-> s[i]], s, 0)
    BY DEF Flattens
  <2>2. QED
    BY <2>1
<1>2. ASSUME NEW n \in T PROVE n + 1 \in T
  <2>1. PICK f : Flattens(f, s, n)
    OBVIOUS
  <2>2. PICK g : g = [i \in 1 .. n + 1 |-> IF i = 1 THEN s[i] ELSE f[i - 1] \o s[i]]
    OBVIOUS
  <2>3. \A i \in 1 .. n : g[i] = f[i]
    <3>1. SUFFICES ASSUME NEW i \in 1 .. n PROVE g[i] = f[i]
      OBVIOUS
    <3>2. i \in 1 .. n + 1
      OBVIOUS
    <3>3. f[i] = IF i = 1 THEN s[i] ELSE f[i - 1] \o s[i]
      BY <2>1, FlattensAt
    <3>4. g[i] = IF i = 1 THEN s[i] ELSE f[i - 1] \o s[i]
      BY <2>2, <3>2
    <3>5. QED
      BY <3>3, <3>4
  <2>4. \A i \in 1 .. n + 1 : i # 1 => i - 1 \in 1 .. n
    OBVIOUS
  <2>5. \A i \in 1 .. n + 1 : (IF i = 1 THEN s[i] ELSE f[i - 1] \o s[i])
                              = IF i = 1 THEN s[i] ELSE g[i - 1] \o s[i]
    BY <2>3, <2>4
  <2>6. Flattens(g, s, n + 1)
    BY <2>2, <2>5 DEF Flattens
  <2>7. QED
    BY <2>6
<1>3. \A n \in Nat : n \in T
  <2> HIDE DEF T
  <2>1. ASSUME NEW m \in Nat, \A k \in Nat : k < m => k \in T PROVE m \in T
    <3>1. m # 0 => m - 1 \in Nat /\ m - 1 < m /\ (m - 1) + 1 = m
      OBVIOUS
    <3>2. QED
      BY <1>1, <1>2, <2>1, <3>1
  <2>2. QED
    BY <2>1, NumbersUpTo
<1>4. QED
  BY <1>3

Alike(f, g, n) == \A i \in 1 .. n : f[i] = g[i]

\* Two sequences of sequences that begin alike are flattened alike so far.
LEMMA FlattensAlike ==
  ASSUME NEW s, NEW t, NEW n \in Nat, NEW m \in Nat, n <= m, Alike(s, t, n),
         NEW f, Flattens(f, s, n), NEW g, Flattens(g, t, m)
  PROVE  Alike(f, g, n)
<1> DEFINE T == {i \in Nat : i \in 1 .. n => f[i] = g[i]}
<1>1. ASSUME NEW k \in Nat, \A j \in Nat : j < k => j \in T PROVE k \in T
  <2>1. SUFFICES ASSUME k \in 1 .. n PROVE f[k] = g[k]
    OBVIOUS
  <2>2. /\ f[k] = IF k = 1 THEN s[k] ELSE f[k - 1] \o s[k]
        /\ g[k] = IF k = 1 THEN t[k] ELSE g[k - 1] \o t[k]
    <3>1. k \in 1 .. m
      BY <2>1
    <3>2. QED
      BY <2>1, <3>1, FlattensAt
  <2>3. k # 1 => k - 1 \in Nat /\ k - 1 < k /\ k - 1 \in 1 .. n
    BY <2>1
  <2>4. k # 1 => f[k - 1] = g[k - 1]
    BY <1>1, <2>3
  <2>5. s[k] = t[k]
    BY <2>1 DEF Alike
  <2>6. QED
    BY <2>2, <2>4, <2>5
<1>2. \A i \in Nat : i \in T
  <2> HIDE DEF T
  <2>1. QED
    BY <1>1, NumbersUpTo
<1>3. QED
  BY <1>2 DEF Alike

\* FlattenSeq is that solution.
LEMMA FlattenIs ==
  ASSUME NEW S, NEW s \in Seq(S), Len(s) # 0
  PROVE  \E f : Flattens(f, s, Len(s)) /\ FlattenSeq(s) = f[Len(s)]
<1> DEFINE f == CHOOSE f : Flattens(f, s, Len(s))
<1>1. Len(s) \in Nat
  BY LenProperties
<1>2. Flattens(f, s, Len(s))
  BY <1>1, FlattensExists
<1>3. FlattenSeq(s) = f[Len(s)]
  BY DEF FlattenSeq, Flattens
<1>4. QED
  BY <1>2, <1>3

\* Two sequences, one after the other.
LEMMA JoinedType ==
  ASSUME NEW S, NEW P, P = Seq(S)
  PROVE  \A a, b \in P : a \o b \in P /\ Len(a \o b) = Len(a) + Len(b)
BY ConcatProperties

\* What is joined starts with the first part.
LEMMA JoinedFirst ==
  ASSUME NEW S, NEW P, P = Seq(S), NEW a \in P, NEW b \in P, NEW m \in Nat, Len(a) = m,
         NEW c, c = a \o b
  PROVE  \A k \in 1 .. m : c[k] = a[k]
<1>1. PICK n \in Nat : n = Len(b)
  BY LenProperties
<1>2. \A i \in 1 .. m + n : c[i] = IF i <= m THEN a[i] ELSE b[i - m]
  BY <1>1, ConcatProperties
<1>3. QED
  BY <1>2

\* What is joined goes on with the second part.
LEMMA JoinedSecond ==
  ASSUME NEW S, NEW P, P = Seq(S), NEW a \in P, NEW b \in P, NEW m \in Nat, Len(a) = m,
         NEW n \in Nat, Len(b) = n, NEW c, c = a \o b
  PROVE  \A k \in 1 .. n : c[m + k] = b[k]
<1>1. \A i \in 1 .. m + n : c[i] = IF i <= m THEN a[i] ELSE b[i - m]
  BY ConcatProperties
<1>2. \A k \in 1 .. n : m + k \in 1 .. m + n /\ ~(m + k <= m) /\ m + k - m = k
  OBVIOUS
<1>3. QED
  BY <1>1, <1>2

\* Concatenation is associative, for sequences that are members of a sequence.
LEMMA Regroup ==
  ASSUME NEW S, NEW P, P = Seq(S), NEW w \in P, NEW u \in P, NEW t \in P
  PROVE  (w \o u) \o t = w \o (u \o t)
<1>1. w \in Seq(S) /\ u \in Seq(S) /\ t \in Seq(S)
  OBVIOUS
<1>2. QED
  BY <1>1, ConcatAssociative

\* One more sequence at the end.
LEMMA FlattenAppend ==
  ASSUME NEW S, NEW P, P = Seq(S), NEW s \in Seq(P), NEW t \in P
  PROVE  FlattenSeq(Append(s, t)) = FlattenSeq(s) \o t
<1>1. PICK n \in Nat : n = Len(s)
  BY LenProperties
<1>2. PICK st \in Seq(P) : st = Append(s, t)
  BY AppendProperties
<1>3. PICK m \in Nat : m = n + 1
  OBVIOUS
<1>4. /\ Len(st) = m /\ m # 0 /\ n <= m
      /\ \A i \in 1 .. n : s[i] = st[i]
      /\ st[m] = t
  BY <1>1, <1>2, <1>3, AppendProperties
<1>5. PICK g : Flattens(g, st, m) /\ FlattenSeq(st) = g[m]
  BY <1>4, FlattenIs
<1>6. g[m] = IF n = 0 THEN t ELSE g[n] \o t
  <2>1. m \in 1 .. m /\ m - 1 = n /\ (m = 1 <=> n = 0)
    BY <1>3
  <2>2. g[m] = IF m = 1 THEN st[m] ELSE g[m - 1] \o st[m]
    BY <1>5, <2>1, FlattensAt
  <2>3. QED
    BY <1>4, <2>1, <2>2
<1>7. CASE n = 0
  <2>1. s = <<>> /\ FlattenSeq(s) = s
    BY <1>1, <1>7, EmptySeq DEF FlattenSeq
  <2>2. FlattenSeq(s) \o t = t
    BY <2>1, ConcatEmptySeq
  <2>3. QED
    BY <1>2, <1>5, <1>6, <1>7, <2>2
<1>8. CASE n # 0
  <2>1. PICK f : Flattens(f, s, n) /\ FlattenSeq(s) = f[n]
    BY <1>1, <1>8, FlattenIs
  <2>2. Alike(f, g, n)
    <3>1. /\ Flattens(f, s, n) /\ Flattens(g, st, m) /\ n <= m
          /\ n \in Nat /\ m \in Nat
      BY <1>4, <1>5, <2>1
    <3>2. Alike(s, st, n)
      BY <1>4 DEF Alike
    <3>3. QED
      BY ONLY <3>1, <3>2, FlattensAlike
  <2>3. f[n] = g[n]
    BY <1>8, <2>2 DEF Alike
  <2>4. QED
    BY <1>2, <1>5, <1>6, <1>8, <2>1, <2>3
<1>9. QED
  BY <1>7, <1>8

\* The result is a sequence of the members.
LEMMA FlattenType ==
  ASSUME NEW S, NEW P, P = Seq(S), NEW s \in Seq(P)
  PROVE  FlattenSeq(s) \in Seq(S)
<1>1. CASE Len(s) = 0
  BY <1>1, EmptySeq DEF FlattenSeq
<1>2. CASE Len(s) # 0
  <2>1. PICK n \in Nat : n = Len(s)
    BY LenProperties
  <2>2. PICK f : Flattens(f, s, n) /\ FlattenSeq(s) = f[n]
    BY <1>2, <2>1, FlattenIs
  <2>3. \A i \in 1 .. n : s[i] \in Seq(S)
    BY <2>1, ElementOfSeq
  <2> DEFINE T == {i \in Nat : i \in 1 .. n => f[i] \in Seq(S)}
  <2>4. ASSUME NEW k \in Nat, \A j \in Nat : j < k => j \in T PROVE k \in T
    <3>1. SUFFICES ASSUME k \in 1 .. n PROVE f[k] \in Seq(S)
      OBVIOUS
    <3>2. f[k] = IF k = 1 THEN s[k] ELSE f[k - 1] \o s[k]
      BY <2>2, <3>1 DEF Flattens
    <3>3. k # 1 => k - 1 \in Nat /\ k - 1 < k /\ k - 1 \in 1 .. n
      BY <3>1
    <3>4. k # 1 => f[k - 1] \in Seq(S)
      BY <2>4, <3>3
    <3>5. s[k] \in Seq(S)
      BY <2>3, <3>1
    <3>6. QED
      BY <3>2, <3>4, <3>5, ConcatProperties
  <2>5. \A i \in Nat : i \in T
    <3> HIDE DEF T
    <3>1. QED
      BY <2>4, NumbersUpTo
  <2>6. n \in 1 .. n
    BY <1>2, <2>1
  <2>7. QED
    BY <2>2, <2>5, <2>6
<1>3. QED
  BY <1>1, <1>2

\* More at the end of the last sequence.
LEMMA FlattenGrow ==
  ASSUME NEW S, NEW P, P = Seq(S), NEW s \in Seq(P), Len(s) # 0, NEW t \in P
  PROVE  FlattenSeq([s EXCEPT ![Len(s)] = s[Len(s)] \o t]) = FlattenSeq(s) \o t
<1>1. s # <<>>
  BY EmptySeq
<1>2. PICK h \in Seq(P), u \in P : s = Append(h, u)
  BY <1>1, SequenceEmptyOrAppend
<1>3. PICK n \in Nat : n = Len(h)
  BY LenProperties
<1>4. PICK v \in P : v = u \o t
  BY ConcatProperties
<1>5. /\ Len(s) = n + 1 /\ s[n + 1] = u /\ \A i \in 1 .. n : s[i] = h[i]
  BY <1>2, <1>3, AppendProperties
<1>6. PICK a \in Seq(P) : a = Append(h, v)
  BY AppendProperties
<1>7. /\ Len(a) = n + 1 /\ a[n + 1] = v /\ \A i \in 1 .. n : a[i] = h[i]
  BY <1>3, <1>6, AppendProperties
<1>8. PICK b : b = [s EXCEPT ![n + 1] = v]
  OBVIOUS
<1>9. /\ b \in Seq(P) /\ Len(b) = n + 1
      /\ \A j \in 1 .. n + 1 : b[j] = IF j = n + 1 THEN v ELSE s[j]
  <2>1. n + 1 \in 1 .. Len(s)
    BY <1>5
  <2>2. QED
    BY <1>5, <1>8, <2>1, ExceptSeq
<1>10. \A j \in 1 .. n + 1 : b[j] = a[j]
  <2>1. \A j \in 1 .. n + 1 : j = n + 1 \/ j \in 1 .. n
    OBVIOUS
  <2>2. QED
    BY <1>5, <1>7, <1>9, <2>1
<1>11. a = b
  BY <1>7, <1>9, <1>10, SeqEqual
<1>12. FlattenSeq(s) \o t = (FlattenSeq(h) \o u) \o t
  <2>1. FlattenSeq(Append(h, u)) = FlattenSeq(h) \o u
    BY FlattenAppend
  <2>2. QED
    BY ONLY <1>2, <2>1
<1>13. (FlattenSeq(h) \o u) \o t = FlattenSeq(h) \o v
  <2>1. PICK w \in P : w = FlattenSeq(h)
    BY FlattenType
  <2>2. (w \o u) \o t = w \o (u \o t)
    <3>1. P = Seq(S) /\ w \in P /\ u \in P /\ t \in P
      BY <1>2, <2>1
    <3>2. QED
      BY ONLY <3>1, Regroup, SMTT(30)
  <2>3. QED
    BY <1>4, <2>1, <2>2
<1>14. FlattenSeq(a) = FlattenSeq(h) \o v
  BY <1>6, FlattenAppend, SMTT(30)
<1>15. [s EXCEPT ![Len(s)] = s[Len(s)] \o t] = b
  BY <1>4, <1>5, <1>8
<1>16. QED
  BY <1>11, <1>12, <1>13, <1>14, <1>15

-----------------------------------------------------------------------------
(* Sequences that grow *)

\* The largest of the first m numbers is m, if it is there.
LEMMA MaxIsLast ==
  ASSUME NEW m \in Nat, NEW B \in SUBSET (1 .. m), m \in B
  PROVE  Max(B) = m
<1>1. \A y \in B : m >= y
  OBVIOUS
<1>2. \A x \in B : (\A y \in B : x >= y) => x = m
  OBVIOUS
<1>3. QED
  BY <1>1, <1>2 DEF Max

\* What holds of the empty sequence, and of a sequence with one more member whenever
\* it holds of the sequence, holds of all.
LEMMA SequencesUpTo ==
  ASSUME NEW V, NEW P, P = Seq(V), NEW T, <<>> \in T,
         \A s \in P : \A x \in V : s \in T => Append(s, x) \in T
  PROVE  \A s \in P : s \in T
<1> DEFINE N == {n \in Nat : \A s \in P : Len(s) = n => s \in T}
<1>1. ASSUME NEW m \in Nat, \A k \in Nat : k < m => k \in N PROVE m \in N
  <2>1. SUFFICES ASSUME NEW s \in P, Len(s) = m PROVE s \in T
    OBVIOUS
  <2>2. CASE m = 0
    BY <2>1, <2>2, EmptySeq
  <2>3. CASE m # 0
    <3>1. s # <<>>
      BY <2>1, <2>3
    <3>2. PICK h \in P, x \in V : s = Append(h, x)
      BY <3>1, SequenceEmptyOrAppend
    <3>3. Len(h) \in Nat /\ Len(s) = Len(h) + 1
      BY <3>2, AppendProperties, LenProperties
    <3>4. PICK k \in Nat : k = Len(h) /\ k < m
      BY <2>1, <3>3
    <3>5. k \in N
      BY <1>1, <3>4
    <3>6. h \in T
      BY <3>4, <3>5
    <3>7. QED
      BY <3>2, <3>6
  <2>4. QED
    BY <2>2, <2>3
<1>2. \A m \in Nat : m \in N
  <2> HIDE DEF N
  <2>1. QED
    BY <1>1, NumbersUpTo
<1>3. \A s \in P : Len(s) \in Nat
  BY LenProperties
<1>4. QED
  BY <1>2, <1>3

\* A sequence with a member more.
LEMMA OneBehind ==
  ASSUME NEW V, NEW s \in Seq(V), NEW x \in V
  PROVE  /\ Append(s, x) \in Seq(V) /\ Len(s) \in Nat /\ DOMAIN s = 1 .. Len(s)
         /\ Len(Append(s, x)) = Len(s) + 1 /\ DOMAIN Append(s, x) = 1 .. Len(s) + 1
         /\ Append(s, x)[Len(s) + 1] = x
         /\ \A k \in 1 .. Len(s) : s[k] \in V /\ Append(s, x)[k] = s[k]
<1>1. PICK n \in Nat : n = Len(s) /\ DOMAIN s = 1 .. n
  BY LenProperties
<1>2. PICK a \in Seq(V) : a = Append(s, x)
  BY AppendProperties
<1>3. Len(a) = n + 1 /\ a[n + 1] = x /\ \A k \in 1 .. n : a[k] = s[k]
  BY <1>1, <1>2, AppendProperties
<1>4. DOMAIN a = 1 .. n + 1
  BY <1>3, LenProperties
<1>5. \A k \in 1 .. n : s[k] \in V
  BY <1>1, ElementOfSeq
<1>6. QED
  BY <1>1, <1>2, <1>3, <1>4, <1>5

\* A pair as a sequence.
LEMMA PairIs ==
  ASSUME NEW G, NEW x \in G, NEW y \in G
  PROVE  Append(<<x>>, y) = <<x, y>> /\ <<x, y>> \in Seq(G)
<1>1. PICK a \in Seq(G) : a = <<x>> /\ Len(a) = 1 /\ a[1] = x
  <2>1. <<x>> \in Seq(G) /\ Len(<<x>>) = 1 /\ <<x>>[1] = x
    OBVIOUS
  <2>2. QED
    BY <2>1
<1>2. PICK b : b = Append(a, y)
  OBVIOUS
<1>3. /\ b \in Seq(G) /\ Len(b) = Len(a) + 1 
      /\ b[Len(a) + 1] = y
      /\ \A k \in 1 .. Len(a) :  b[k] = a[k]
  BY <1>2, OneBehind
<1>4. Len(b) = 2 /\ b[1] = x /\ b[2] = y
  <2>2. 1 \in 1 .. 1 /\ 1 + 1 = 2
    OBVIOUS
  <2>3. QED
    BY <1>1, <1>3, <2>2
<1>5. PICK c : c = <<x, y>>
  OBVIOUS
<1>6. c \in Seq(G) /\ Len(c) = 2 /\ c[1] = x /\ c[2] = y
  BY <1>5
<1>7. \A k \in 1 .. 2 : b[k] = c[k]
  BY <1>4, <1>6
<1>8. b = c
  BY <1>3, <1>4, <1>6, <1>7, SeqEqual
<1>9. QED
  BY <1>1, <1>2, <1>5, <1>6, <1>8

\* c is a and then b.
Joins(c, a, b) == c = a \o b

\* A part goes over from the end to the start.
LEMMA JoinsOn ==
  ASSUME NEW V, NEW P, P = Seq(V), NEW all, NEW s \in P, NEW f \in P, NEW piece \in P, NEW rest \in P, NEW more,
         Joins(all, s, f), Joins(f, piece, rest), Joins(more, s, piece)
  PROVE  Joins(all, more, rest)
<1>1. all = s \o f /\ f = piece \o rest /\ more = s \o piece
  BY DEF Joins
<1>2. (s \o piece) \o rest = s \o (piece \o rest)
  BY Regroup
<1>3. all = more \o rest
  BY <1>1, <1>2
<1>4. QED
  BY <1>3 DEF Joins

\* A sequence more to flatten.
LEMMA FlattenMore ==
  ASSUME NEW S, NEW P, P = Seq(S), NEW n \in Nat, NEW s \in [1 .. n -> P],
         NEW t \in [1 .. n + 1 -> P], Alike(t, s, n)
  PROVE  FlattenSeq(s) \in P /\ Joins(FlattenSeq(t), FlattenSeq(s), t[n + 1])
<1>1. PICK x \in P : x = t[n + 1]
  OBVIOUS
<1>2. s \in Seq(P) /\ Len(s) = n
  OBVIOUS
<1>3. PICK a \in Seq(P) : a = Append(s, x)
  BY <1>2, AppendProperties
<1>4. Len(a) = n + 1 /\ a[n + 1] = x /\ \A k \in 1 .. n : a[k] = s[k]
  BY <1>2, <1>3, AppendProperties
<1>5. \A k \in 1 .. n + 1 : k = n + 1 \/ k \in 1 .. n
  OBVIOUS
<1>6. \A k \in 1 .. n + 1 : a[k] = t[k]
  BY <1>1, <1>4, <1>5 DEF Alike
<1>7. a = [k \in 1 .. n + 1 |-> a[k]]
  BY <1>3, <1>4, LenProperties
<1>8. a = t
  BY <1>6, <1>7
<1>9. FlattenSeq(Append(s, x)) = FlattenSeq(s) \o x
  BY <1>2, FlattenAppend
<1>10. FlattenSeq(s) \in P
  BY <1>2, FlattenType
<1>11. QED
  BY <1>1, <1>3, <1>8, <1>9, <1>10 DEF Joins

-----------------------------------------------------------------------------
(* Sequences that are made from place to place *)

\* At the positions in good there is a part, and then the next position's.
Continues(f, good, part, next) ==
  f = [pos \in Nat |-> IF pos \in good THEN part[pos] \o f[next[pos]] ELSE <<>>]

\* The equation for the last n positions of N, and those behind them.
ContinuesLast(g, good, part, next, N, n) ==
  /\ g = [pos \in Nat |-> g[pos]]
  /\ \A pos \in Nat : pos + n > N =>
       g[pos] = IF pos \in good THEN part[pos] \o g[next[pos]] ELSE <<>>

\* What goes on as long as the positions are good comes to an end, for each of them
\* ends further on.
LEMMA ContinuesExist ==
  ASSUME NEW N \in Nat, NEW good, good \subseteq 0 .. N, NEW part, NEW next,
         \A pos \in good : next[pos] \in Nat /\ next[pos] > pos
  PROVE  \E f : Continues(f, good, part, next)
<1> DEFINE T == {n \in Nat : \E g : ContinuesLast(g, good, part, next, N, n)}
<1>1. ASSUME NEW n \in Nat, \A k \in Nat : k < n => k \in T PROVE n \in T
  <2>1. SUFFICES \E g : ContinuesLast(g, good, part, next, N, n)
    OBVIOUS
  <2>2. CASE n = 0
    <3>1. PICK g : g = [pos \in Nat |-> <<>>]
      OBVIOUS
    <3>2. \A pos \in Nat : pos + n > N => pos \notin good
      BY <2>2
    <3>3. ContinuesLast(g, good, part, next, N, n)
      BY <3>1, <3>2 DEF ContinuesLast
    <3>4. QED
      BY <3>3
  <2>3. CASE n # 0
    <3>1. PICK m \in Nat : n = m + 1 /\ m < n
      <4>1. n - 1 \in Nat /\ n = (n - 1) + 1 /\ n - 1 < n
        BY <2>3
      <4>2. QED
        BY <4>1
    <3>2. PICK g : ContinuesLast(g, good, part, next, N, m)
      BY <1>1, <3>1
    <3>3. PICK h : h = [pos \in Nat |->
                          IF pos + m > N THEN g[pos]
                          ELSE IF pos \in good THEN part[pos] \o g[next[pos]] ELSE <<>>]
      OBVIOUS
    <3>4. ASSUME NEW pos \in Nat, pos + n > N
          PROVE  h[pos] = IF pos \in good THEN part[pos] \o h[next[pos]] ELSE <<>>
      <4>1. h[pos] = IF pos \in good THEN part[pos] \o g[next[pos]] ELSE <<>>
        BY <3>2, <3>3 DEF ContinuesLast
      <4>2. pos \in good => h[next[pos]] = g[next[pos]]
        <5>1. SUFFICES ASSUME pos \in good PROVE h[next[pos]] = g[next[pos]]
          OBVIOUS
        <5>2. PICK q \in Nat : q = next[pos] /\ q > pos
          BY <5>1
        <5>3. q + m > N
          BY <3>1, <3>4, <5>2
        <5>4. QED
          BY <3>3, <5>2, <5>3
      <4>3. QED
        BY <4>1, <4>2
    <3>5. h = [pos \in Nat |-> h[pos]]
      BY <3>3
    <3>6. ContinuesLast(h, good, part, next, N, n)
      BY <3>4, <3>5 DEF ContinuesLast
    <3>7. QED
      BY <3>6
  <2>4. QED
    BY <2>2, <2>3
<1>2. \A n \in Nat : n \in T
  <2> HIDE DEF T
  <2>1. QED
    BY <1>1, NumbersUpTo
<1>3. PICK n \in Nat : n = N + 1
  OBVIOUS
<1>4. PICK g : ContinuesLast(g, good, part, next, N, n)
  BY <1>2
<1>5. \A pos \in Nat : g[pos] = IF pos \in good THEN part[pos] \o g[next[pos]] ELSE <<>>
  <2>1. \A pos \in Nat : pos + n > N
    BY <1>3
  <2>2. QED
    BY ONLY <1>4, <2>1, Zenon DEF ContinuesLast
<1>6. Continues(g, good, part, next)
  BY <1>4, <1>5 DEF Continues, ContinuesLast
<1>7. QED
  BY <1>6

=============================================================================
