------------------------- MODULE RecursionTheorems -------------------------
(***************************************************************************)
(* What is defined along a sequence, by a recursive function: that there   *)
(* is such a function, and induction up to its length.  A definition       *)
(*                                                                         *)
(*     LET f[i \in 0..n] == IF i = 0 THEN a ELSE step(f[i - 1], i) IN f[n] *)
(*                                                                         *)
(* chooses a function; it is there if step keeps a set that a is in        *)
(* (Recursion), and what holds of f[0] and is kept holds of f[n] (UpTo).   *)
(* From these, what lists joined or picked from have (Flatten, Picked),    *)
(* and where a list of moves leads (Path), and a sequence's last.          *)
(***************************************************************************)
EXTENDS Lists, SequencesExt, SequenceTheorems, WellFoundedInduction, TLAPS

\* Induction up to a length.
LEMMA UpTo ==
    ASSUME NEW n \in Nat, NEW T, 0 \in T, \A i \in 1..n : i - 1 \in T => i \in T
    PROVE  \A i \in 0..n : i \in T
<1> DEFINE less == {p \in Nat \X Nat : p[1] < p[2]}
           bad == {i \in 0..n : i \notin T}
<1>1. less = OpToRel(<, Nat)
  BY DEF OpToRel
<1>2. IsWellFoundedOn(less, Nat)
  BY <1>1, NatLessThanWellFounded
<1> HIDE DEF less
<1>3. CASE bad # {}
  <2>0. bad \subseteq Nat
    OBVIOUS
  <2>1. PICK i \in bad : \A j \in bad : ~(<<j, i>> \in less)
    <3> HIDE DEF bad
    <3>1. QED
      BY <1>2, <1>3, <2>0, WFMin
  <2>2. i \in 1..n /\ i - 1 \in 0..n /\ i - 1 < i /\ i - 1 \in Nat /\ i \in Nat
    BY <2>1
  <2>3. i - 1 \notin bad
    BY <2>1, <2>2 DEF less
  <2>4. QED
    BY <2>1, <2>2, <2>3
<1>4. QED
  BY <1>3

\* Of numbers there is a largest.
LEMMA LargestOf ==
    ASSUME NEW S, S # {}, NEW n \in Nat, NEW f \in [S -> 0..n]
    PROVE  \E x \in S : \A y \in S : f[y] <= f[x]
<1> DEFINE T == {i \in 0..n : \A x \in S : ~(f[x] > n - i)}
<1>1. SUFFICES ASSUME \A x \in S : \E y \in S : ~(f[y] <= f[x]) PROVE FALSE
  OBVIOUS
<1>2. 0 \in T
  OBVIOUS
<1>3. ASSUME NEW i \in 1..n, i - 1 \in T PROVE i \in T
  <2>1. ASSUME NEW x \in S, f[x] > n - i PROVE FALSE
    <3>1. f[x] \in 0..n /\ ~(f[x] > n - (i - 1))
      BY <1>3
    <3>2. f[x] = n - i + 1
      BY <2>1, <3>1
    <3>3. PICK y \in S : ~(f[y] <= f[x])
      BY <1>1
    <3>4. f[y] \in 0..n /\ ~(f[y] > n - (i - 1))
      BY <1>3
    <3>5. QED
      BY <3>2, <3>3, <3>4
  <2>2. i \in 0..n
    OBVIOUS
  <2>3. QED
    BY <2>1, <2>2
<1>4. n \in T
  <2> HIDE DEF T
  <2>1. \A i \in 0..n : i \in T
    BY <1>2, <1>3, UpTo
  <2>2. QED
    BY <2>1
<1>5. \A x \in S : f[x] = 0
  BY <1>4
<1>6. QED
  BY <1>1, <1>5

LEMMA MaxOf ==
    ASSUME NEW n \in Nat, NEW S \in SUBSET (0..n), S # {}
    PROVE  Max(S) \in S /\ \A y \in S : y <= Max(S)
<1> DEFINE f == [x \in S |-> x]
<1>1. f \in [S -> 0..n] /\ \A x \in S : f[x] = x
  OBVIOUS
<1> HIDE DEF f
<1>2. \E x \in S : \A y \in S : f[y] <= f[x]
  BY <1>1, LargestOf
<1>3. \E x \in S : \A y \in S : x >= y
  BY <1>1, <1>2
<1>4. QED
  BY <1>3 DEF Max

LEMMA MaxIs ==
    ASSUME NEW n \in Nat, NEW S \in SUBSET (0..n), NEW m \in S, \A y \in S : y <= m
    PROVE  Max(S) = m
<1>1. Max(S) \in S /\ m <= Max(S) /\ Max(S) <= m
  BY MaxOf
<1>2. Max(S) \in 0..n /\ m \in 0..n
  BY <1>1
<1>3. QED
  BY <1>1, <1>2

LEMMA MinIs ==
    ASSUME NEW S, S \subseteq Nat, NEW m \in S, \A y \in S : m <= y
    PROVE  Min(S) = m
<1>1. \A x \in S : (\A y \in S : x <= y) => x = m
  <2>1. SUFFICES ASSUME NEW x \in S, \A y \in S : x <= y PROVE x = m
    OBVIOUS
  <2>2. x <= m /\ m <= x /\ x \in Nat /\ m \in Nat
    BY <2>1
  <2>3. QED
    BY <2>2
<1>2. QED
  BY <1>1 DEF Min

LEMMA MinOf ==
    ASSUME NEW n \in Nat, NEW S \in SUBSET (0..n), S # {}
    PROVE  Min(S) \in S /\ \A y \in S : Min(S) <= y
<1> DEFINE f == [x \in S |-> n - x]
<1>1. f \in [S -> 0..n] /\ \A x \in S : f[x] = n - x
  OBVIOUS
<1> HIDE DEF f
<1>2. PICK x \in S : \A y \in S : f[y] <= f[x]
  BY <1>1, LargestOf
<1>3. \A y \in S : x <= y
  BY <1>1, <1>2
<1>4. QED
  BY <1>3 DEF Min

\* The functions that such a definition chooses from.
StepsOn(S, n) == [S \X (1..n) -> S]
RunOf(step, a, S, n) == {w \in [0..n -> S] : /\ w[0] = a
                                           /\ \A i \in 1..n : w[i] = step[<<w[i - 1], i>>]}

\* There is a run of every length.
LEMMA Recursion ==
    ASSUME NEW S, NEW n \in Nat, NEW a \in S, NEW step \in StepsOn(S, n)
    PROVE  RunOf(step, a, S, n) # {}
<1> DEFINE Along(k, w) == /\ w \in [0..k -> S] /\ w[0] = a
                          /\ \A i \in 1..k : w[i] = step[<<w[i - 1], i>>]
           T == {k \in 0..n : \E w \in [0..k -> S] : Along(k, w)}
<1>1. 0 \in T
  <2> DEFINE one == [i \in 0..0 |-> a]
  <2>1. one \in [0..0 -> S] /\ one[0] = a /\ 1..0 = {}
    OBVIOUS
  <2> HIDE DEF one
  <2>2. Along(0, one)
    BY <2>1
  <2>3. 0 \in 0..n
    OBVIOUS
  <2>4. QED
    BY <2>1, <2>2, <2>3
<1>2. ASSUME NEW k \in 1..n, k - 1 \in T PROVE k \in T
  <2>1. PICK w \in [0..(k - 1) -> S] : Along(k - 1, w)
    BY <1>2
  <2> DEFINE v == [i \in 0..k |-> IF i = k THEN step[<<w[k - 1], k>>] ELSE w[i]]
  <2>2. /\ 0..k = 0..(k - 1) \cup {k} /\ 1..k = 1..(k - 1) \cup {k}
        /\ \A i \in 0..(k - 1) : i # k /\ i \in 0..k
        /\ \A i \in 1..k : i - 1 \in 0..(k - 1)
        /\ k - 1 \in 0..(k - 1) /\ 0 \in 0..(k - 1)
    OBVIOUS
  <2>3. w[k - 1] \in S /\ <<w[k - 1], k>> \in S \X (1..n)
    BY <2>2
  <2>4. v[k] = step[<<w[k - 1], k>>] /\ v[k] \in S /\ \A i \in 0..(k - 1) : v[i] = w[i]
    BY <2>2, <2>3 DEF StepsOn
  <2>5. v \in [0..k -> S]
    BY <2>2, <2>4
  <2> HIDE DEF v
  <2>6. \A i \in 1..k : v[i] = step[<<v[i - 1], i>>]
    <3>1. v[k] = step[<<v[k - 1], k>>]
      BY <2>2, <2>4
    <3>2. \A i \in 1..(k - 1) : v[i] = step[<<v[i - 1], i>>]
      <4>1. \A i \in 1..(k - 1) : i \in 0..(k - 1) /\ i - 1 \in 0..(k - 1)
        OBVIOUS
      <4>2. \A i \in 1..(k - 1) : w[i] = step[<<w[i - 1], i>>]
        BY <2>1
      <4>3. QED
        BY <2>4, <4>1, <4>2
    <3>3. QED
      BY <2>2, <3>1, <3>2
  <2>7. Along(k, v)
    BY <2>1, <2>2, <2>4, <2>5, <2>6
  <2>8. QED
    BY <2>5, <2>7
<1>3. n \in T
  <2> HIDE DEF T
  <2>1. \A i \in 0..n : i \in T
    BY <1>1, <1>2, UpTo
  <2>2. QED
    BY <2>1
<1>4. QED
  BY <1>3 DEF RunOf

\* FlattenSeq is defined that way.
LinksOf(S, s) ==
    {w \in [0..Len(s) -> Seq(S)] : w[0] = <<>> /\ \A i \in 1..Len(s) : w[i] = w[i - 1] \o s[i]}

LEMMA FlattenParts ==
    ASSUME NEW S, NEW s \in Seq(Seq(S))
    PROVE  \E w \in LinksOf(S, s) : FlattenSeq(s) = w[Len(s)]
<1> DEFINE n == Len(s)
<1>1. n \in Nat /\ \A i \in 1..n : s[i] \in Seq(S)
  BY LenProperties, ElementOfSeq
<1>2. CASE n = 0
  <2>1. s = <<>> /\ FlattenSeq(s) = <<>> /\ Len(s) = 0
    BY <1>2, EmptySeq DEF FlattenSeq
  <2> DEFINE w == [i \in 0..0 |-> <<>>]
  <2>2. w \in [0..0 -> Seq(S)] /\ w[0] = <<>> /\ 1..0 = {}
    BY EmptySeq
  <2> HIDE DEF w
  <2>3. w \in LinksOf(S, s) /\ FlattenSeq(s) = w[Len(s)]
    BY <2>1, <2>2 DEF LinksOf
  <2>4. QED
    BY <2>3
<1>3. CASE n # 0
  <2> DEFINE Defines(w) == w = [i \in 1..n |-> IF i = 1 THEN s[i] ELSE w[i - 1] \o s[i]]
             flatten == CHOOSE w : Defines(w)
             step == [p \in Seq(S) \X (1..n) |-> p[1] \o s[p[2]]]
  <2>1. FlattenSeq(s) = flatten[n]
    BY <1>3 DEF FlattenSeq
  <2>2. step \in [Seq(S) \X (1..n) -> Seq(S)] /\ <<>> \in Seq(S)
    BY <1>1
  <2>3. \A x \in Seq(S), i \in 1..n : step[<<x, i>>] = x \o s[i]
    OBVIOUS
  <2> HIDE DEF step, n, flatten, Defines
  <2>4. PICK w \in [0..n -> Seq(S)] : /\ w[0] = <<>>
                                      /\ \A i \in 1..n : w[i] = step[<<w[i - 1], i>>]
    <3> DEFINE R == Seq(S)
    <3>1. step \in StepsOn(R, n) /\ <<>> \in R /\ n \in Nat
      BY <1>1, <2>2 DEF StepsOn
    <3> HIDE DEF R
    <3>2. RunOf(step, <<>>, R, n) # {}
      BY <3>1, Recursion
    <3>3. QED
      BY <3>2 DEF R, RunOf
  <2>5. \A i \in 1..n : w[i] = IF i = 1 THEN s[i] ELSE w[i - 1] \o s[i]
    <3>1. \A i \in 1..n : i - 1 \in 0..n /\ (i = 1 => i - 1 = 0)
      BY <1>1
    <3>2. \A i \in 1..n : w[i] = w[i - 1] \o s[i]
      BY <2>3, <2>4, <3>1
    <3>3. \A x \in Seq(S) : <<>> \o x = x
      BY ConcatEmptySeq
    <3>4. ASSUME NEW i \in 1..n PROVE w[i] = IF i = 1 THEN s[i] ELSE w[i - 1] \o s[i]
      <4>1. CASE i = 1
        <5>1. w[i - 1] = <<>>
          BY <2>4, <3>1, <4>1
        <5>2. w[i] = <<>> \o s[i] /\ s[i] \in Seq(S)
          BY <1>1, <3>2, <5>1
        <5>3. QED
          BY <3>3, <4>1, <5>2
      <4>2. CASE i # 1
        BY <3>2, <4>2
      <4>3. QED
        BY <4>1, <4>2
    <3>5. QED
      BY <3>4
  <2>6. Defines([i \in 1..n |-> w[i]])
    <3>1. \A i \in 1..n : i # 1 => i - 1 \in 1..n
      BY <1>1
    <3>2. QED
      BY <2>5, <3>1 DEF Defines
  <2>7. Defines(flatten)
    BY <2>6 DEF flatten
  <2> DEFINE T == {i \in 0..n : i = 0 \/ flatten[i] = w[i]}
  <2>8. 0 \in T
    BY <1>1
  <2>9. \A i \in 1..n : i - 1 \in T => i \in T
    <3>1. ASSUME NEW i \in 1..n, i - 1 \in T PROVE flatten[i] = w[i]
      <4>1. flatten[i] = IF i = 1 THEN s[i] ELSE flatten[i - 1] \o s[i]
        BY <2>7 DEF Defines
      <4>2. i # 1 => flatten[i - 1] = w[i - 1]
        BY <1>1, <3>1
      <4>3. QED
        BY <2>5, <4>1, <4>2
    <3>2. \A i \in 1..n : i \in 0..n
      BY <1>1
    <3>3. QED
      BY <3>1, <3>2
  <2> HIDE DEF T
  <2>10. n \in T
    <3>1. \A i \in 0..n : i \in T
      BY <1>1, <2>8, <2>9, UpTo
    <3>2. QED
      BY <1>1, <3>1
  <2>11. flatten[n] = w[n]
    BY <1>3, <2>10 DEF T, n
  <2>12. \A i \in 1..n : w[i] = w[i - 1] \o s[i]
    <3>1. \A i \in 1..n : i - 1 \in 0..n
      BY <1>1
    <3>2. QED
      BY <2>3, <2>4, <3>1
  <2>13. w \in LinksOf(S, s)
    BY <2>4, <2>12 DEF LinksOf, n
  <2>14. QED
    BY <2>1, <2>11, <2>13 DEF n
<1>4. QED
  BY <1>2, <1>3

\* Parts of one type make one sequence of it.
LEMMA FlattenTyped ==
    ASSUME NEW S, NEW s \in Seq(Seq(S))
    PROVE  FlattenSeq(s) \in Seq(S)
<1>1. PICK w \in LinksOf(S, s) : FlattenSeq(s) = w[Len(s)]
  BY FlattenParts
<1>2. w \in [0..Len(s) -> Seq(S)] /\ Len(s) \in Nat
  BY LenProperties DEF LinksOf
<1>3. Len(s) \in 0..Len(s)
  BY <1>2
<1>4. QED
  BY <1>1, <1>2, <1>3

\* One part more, at the end.
LEMMA FlattenAppend ==
    ASSUME NEW S, NEW s \in Seq(Seq(S)), NEW x \in Seq(S)
    PROVE  FlattenSeq(Append(s, x)) = FlattenSeq(s) \o x
<1> DEFINE n == Len(s)
           R == Seq(S)
           more == Append(s, x)
<1>1. /\ n \in Nat /\ more \in Seq(R) /\ Len(more) = n + 1 /\ more[n + 1] = x
      /\ \A i \in 1..n : more[i] = s[i]
  <2>1. s \in Seq(R) /\ x \in R
    OBVIOUS
  <2> HIDE DEF R
  <2>2. QED
    BY <2>1, LenProperties, AppendProperties
<1>2. PICK w \in LinksOf(S, s) : FlattenSeq(s) = w[n]
  BY FlattenParts
<1>3. PICK v \in LinksOf(S, more) : FlattenSeq(more) = v[n + 1]
  <2>1. more \in Seq(Seq(S))
    BY <1>1
  <2> HIDE DEF more
  <2>2. QED
    BY <1>1, <2>1, FlattenParts
<1>4. w[0] = <<>> /\ \A i \in 1..n : w[i] = w[i - 1] \o s[i]
  BY DEF LinksOf
<1>5. v[0] = <<>> /\ \A i \in 1..(n + 1) : v[i] = v[i - 1] \o more[i]
  BY <1>1 DEF LinksOf
<1> HIDE DEF n, more
<1> DEFINE T == {i \in 0..n : v[i] = w[i]}
<1>6. 0 \in T
  BY <1>1, <1>4, <1>5
<1>7. \A i \in 1..n : i - 1 \in T => i \in T
  <2>1. \A i \in 1..n : i \in 1..(n + 1) /\ i \in 0..n
    BY <1>1
  <2>2. QED
    BY <1>1, <1>4, <1>5, <2>1
<1>8. v[n] = w[n]
  <2> HIDE DEF T
  <2>1. \A i \in 0..n : i \in T
    BY <1>1, <1>6, <1>7, UpTo
  <2>2. QED
    BY <1>1, <2>1 DEF T
<1>9. v[n + 1] = v[n] \o x
  <2>1. n + 1 \in 1..(n + 1) /\ (n + 1) - 1 = n
    BY <1>1
  <2>2. QED
    BY <1>1, <1>5, <2>1
<1>10. QED
  BY <1>2, <1>3, <1>8, <1>9 DEF more

\* The first parts of a list, made one.
Upto(s, k) == FlattenSeq(SubSeq(s, 1, k))

LEMMA UptoGrows ==
    ASSUME NEW S, NEW s \in Seq(Seq(S))
    PROVE  /\ Upto(s, 0) = <<>> /\ Upto(s, Len(s)) = FlattenSeq(s)
           /\ \A k \in 0..Len(s) : Upto(s, k) \in Seq(S)
           /\ \A k \in 1..Len(s) : Upto(s, k) = Upto(s, k - 1) \o s[k]
<1> DEFINE R == Seq(S)
           n == Len(s)
<1>1. s \in Seq(R) /\ n \in Nat
  BY LenProperties
<1>2. /\ SubSeq(s, 1, n) = s /\ SubSeq(s, 1, 0) = <<>>
      /\ \A k \in 0..n : SubSeq(s, 1, k) \in Seq(R)
      /\ \A k \in 1..n : SubSeq(s, 1, k) = Append(SubSeq(s, 1, k - 1), s[k]) /\ s[k] \in R
  <2> HIDE DEF R
  <2>1. QED
    BY <1>1 DEF n
<1>3. FlattenSeq(<<>>) = <<>>
  BY DEF FlattenSeq
<1>4. \A k \in 0..n : Upto(s, k) \in Seq(S)
  BY <1>2, FlattenTyped DEF Upto
<1>5. \A k \in 1..n : Upto(s, k) = Upto(s, k - 1) \o s[k]
  <2> TAKE k \in 1..n
  <2> DEFINE before == SubSeq(s, 1, k - 1)
  <2>1. k - 1 \in 0..n
    BY <1>1
  <2>2. before \in Seq(Seq(S)) /\ s[k] \in Seq(S) /\ SubSeq(s, 1, k) = Append(before, s[k])
    BY <1>2, <2>1
  <2> HIDE DEF before
  <2>3. FlattenSeq(Append(before, s[k])) = FlattenSeq(before) \o s[k]
    BY <2>2, FlattenAppend
  <2>4. QED
    BY <2>2, <2>3 DEF Upto, before
<1>6. QED
  BY <1>2, <1>3, <1>4, <1>5 DEF Upto

-----------------------------------------------------------------------------
(* What lists have at some of their places.                                *)

\* The parts of Picked, one for each beginning of the list.
PicksOf(S, list, places) ==
    {w \in [0..Len(list) -> Seq(S)] :
        /\ w[0] = <<>>
        /\ \A i \in 1..Len(list) :
              w[i] = IF i \in places THEN Append(w[i - 1], list[i]) ELSE w[i - 1]}

LEMMA PickedParts ==
    ASSUME NEW S, NEW list \in Seq(S), NEW places
    PROVE  \E w \in PicksOf(S, list, places) : Picked(list, places) = w[Len(list)]
<1> DEFINE n == Len(list)
           R == Seq(S)
           Defines(w) == w = [i \in 0..n |->
                                IF i = 0 THEN <<>>
                                ELSE IF i \in places THEN Append(w[i - 1], list[i]) ELSE w[i - 1]]
           upto == CHOOSE w : Defines(w)
           step == [p \in R \X (1..n) |->
                      IF p[2] \in places THEN Append(p[1], list[p[2]]) ELSE p[1]]
<1>1. n \in Nat /\ \A i \in 1..n : list[i] \in S
  BY LenProperties, ElementOfSeq
<1>2. Picked(list, places) = upto[n]
  BY DEF Picked
<1>3. step \in StepsOn(R, n) /\ <<>> \in R
  <2>1. \A x \in R, i \in 1..n : Append(x, list[i]) \in R
    BY <1>1, AppendProperties
  <2>2. QED
    BY <2>1, EmptySeq DEF StepsOn
<1>4. \A x \in R, i \in 1..n :
        step[<<x, i>>] = IF i \in places THEN Append(x, list[i]) ELSE x
  OBVIOUS
<1> HIDE DEF n, R, step, Defines, upto
<1>5. PICK w \in [0..n -> R] : w[0] = <<>> /\ \A i \in 1..n : w[i] = step[<<w[i - 1], i>>]
  BY <1>1, <1>3, Recursion DEF RunOf
<1>6. \A i \in 1..n : i - 1 \in 0..n /\ i # 0 /\ i \in 0..n
  BY <1>1
<1>7. \A i \in 1..n : w[i] = IF i \in places THEN Append(w[i - 1], list[i]) ELSE w[i - 1]
  BY <1>4, <1>5, <1>6
<1>8. Defines(w)
  <2>1. \A i \in 0..n : w[i] = IF i = 0 THEN <<>>
                               ELSE IF i \in places THEN Append(w[i - 1], list[i]) ELSE w[i - 1]
    <3>1. \A i \in 0..n : i # 0 => i \in 1..n
      BY <1>1
    <3>2. QED
      BY <1>5, <1>7, <3>1
  <2>2. QED
    BY <2>1 DEF Defines
<1>9. Defines(upto)
  BY <1>8 DEF upto
<1>10. /\ upto[0] = <<>>
       /\ \A i \in 1..n : upto[i] = IF i \in places THEN Append(upto[i - 1], list[i]) ELSE upto[i - 1]
       /\ DOMAIN upto = 0..n
  <2>1. 0 \in 0..n
    BY <1>1
  <2>2. QED
    BY <1>6, <1>9, <2>1 DEF Defines
<1> DEFINE T == {i \in 0..n : upto[i] = w[i]}
<1>11. \A i \in 0..n : i \in T
  <2>1. 0 \in T
    BY <1>1, <1>5, <1>10
  <2>2. \A i \in 1..n : i - 1 \in T => i \in T
    BY <1>6, <1>7, <1>10
  <2> HIDE DEF T
  <2>3. QED
    BY <1>1, <2>1, <2>2, UpTo
<1>12. Picked(list, places) = w[n]
  BY <1>1, <1>2, <1>11
<1>13. QED
  BY <1>5, <1>7, <1>12 DEF n, R, PicksOf

\* It has what the list has at these places, and nothing else.
LEMMA PickedHas ==
    ASSUME NEW S, NEW list \in Seq(S), NEW places
    PROVE  /\ Picked(list, places) \in Seq(S)
           /\ ToSet(Picked(list, places)) = {list[i] : i \in places \cap (1..Len(list))}
<1> DEFINE n == Len(list)
<1>0. PICK w \in PicksOf(S, list, places) : Picked(list, places) = w[n]
  BY PickedParts
<1>1. /\ w \in [0..n -> Seq(S)] /\ w[0] = <<>> /\ Picked(list, places) = w[n]
      /\ \A i \in 1..n : w[i] = IF i \in places THEN Append(w[i - 1], list[i]) ELSE w[i - 1]
  BY <1>0 DEF PicksOf
<1>2. n \in Nat /\ \A i \in 1..n : list[i] \in S
  BY LenProperties, ElementOfSeq
<1> HIDE DEF n
<1>3. \A s \in Seq(S), x \in S : ToSet(Append(s, x)) = ToSet(s) \cup {x}
  <2> TAKE s \in Seq(S), x \in S
  <2>1. /\ Len(s) \in Nat /\ DOMAIN s = 1..Len(s)
        /\ Append(s, x) \in Seq(S) /\ Len(Append(s, x)) = Len(s) + 1
        /\ \A i \in 1..Len(s) : Append(s, x)[i] = s[i]
        /\ Append(s, x)[Len(s) + 1] = x
    BY LenProperties, AppendProperties
  <2>2. DOMAIN Append(s, x) = 1..(Len(s) + 1)
    BY <2>1, LenProperties
  <2>3. 1..(Len(s) + 1) = 1..Len(s) \cup {Len(s) + 1}
    BY <2>1
  <2>4. QED
    BY <2>1, <2>2, <2>3 DEF ToSet
<1> DEFINE T == {k \in 0..n : ToSet(w[k]) = {list[i] : i \in places \cap (1..k)}}
<1>4. 0 \in T
  <2>1. 0 \in 0..n /\ 1..0 = {}
    BY <1>2
  <2>2. ToSet(<<>>) = {}
    BY DEF ToSet
  <2>3. QED
    BY <1>1, <2>1, <2>2
<1>5. ASSUME NEW k \in 1..n, k - 1 \in T PROVE k \in T
  <2>1. k - 1 \in 0..n /\ k \in 0..n /\ 1..k = 1..(k - 1) \cup {k} /\ k \notin 1..(k - 1)
    BY <1>2
  <2>2. w[k - 1] \in Seq(S) /\ list[k] \in S
    BY <1>1, <1>2, <2>1
  <2>3. CASE k \in places
    <3>1. ToSet(w[k]) = ToSet(w[k - 1]) \cup {list[k]}
      BY <1>1, <1>3, <2>2, <2>3
    <3>2. {list[i] : i \in places \cap (1..k)} = {list[i] : i \in places \cap (1..(k - 1))} \cup {list[k]}
      BY <2>1, <2>3
    <3>3. QED
      BY <1>5, <2>1, <3>1, <3>2
  <2>4. CASE k \notin places
    <3>1. places \cap (1..k) = places \cap (1..(k - 1))
      BY <2>1, <2>4
    <3>2. QED
      BY <1>1, <1>5, <2>1, <2>4, <3>1
  <2>5. QED
    BY <2>3, <2>4
<1>6. n \in T
  <2> HIDE DEF T
  <2>1. \A k \in 0..n : k \in T
    BY <1>2, <1>4, <1>5, UpTo
  <2>2. QED
    BY <1>2, <2>1
<1>7. w[n] \in Seq(S)
  BY <1>1, <1>2
<1>8. QED
  BY <1>1, <1>6, <1>7 DEF n

\* One more place behind the others adds what is there at the end.
LEMMA PickedGrows ==
    ASSUME NEW S, NEW list \in Seq(S), NEW n \in 1..Len(list), NEW places \in SUBSET (1..(n - 1))
    PROVE  Picked(list, places \cup {n}) = Append(Picked(list, places), list[n])
<1> DEFINE m == Len(list)
           more == places \cup {n}
<1>10. PICK w \in PicksOf(S, list, places) : Picked(list, places) = w[m]
  BY PickedParts
<1>1. /\ w \in [0..m -> Seq(S)] /\ w[0] = <<>> /\ Picked(list, places) = w[m]
      /\ \A i \in 1..m : w[i] = IF i \in places THEN Append(w[i - 1], list[i]) ELSE w[i - 1]
  BY <1>10 DEF PicksOf
<1>20. PICK v \in PicksOf(S, list, more) : Picked(list, more) = v[m]
  BY PickedParts
<1>2. /\ v \in [0..m -> Seq(S)] /\ v[0] = <<>> /\ Picked(list, more) = v[m]
      /\ \A i \in 1..m : v[i] = IF i \in more THEN Append(v[i - 1], list[i]) ELSE v[i - 1]
  BY <1>20 DEF PicksOf
<1>3. m \in Nat /\ n \in 1..m /\ n \in Nat /\ n <= m
  BY LenProperties
<1> HIDE DEF m
<1> DEFINE T == {k \in 0..m : IF k < n THEN v[k] = w[k]
                              ELSE w[k] = w[n - 1] /\ v[k] = Append(w[n - 1], list[n])}
<1>4. 0 \in T
  BY <1>1, <1>2, <1>3
<1>5. ASSUME NEW k \in 1..m, k - 1 \in T PROVE k \in T
  <2>1. k \in 0..m /\ k - 1 \in 0..m /\ n - 1 \in 0..m /\ k \in Nat
    BY <1>3
  <2>2. CASE k < n
    <3>1. k - 1 < n /\ k # n
      BY <1>3, <2>1, <2>2
    <3>2. v[k - 1] = w[k - 1] /\ (k \in more <=> k \in places)
      BY <1>5, <3>1
    <3>3. QED
      BY <1>1, <1>2, <2>1, <2>2, <3>2
  <2>3. CASE k = n
    <3>1. k - 1 < n /\ k \notin places /\ k \in more /\ ~(k < n)
      BY <1>3, <2>1, <2>3
    <3>2. v[k - 1] = w[k - 1]
      BY <1>5, <3>1
    <3>3. v[k] = Append(v[k - 1], list[k]) /\ w[k] = w[k - 1]
      BY <1>1, <1>2, <3>1
    <3>4. QED
      BY <2>1, <2>3, <3>1, <3>2, <3>3
  <2>4. CASE k > n
    <3>1. ~(k - 1 < n) /\ k \notin places /\ k \notin more /\ ~(k < n)
      BY <1>3, <2>1, <2>4
    <3>2. w[k - 1] = w[n - 1] /\ v[k - 1] = Append(w[n - 1], list[n])
      BY <1>5, <3>1
    <3>3. v[k] = v[k - 1] /\ w[k] = w[k - 1]
      BY <1>1, <1>2, <3>1
    <3>4. QED
      BY <2>1, <3>1, <3>2, <3>3
  <2>5. QED
    BY <1>3, <2>1, <2>2, <2>3, <2>4
<1>6. m \in T
  <2> HIDE DEF T
  <2>1. \A k \in 0..m : k \in T
    BY <1>3, <1>4, <1>5, UpTo
  <2>2. QED
    BY <1>3, <2>1
<1>7. v[m] = Append(w[m], list[n])
  BY <1>3, <1>6
<1>8. QED
  BY <1>1, <1>2, <1>7

LEMMA PickedNothing ==
    ASSUME NEW S, NEW list \in Seq(S)
    PROVE  Picked(list, {}) = <<>>
<1>1. Picked(list, {}) \in Seq(S) /\ ToSet(Picked(list, {})) = {}
  BY PickedHas
<1>2. \A s \in Seq(S) : ToSet(s) = {} => s = <<>>
  <2> TAKE s \in Seq(S)
  <2> HAVE ToSet(s) = {}
  <2>1. DOMAIN s = 1..Len(s) /\ Len(s) \in Nat
    BY LenProperties
  <2>2. DOMAIN s = {}
    BY DEF ToSet
  <2>3. Len(s) = 0
    BY <2>1, <2>2
  <2>4. QED
    BY <2>3, EmptySeq
<1>3. QED
  BY <1>1, <1>2

\* All of a list, and less than all of it.
LEMMA PickedAll ==
    ASSUME NEW S, NEW list \in Seq(S), NEW places, \A i \in 1..Len(list) : i \in places
    PROVE  Picked(list, places) = list
<1> DEFINE n == Len(list)
<1>0. PICK w \in PicksOf(S, list, places) : Picked(list, places) = w[n]
  BY PickedParts
<1>1. /\ w \in [0..n -> Seq(S)] /\ w[0] = <<>> /\ Picked(list, places) = w[n]
      /\ \A i \in 1..n : w[i] = IF i \in places THEN Append(w[i - 1], list[i]) ELSE w[i - 1]
  BY <1>0 DEF PicksOf
<1>2. n \in Nat /\ \A i \in 1..n : list[i] \in S /\ i \in places
  BY LenProperties, ElementOfSeq
<1> HIDE DEF n
<1> DEFINE T == {k \in 0..n : Len(w[k]) = k /\ \A i \in 1..k : w[k][i] = list[i]}
<1>3. 0 \in T
  <2>1. 0 \in 0..n /\ 1..0 = {} /\ Len(<<>>) = 0
    BY <1>2
  <2>2. QED
    BY <1>1, <2>1
<1>4. ASSUME NEW k \in 1..n, k - 1 \in T PROVE k \in T
  <2>1. k - 1 \in 0..n /\ k \in 0..n /\ (k - 1) + 1 = k
    BY <1>2
  <2>2. w[k - 1] \in Seq(S) /\ list[k] \in S /\ w[k] = Append(w[k - 1], list[k])
    BY <1>1, <1>2, <2>1
  <2>3. /\ Len(w[k]) = (k - 1) + 1 /\ \A i \in 1..(k - 1) : w[k][i] = w[k - 1][i]
        /\ w[k][(k - 1) + 1] = list[k]
    BY <1>4, <2>2, AppendProperties
  <2>4. \A i \in 1..k : i \in 1..(k - 1) \/ i = k
    BY <2>1
  <2>5. \A i \in 1..k : w[k][i] = list[i]
    BY <1>4, <2>1, <2>3, <2>4
  <2>6. QED
    BY <2>1, <2>3, <2>5
<1>5. n \in T
  <2> HIDE DEF T
  <2>1. \A k \in 0..n : k \in T
    BY <1>2, <1>3, <1>4, UpTo
  <2>2. QED
    BY <1>2, <2>1
<1>6. w[n] \in Seq(S)
  BY <1>1, <1>2
<1>7. QED
  BY <1>1, <1>5, <1>6, SeqEqual DEF n

LEMMA PickedFewer ==
    ASSUME NEW S, NEW list \in Seq(S), NEW places, NEW j \in 1..Len(list), j \notin places
    PROVE  Len(Picked(list, places)) < Len(list)
<1> DEFINE n == Len(list)
<1>0. PICK w \in PicksOf(S, list, places) : Picked(list, places) = w[n]
  BY PickedParts
<1>1. /\ w \in [0..n -> Seq(S)] /\ w[0] = <<>> /\ Picked(list, places) = w[n]
      /\ \A i \in 1..n : w[i] = IF i \in places THEN Append(w[i - 1], list[i]) ELSE w[i - 1]
  BY <1>0 DEF PicksOf
<1>2. n \in Nat /\ \A i \in 1..n : list[i] \in S
  BY LenProperties, ElementOfSeq
<1> HIDE DEF n
<1> DEFINE l == [k \in 0..n |-> Len(w[k])]
           T == {k \in 0..n : l[k] \in Nat /\ l[k] <= k /\ (k >= j => l[k] < k)}
<1>3. /\ l[0] = 0
      /\ \A k \in 1..n : l[k - 1] \in Nat =>
            l[k] \in Nat /\ (l[k] = l[k - 1] \/ (k # j /\ l[k] = l[k - 1] + 1))
  <2>1. 0 \in 0..n /\ Len(<<>>) = 0
    BY <1>2
  <2>2. ASSUME NEW k \in 1..n
        PROVE  Len(w[k]) \in Nat /\ (Len(w[k]) = Len(w[k - 1]) \/ (k # j /\ Len(w[k]) = Len(w[k - 1]) + 1))
    <3>1. k - 1 \in 0..n /\ k \in 0..n
      BY <1>2
    <3>2. w[k - 1] \in Seq(S) /\ w[k] \in Seq(S) /\ list[k] \in S
      BY <1>1, <1>2, <3>1
    <3>3. Len(Append(w[k - 1], list[k])) = Len(w[k - 1]) + 1
      BY <3>2, AppendProperties
    <3>4. Len(w[k]) \in Nat
      BY <3>2, LenProperties
    <3>5. QED
      BY <1>1, <3>3, <3>4
  <2>3. \A k \in 1..n : k - 1 \in 0..n /\ k \in 0..n
    BY <1>2
  <2>4. QED
    BY <1>1, <2>1, <2>2, <2>3
<1> HIDE DEF l
<1>4. 0 \in T
  <2>1. j \in Nat /\ j > 0
    BY LenProperties
  <2>2. QED
    BY <1>2, <1>3, <2>1
<1>5. ASSUME NEW k \in 1..n, k - 1 \in T PROVE k \in T
  <2>1. /\ l[k - 1] \in Nat /\ l[k - 1] <= k - 1 /\ (k - 1 >= j => l[k - 1] < k - 1)
        /\ l[k] \in Nat /\ (l[k] = l[k - 1] \/ (k # j /\ l[k] = l[k - 1] + 1))
    BY <1>3, <1>5
  <2>2. j \in Nat
    BY LenProperties
  <2>3. l[k] <= k /\ (k >= j => l[k] < k) /\ k \in 0..n
    BY <1>2, <2>1, <2>2
  <2>4. QED
    BY <2>1, <2>3
<1>6. n \in T
  <2> HIDE DEF T
  <2>1. \A k \in 0..n : k \in T
    BY <1>2, <1>4, <1>5, UpTo
  <2>2. QED
    BY <1>2, <2>1
<1>7. n >= j /\ n \in 0..n
  BY <1>2 DEF n
<1>8. l[n] < n /\ l[n] = Len(w[n])
  BY <1>6, <1>7 DEF l
<1>9. QED
  BY <1>1, <1>8 DEF n

-----------------------------------------------------------------------------
(* Parts of lists, and lists put together.                                 *)

LEMMA SubParts ==
    ASSUME NEW S, NEW w \in Seq(S), NEW d \in 0..Len(w)
    PROVE  LET x == SubSeq(w, d + 1, Len(w)) IN
           /\ x \in Seq(S) /\ Len(x) = Len(w) - d
           /\ \A e \in 1..(Len(w) - d) : x[e] = w[e + d]
           /\ d = 0 => x = w
<1> DEFINE n == Len(w)
<1>1. n \in Nat /\ d \in Nat /\ d <= n
  BY LenProperties
<1>2. /\ SubSeq(w, d + 1, n) \in Seq(S) /\ Len(SubSeq(w, d + 1, n)) = n - d
      /\ \A e \in 1..(n - d) : SubSeq(w, d + 1, n)[e] = w[e + d]
  BY <1>1
<1>3. d = 0 => SubSeq(w, d + 1, n) = w
  BY <1>1
<1>4. QED
  BY <1>2, <1>3

LEMMA PrefixIs ==
    ASSUME NEW S, NEW x \in Seq(S), NEW z \in Seq(S),
           Len(x) <= Len(z), \A e \in 1..Len(x) : x[e] = z[e]
    PROVE  IsPrefix(x, z)
<1> DEFINE n == Len(x)
           y == SubSeq(z, 1, n)
<1>1. n \in Nat /\ Len(z) \in Nat /\ n <= Len(z) /\ SubSeq(x, 1, n) = x
  BY SubSeqProperties
<1>2. y = x
  <2>1. y \in Seq(S) /\ Len(y) = n /\ \A e \in 1..n : y[e] = z[e]
    BY <1>1, SubSeqProperties
  <2> HIDE DEF y
  <2>2. QED
    BY <2>1
<1>3. QED
  BY <1>1, <1>2 DEF IsPrefix

\* What a text begins with, and what it begins with after another.
CutAt(S, x, y, k) ==
    LET z == x \o SubSeq(y, 1, k) IN
    /\ z \in Seq(S) /\ Len(z) = Len(x) + k /\ IsPrefix(z, x \o y)
    /\ k = 0 => z = x
    /\ k = Len(y) => z = x \o y
    /\ k > 0 => z = (x \o SubSeq(y, 1, k - 1)) \o <<y[k]>>

LEMMA CutParts ==
    ASSUME NEW S, NEW x \in Seq(S), NEW y \in Seq(S), NEW k \in 0..Len(y)
    PROVE  CutAt(S, x, y, k)
<1> DEFINE c == SubSeq(y, 1, k)
           z == x \o c
           w == x \o y
<1>1. /\ c \in Seq(S) /\ Len(c) = k /\ \A e \in 1..k : c[e] = y[e]
      /\ Len(x) \in Nat /\ Len(y) \in Nat /\ k \in Nat /\ k <= Len(y)
  BY SubSeqProperties
<1> HIDE DEF c
<1>2. /\ z \in Seq(S) /\ Len(z) = Len(x) + k
      /\ \A e \in 1..(Len(x) + k) : z[e] = IF e <= Len(x) THEN x[e] ELSE c[e - Len(x)]
  BY <1>1, ConcatProperties
<1>3. /\ w \in Seq(S) /\ Len(w) = Len(x) + Len(y)
      /\ \A e \in 1..(Len(x) + Len(y)) : w[e] = IF e <= Len(x) THEN x[e] ELSE y[e - Len(x)]
  BY <1>1, ConcatProperties
<1> HIDE DEF z, w
<1>4. \A e \in 1..(Len(x) + k) : z[e] = w[e]
  <2> TAKE e \in 1..(Len(x) + k)
  <2>1. e \in 1..(Len(x) + Len(y)) /\ (e <= Len(x) \/ e - Len(x) \in 1..k)
    BY <1>1
  <2>2. QED
    BY <1>1, <1>2, <1>3, <2>1
<1>5. IsPrefix(z, w)
  <2>1. Len(z) <= Len(w) /\ \A e \in 1..Len(z) : z[e] = w[e]
    BY <1>1, <1>2, <1>3, <1>4
  <2>2. QED
    BY <1>2, <1>3, <2>1, PrefixIs
<1>6. k = 0 => z = x
  <2> HAVE k = 0
  <2>1. Len(z) = Len(x) /\ \A e \in 1..Len(x) : z[e] = x[e]
    BY <1>1, <1>2
  <2>2. QED
    BY <1>2, <2>1
<1>7. k = Len(y) => z = w
  <2> HAVE k = Len(y)
  <2>1. Len(z) = Len(w) /\ \A e \in 1..Len(z) : z[e] = w[e]
    BY <1>1, <1>2, <1>3, <1>4
  <2>2. QED
    BY <1>2, <1>3, <2>1
<1>8. k > 0 => z = (x \o SubSeq(y, 1, k - 1)) \o <<y[k]>>
  <2> HAVE k > 0
  <2> DEFINE j == k - 1
             d == SubSeq(y, 1, j)
             u == x \o d
             v == u \o <<y[k]>>
  <2>1. j \in Nat /\ j <= Len(y) /\ k = j + 1 /\ y[k] \in S
    BY <1>1
  <2> HIDE DEF j
  <2>2. d \in Seq(S) /\ Len(d) = j /\ \A e \in 1..j : d[e] = y[e]
    BY <1>1, <2>1, SubSeqProperties
  <2> HIDE DEF d
  <2>3. /\ u \in Seq(S) /\ Len(u) = Len(x) + j
        /\ \A e \in 1..(Len(x) + j) : u[e] = IF e <= Len(x) THEN x[e] ELSE d[e - Len(x)]
    BY <1>1, <2>2, ConcatProperties
  <2> HIDE DEF u
  <2>4. <<y[k]>> \in Seq(S) /\ Len(<<y[k]>>) = 1 /\ <<y[k]>>[1] = y[k]
    BY <2>1
  <2>5. /\ v \in Seq(S) /\ Len(v) = Len(x) + k
        /\ \A e \in 1..(Len(x) + k) : v[e] = IF e <= Len(x) + j THEN u[e] ELSE y[k]
    <3> DEFINE one == <<y[k]>>
    <3>1. one \in Seq(S) /\ Len(one) = 1 /\ one[1] = y[k]
      BY <2>4
    <3> HIDE DEF one
    <3>2. /\ u \o one \in Seq(S) /\ Len(u \o one) = Len(u) + Len(one)
          /\ \A e \in 1..(Len(u) + Len(one)) :
                (u \o one)[e] = IF e <= Len(u) THEN u[e] ELSE one[e - Len(u)]
      BY <2>3, <3>1, ConcatProperties
    <3>3. Len(u) + Len(one) = Len(x) + k
      BY <1>1, <2>1, <2>3, <3>1
    <3>4. \A e \in 1..(Len(x) + k) : ~(e <= Len(u)) => e - Len(u) = 1
      BY <1>1, <2>1, <2>3
    <3>5. v = u \o one
      BY DEF one
    <3> HIDE DEF v
    <3>6. QED
      BY <2>3, <3>1, <3>2, <3>3, <3>4, <3>5
  <2> HIDE DEF v
  <2>6. \A e \in 1..(Len(x) + k) : z[e] = v[e]
    <3> TAKE e \in 1..(Len(x) + k)
    <3>1. CASE e <= Len(x)
      <4>1. e \in 1..(Len(x) + j) /\ e <= Len(x) + j
        BY <1>1, <2>1, <3>1
      <4>2. QED
        BY <1>2, <2>3, <2>5, <3>1, <4>1
    <3>2. CASE ~(e <= Len(x)) /\ e <= Len(x) + j
      <4>1. e \in 1..(Len(x) + j) /\ e - Len(x) \in 1..j /\ e - Len(x) \in 1..k
        BY <1>1, <2>1, <3>2
      <4>2. c[e - Len(x)] = y[e - Len(x)] /\ d[e - Len(x)] = y[e - Len(x)]
        BY <1>1, <2>2, <4>1
      <4>3. QED
        BY <1>2, <2>3, <2>5, <3>2, <4>1, <4>2
    <3>3. CASE ~(e <= Len(x) + j)
      <4>1. ~(e <= Len(x)) /\ e - Len(x) = k /\ k \in 1..k
        BY <1>1, <2>1, <3>3
      <4>2. QED
        BY <1>1, <1>2, <2>5, <3>3, <4>1
    <3>4. QED
      BY <3>1, <3>2, <3>3
  <2>7. z = v
    BY <1>2, <2>5, <2>6
  <2>8. QED
    BY <2>7 DEF v, u, d, j
<1>9. QED
  BY <1>2, <1>5, <1>6, <1>7, <1>8 DEF z, c, w, CutAt

\* What comes of the first parts is a prefix of what comes of all of them.
LEMMA UptoFirst ==
    ASSUME NEW S, NEW s \in Seq(Seq(S)), NEW z \in Seq(S), NEW i \in 0..Len(s), IsPrefix(z, Upto(s, i))
    PROVE  IsPrefix(z, FlattenSeq(s))
<1> DEFINE n == Len(s)
           R == Seq(S)
           T == {k \in 0..(n - i) : LET w == Upto(s, i + k) IN
                                    Len(z) <= Len(w) /\ \A e \in 1..Len(z) : z[e] = w[e]}
<1>1. /\ n \in Nat /\ i \in Nat /\ i <= n /\ n - i \in Nat /\ Upto(s, n) = FlattenSeq(s)
      /\ \A k \in 0..n : Upto(s, k) \in R
      /\ \A k \in 1..n : Upto(s, k) = Upto(s, k - 1) \o s[k]
      /\ \A k \in 1..n : s[k] \in R
  <2>1. s \in Seq(R)
    OBVIOUS
  <2> HIDE DEF R
  <2>2. n \in Nat /\ \A k \in 1..n : s[k] \in R
    BY <2>1, LenProperties, ElementOfSeq
  <2>3. \A k \in 0..n : Upto(s, k) \in R
    BY UptoGrows DEF R
  <2>4. Upto(s, n) = FlattenSeq(s) /\ \A k \in 1..n : Upto(s, k) = Upto(s, k - 1) \o s[k]
    BY UptoGrows
  <2>5. i \in Nat /\ i <= n /\ n - i \in Nat
    BY <2>2
  <2> HIDE DEF R, n
  <2>6. QED
    BY <2>2, <2>3, <2>4, <2>5
<1>2. Len(z) \in Nat
  OBVIOUS
<1> HIDE DEF n
<1>3. 0 \in T
  <2> DEFINE w == Upto(s, i)
  <2>1. w \in R /\ i + 0 = i /\ 0 \in 0..(n - i)
    BY <1>1
  <2>2. IsPrefix(z, w)
    OBVIOUS
  <2> HIDE DEF w
  <2>3. Len(z) <= Len(w) /\ SubSeq(z, 1, Len(z)) = SubSeq(w, 1, Len(z))
    BY <2>2 DEF IsPrefix
  <2>4. \A e \in 1..Len(z) : z[e] = w[e]
    <3> DEFINE m == Len(z)
               a == SubSeq(z, 1, m)
               b == SubSeq(w, 1, m)
    <3>1. /\ \A e \in 1..m : a[e] = z[e]
          /\ \A e \in 1..m : b[e] = w[e]
      BY <1>2, <2>1, <2>3, SubSeqProperties
    <3>2. a = b
      BY <2>3
    <3> HIDE DEF a, b, m
    <3>3. \A e \in 1..m : z[e] = w[e]
      BY <3>1, <3>2
    <3>4. QED
      BY <3>3 DEF m
  <2>5. QED
    BY <2>1, <2>3, <2>4 DEF w
<1>4. ASSUME NEW k \in 1..(n - i), k - 1 \in T PROVE k \in T
  <2> DEFINE v == Upto(s, i + (k - 1))
             w == Upto(s, i + k)
             y == s[i + k]
  <2>1. i + k \in 1..n /\ i + (k - 1) \in 0..n /\ (i + k) - 1 = i + (k - 1) /\ k \in 0..(n - i)
    BY <1>1
  <2>2. w = v \o y /\ v \in R /\ y \in R
    BY <1>1, <2>1
  <2>3. Len(z) <= Len(v) /\ \A e \in 1..Len(z) : z[e] = v[e]
    BY <1>4
  <2> HIDE DEF v, w, y
  <2>4. /\ Len(w) = Len(v) + Len(y) /\ Len(v) \in Nat /\ Len(y) \in Nat
        /\ \A e \in 1..(Len(v) + Len(y)) : w[e] = IF e <= Len(v) THEN v[e] ELSE y[e - Len(v)]
    BY <2>2, ConcatProperties
  <2>5. Len(z) <= Len(w)
    BY <1>2, <2>3, <2>4
  <2>6. \A e \in 1..Len(z) : e \in 1..(Len(v) + Len(y)) /\ e <= Len(v)
    BY <1>2, <2>3, <2>4
  <2>7. \A e \in 1..Len(z) : z[e] = w[e]
    BY <2>3, <2>4, <2>6
  <2>8. QED
    BY <2>1, <2>5, <2>7 DEF w
<1>5. n - i \in T
  <2> DEFINE m == n - i
  <2>1. m \in Nat /\ m \in 0..m /\ \A k \in 1..m : k - 1 \in T => k \in T
    BY <1>1, <1>4
  <2> HIDE DEF T, m
  <2>2. \A k \in 0..m : k \in T
    BY <1>3, <2>1, UpTo
  <2>3. QED
    BY <2>1, <2>2 DEF m
<1>6. i + (n - i) = n
  BY <1>1
<1> DEFINE w == FlattenSeq(s)
<1>7. w \in Seq(S) /\ Len(z) <= Len(w) /\ \A e \in 1..Len(z) : z[e] = w[e]
  <2>1. Upto(s, n) \in R /\ n \in 0..n
    BY <1>1
  <2>2. QED
    BY <1>1, <1>5, <1>6, <2>1
<1> HIDE DEF w
<1>8. IsPrefix(z, w)
  BY <1>7, PrefixIs
<1>9. QED
  BY <1>8 DEF w

LEMMA TwoMore ==
    ASSUME NEW S, NEW d \in Seq(S), NEW f \in S, NEW g \in S
    PROVE  d \o <<f, g>> = (d \o <<f>>) \o <<g>>
<1> DEFINE n == Len(d)
           two == <<f, g>>
           one == <<f>>
           last == <<g>>
           e == d \o one
           x == d \o two
           y == e \o last
<1>1. /\ n \in Nat /\ two \in Seq(S) /\ one \in Seq(S) /\ last \in Seq(S)
      /\ Len(two) = 2 /\ Len(one) = 1 /\ Len(last) = 1
      /\ two[1] = f /\ two[2] = g /\ one[1] = f /\ last[1] = g
  OBVIOUS
<1> HIDE DEF two, one, last
<1>2. e \in Seq(S) /\ Len(e) = n + 1 /\ \A k \in 1..(n + 1) : e[k] = IF k <= n THEN d[k] ELSE one[k - n]
  BY <1>1, ConcatProperties
<1>3. x \in Seq(S) /\ Len(x) = n + 2 /\ \A k \in 1..(n + 2) : x[k] = IF k <= n THEN d[k] ELSE two[k - n]
  <2>1. /\ x \in Seq(S) /\ Len(x) = Len(d) + Len(two)
        /\ \A k \in 1..(Len(d) + Len(two)) : x[k] = IF k <= Len(d) THEN d[k] ELSE two[k - Len(d)]
    <3> HIDE DEF n, e
    <3>1. QED
      BY <1>1, ConcatProperties
  <2>2. Len(d) + Len(two) = n + 2 /\ Len(d) = n
    BY <1>1
  <2> HIDE DEF x, n
  <2>3. QED
    BY <2>1, <2>2
<1> HIDE DEF e, x
<1>4. y \in Seq(S) /\ Len(y) = Len(e) + 1
      /\ \A k \in 1..(Len(e) + 1) : y[k] = IF k <= Len(e) THEN e[k] ELSE last[k - Len(e)]
  <2>1. last \in Seq(S) /\ Len(last) = 1 /\ e \in Seq(S)
    BY <1>1, <1>2
  <2>2. /\ y \in Seq(S) /\ Len(y) = Len(e) + Len(last)
        /\ \A k \in 1..(Len(e) + Len(last)) : y[k] = IF k <= Len(e) THEN e[k] ELSE last[k - Len(e)]
    BY <2>1, ConcatProperties
  <2>3. Len(e) + Len(last) = Len(e) + 1
    BY <2>1
  <2> HIDE DEF y
  <2>4. QED
    BY <2>2, <2>3
<1> HIDE DEF y, n
<1>5. Len(y) = n + 2 /\ \A k \in 1..(n + 2) : y[k] = IF k <= n + 1 THEN e[k] ELSE last[k - (n + 1)]
  <2>1. Len(e) + 1 = n + 2
    BY <1>1, <1>2
  <2>2. QED
    BY <1>2, <1>4, <2>1
<1>6. \A k \in 1..(n + 2) : x[k] = y[k]
  <2> TAKE k \in 1..(n + 2)
  <2>1. CASE k <= n
    <3>1. k \in 1..(n + 1) /\ k <= n + 1
      BY <1>1, <2>1
    <3>2. QED
      BY <1>2, <1>3, <1>5, <2>1, <3>1
  <2>2. CASE k = n + 1
    <3>1. k \in 1..(n + 1) /\ k <= n + 1 /\ ~(k <= n) /\ k - n = 1
      BY <1>1, <2>2
    <3>2. QED
      BY <1>1, <1>2, <1>3, <1>5, <3>1
  <2>3. CASE k = n + 2
    <3>1. ~(k <= n + 1) /\ ~(k <= n) /\ k - n = 2 /\ k - (n + 1) = 1
      BY <1>1, <2>3
    <3>2. QED
      BY <1>1, <1>3, <1>5, <3>1
  <2>4. QED
    BY <1>1, <2>1, <2>2, <2>3
<1>7. x = y
  BY <1>3, <1>4, <1>5, <1>6
<1>8. QED
  BY <1>7 DEF x, y, e, two, one, last

LEMMA ThreeJoin ==
    ASSUME NEW S, NEW f \in S, NEW g \in S, NEW h \in S
    PROVE  <<f, g, h>> = (<<f>> \o <<g>>) \o <<h>>
<1> DEFINE a == <<f>>
<1>1. a \in Seq(S)
  OBVIOUS
<1>2. <<f, g, h>> = a \o <<g, h>>
  OBVIOUS
<1>3. a \o <<g, h>> = (a \o <<g>>) \o <<h>>
  <2> HIDE DEF a
  <2>1. QED
    BY <1>1, TwoMore
<1>4. QED
  BY <1>2, <1>3

-----------------------------------------------------------------------------
(* Paths: what a list of frames leads to from a point, by the moves G.     *)

Path(P, G, s, p, q) ==
    \E at \in [0..Len(s) -> P] :
        /\ at[0] = p /\ at[Len(s)] = q
        /\ \A k \in 1..Len(s) : <<at[k - 1], s[k], at[k]>> \in G

LEMMA PathNone ==
    ASSUME NEW P, NEW G, NEW p \in P, NEW q
    PROVE  Path(P, G, <<>>, p, p) /\ (Path(P, G, <<>>, q, p) => q = p)
<1> DEFINE at == [k \in 0..0 |-> p]
<1>1. Len(<<>>) = 0 /\ 1..0 = {}
  OBVIOUS
<1>2. at \in [0..0 -> P] /\ at[0] = p
  OBVIOUS
<1> HIDE DEF at
<1>3. Path(P, G, <<>>, p, p)
  BY <1>1, <1>2 DEF Path
<1>4. QED
  BY <1>1, <1>3 DEF Path

LEMMA PathOne ==
    ASSUME NEW P, NEW G, NEW p \in P, NEW q \in P, NEW f, <<p, f, q>> \in G
    PROVE  Path(P, G, <<f>>, p, q)
<1> DEFINE at == [k \in 0..1 |-> IF k = 0 THEN p ELSE q]
<1>1. Len(<<f>>) = 1 /\ <<f>>[1] = f /\ 1..1 = {1} /\ 1 - 1 = 0
  OBVIOUS
<1>2. at \in [0..1 -> P] /\ at[0] = p /\ at[1] = q
  OBVIOUS
<1> HIDE DEF at
<1>3. QED
  BY <1>1, <1>2 DEF Path

LEMMA PathJoin ==
    ASSUME NEW P, NEW G, NEW F, NEW s \in Seq(F), NEW t \in Seq(F), NEW p, NEW q, NEW r,
           Path(P, G, s, p, q), Path(P, G, t, q, r)
    PROVE  Path(P, G, s \o t, p, r)
<1> DEFINE n == Len(s)
           m == Len(t)
           both == s \o t
<1>1. /\ n \in Nat /\ m \in Nat /\ Len(both) = n + m
      /\ \A k \in 1..n : both[k] = s[k]
      /\ \A k \in (n + 1)..(n + m) : both[k] = t[k - n]
  BY ConcatProperties, LenProperties
<1>2. PICK at \in [0..n -> P] : /\ at[0] = p /\ at[n] = q
                                /\ \A k \in 1..n : <<at[k - 1], s[k], at[k]>> \in G
  BY DEF Path
<1>3. PICK by \in [0..m -> P] : /\ by[0] = q /\ by[m] = r
                                /\ \A k \in 1..m : <<by[k - 1], t[k], by[k]>> \in G
  BY DEF Path
<1> HIDE DEF n, m, both
<1> DEFINE on == [k \in 0..(n + m) |-> IF k <= n THEN at[k] ELSE by[k - n]]
<1>4. /\ \A k \in 0..(n + m) : k <= n => k \in 0..n
      /\ \A k \in 0..(n + m) : ~(k <= n) => k - n \in 1..m /\ k - n \in 0..m
  BY <1>1
<1>5. on \in [0..(n + m) -> P] /\ \A k \in 0..(n + m) : on[k] = IF k <= n THEN at[k] ELSE by[k - n]
  BY <1>2, <1>3, <1>4
<1> HIDE DEF on
<1>6. on[0] = p /\ on[n + m] = r
  <2>1. 0 \in 0..(n + m) /\ 0 <= n /\ n + m \in 0..(n + m)
    BY <1>1
  <2>2. CASE m = 0
    <3>1. n + m = n /\ n <= n
      BY <1>1, <2>2
    <3>2. QED
      BY <1>2, <1>3, <1>5, <2>1, <2>2, <3>1
  <2>3. CASE m # 0
    <3>1. ~(n + m <= n) /\ (n + m) - n = m
      BY <1>1, <2>3
    <3>2. QED
      BY <1>2, <1>3, <1>5, <2>1, <3>1
  <2>4. QED
    BY <2>2, <2>3
<1>7. \A k \in 1..(n + m) : <<on[k - 1], both[k], on[k]>> \in G
  <2> TAKE k \in 1..(n + m)
  <2>1. k \in 0..(n + m) /\ k - 1 \in 0..(n + m)
    BY <1>1
  <2>2. CASE k <= n
    <3>1. k \in 1..n /\ k - 1 <= n
      BY <1>1, <2>2
    <3>2. QED
      BY <1>1, <1>2, <1>5, <2>1, <2>2, <3>1
  <2>3. CASE k > n
    <3>1. k \in (n + 1)..(n + m) /\ k - n \in 1..m /\ (k - n) - 1 = (k - 1) - n /\ ~(k <= n)
      BY <1>1, <2>3
    <3>2. on[k] = by[k - n] /\ both[k] = t[k - n]
      BY <1>1, <1>5, <2>1, <3>1
    <3>3. on[k - 1] = by[(k - n) - 1]
      <4>1. CASE k - 1 <= n
        <5>1. k - 1 = n /\ (k - n) - 1 = 0
          BY <1>1, <2>3, <4>1
        <5>2. QED
          BY <1>2, <1>3, <1>5, <2>1, <4>1, <5>1
      <4>2. CASE ~(k - 1 <= n)
        BY <1>5, <2>1, <3>1, <4>2
      <4>3. QED
        BY <4>1, <4>2
    <3>4. QED
      BY <1>3, <3>1, <3>2, <3>3
  <2>4. QED
    BY <1>1, <2>2, <2>3
<1>8. QED
  BY <1>1, <1>5, <1>6, <1>7 DEF Path, both

\* A path begins with a move.
LEMMA PathStep ==
    ASSUME NEW P, NEW G, NEW F, NEW s \in Seq(F), s # <<>>, NEW p, NEW q, Path(P, G, s, p, q)
    PROVE  \E r \in P : <<p, s[1], r>> \in G /\ Path(P, G, Tail(s), r, q)
<1> DEFINE n == Len(s)
           rest == Tail(s)
<1>1. /\ n \in Nat /\ n > 0 /\ Len(rest) = n - 1
      /\ \A k \in 1..(n - 1) : rest[k] = s[k + 1]
  BY HeadTailProperties, EmptySeq
<1>2. PICK at \in [0..n -> P] : /\ at[0] = p /\ at[n] = q
                                /\ \A k \in 1..n : <<at[k - 1], s[k], at[k]>> \in G
  BY DEF Path
<1> HIDE DEF n, rest
<1> DEFINE on == [k \in 0..(n - 1) |-> at[k + 1]]
<1>3. on \in [0..(n - 1) -> P] /\ \A k \in 0..(n - 1) : on[k] = at[k + 1]
  BY <1>1, <1>2
<1> HIDE DEF on
<1>4. on[0] = at[1] /\ on[n - 1] = q
  <2>1. 0 \in 0..(n - 1) /\ n - 1 \in 0..(n - 1) /\ (n - 1) + 1 = n /\ 0 + 1 = 1
    BY <1>1
  <2>2. QED
    BY <1>2, <1>3, <2>1
<1>5. \A k \in 1..(n - 1) : <<on[k - 1], rest[k], on[k]>> \in G
  <2> TAKE k \in 1..(n - 1)
  <2>1. /\ k - 1 \in 0..(n - 1) /\ k \in 0..(n - 1) /\ k + 1 \in 1..n
        /\ (k - 1) + 1 = k /\ (k + 1) - 1 = k
    BY <1>1
  <2>2. QED
    BY <1>1, <1>2, <1>3, <2>1
<1>6. 1 \in 1..n /\ 1 - 1 = 0 /\ 1 \in 0..n
  BY <1>1
<1>7. Path(P, G, rest, at[1], q)
  BY <1>1, <1>3, <1>4, <1>5 DEF Path
<1>8. <<p, s[1], at[1]>> \in G /\ at[1] \in P
  BY <1>2, <1>6
<1>9. QED
  BY <1>7, <1>8 DEF rest

\* A path for every part makes one for all of them.
LEMMA PathFlatten ==
    ASSUME NEW P, NEW G, NEW F, NEW s \in Seq(Seq(F)), NEW by \in [0..Len(s) -> P],
           \A i \in 1..Len(s) : Path(P, G, s[i], by[i - 1], by[i])
    PROVE  Path(P, G, FlattenSeq(s), by[0], by[Len(s)])
<1> DEFINE n == Len(s)
           T == {i \in 0..n : Path(P, G, Upto(s, i), by[0], by[i])}
<1>1. n \in Nat /\ \A i \in 1..n : s[i] \in Seq(F)
  <2> DEFINE R == Seq(F)
  <2>1. s \in Seq(R)
    OBVIOUS
  <2> HIDE DEF R
  <2>2. n \in Nat /\ \A i \in 1..n : s[i] \in R
    BY <2>1, LenProperties, ElementOfSeq
  <2>3. QED
    BY <2>2 DEF R
<1>2. /\ Upto(s, 0) = <<>> /\ Upto(s, n) = FlattenSeq(s)
      /\ \A k \in 0..n : Upto(s, k) \in Seq(F)
      /\ \A k \in 1..n : Upto(s, k) = Upto(s, k - 1) \o s[k]
  BY UptoGrows
<1>3. 0 \in T
  <2>1. 0 \in 0..n /\ by[0] \in P
    BY <1>1
  <2>2. QED
    BY <1>2, <2>1, PathNone
<1>4. ASSUME NEW i \in 1..n, i - 1 \in T PROVE i \in T
  <2>1. i - 1 \in 0..n /\ i \in 0..n
    BY <1>1
  <2>2. Upto(s, i - 1) \in Seq(F) /\ s[i] \in Seq(F) /\ Upto(s, i) = Upto(s, i - 1) \o s[i]
    BY <1>1, <1>2, <2>1
  <2>3. Path(P, G, Upto(s, i - 1), by[0], by[i - 1]) /\ Path(P, G, s[i], by[i - 1], by[i])
    BY <1>4
  <2>4. Path(P, G, Upto(s, i - 1) \o s[i], by[0], by[i])
    BY <2>2, <2>3, PathJoin
  <2>5. QED
    BY <2>1, <2>2, <2>4
<1>5. n \in T
  <2> HIDE DEF T, n
  <2>1. \A i \in 0..n : i \in T
    BY <1>1, <1>3, <1>4, UpTo
  <2>2. QED
    BY <1>1, <2>1
<1>6. QED
  BY <1>2, <1>5

\* Frames that leave a point where it is, and frames that go on one by one.
LEMMA PathOver ==
    ASSUME NEW P, NEW G, NEW F, NEW s \in Seq(F), NEW by \in [0..Len(s) -> P],
           \A k \in 1..Len(s) : <<by[k - 1], s[k], by[k]>> \in G
    PROVE  Path(P, G, s, by[0], by[Len(s)])
BY DEF Path

LEMMA PathStays ==
    ASSUME NEW P, NEW G, NEW F, NEW s \in Seq(F), NEW p \in P,
           \A k \in 1..Len(s) : <<p, s[k], p>> \in G
    PROVE  Path(P, G, s, p, p)
<1> DEFINE by == [k \in 0..Len(s) |-> p]
<1>1. Len(s) \in Nat
  BY LenProperties
<1>2. /\ by \in [0..Len(s) -> P] /\ by[0] = p /\ by[Len(s)] = p
      /\ \A k \in 1..Len(s) : by[k - 1] = p /\ by[k] = p
  BY <1>1
<1> HIDE DEF by
<1>3. \A k \in 1..Len(s) : <<by[k - 1], s[k], by[k]>> \in G
  BY <1>2
<1>4. QED
  BY <1>2, <1>3 DEF Path

\* Two parts of a path.
LEMMA PathTwo ==
    ASSUME NEW P, NEW G, NEW F, NEW s \in Seq(F), NEW t \in Seq(F), NEW p, NEW q, NEW r,
           Path(P, G, s, p, q), Path(P, G, t, q, r)
    PROVE  s \o t \in Seq(F) /\ Path(P, G, s \o t, p, r)
BY PathJoin, ConcatProperties

-----------------------------------------------------------------------------
(* The last of a sequence, and what comes before it.                        *)

\* A sequence has a last step, and what comes before it.
LEMMA FrontLast ==
    ASSUME NEW S, NEW q \in Seq(S), q # <<>>
    PROVE  Front(q) \in Seq(S) /\ Last(q) \in S /\ q = Append(Front(q), Last(q))
<1> DEFINE n == Len(q)
           f == SubSeq(q, 1, n - 1)
<1>1. n \in Nat /\ n > 0 /\ q \in [1..n -> S]
  BY EmptySeq, LenProperties
<1>2. \A i \in 1..(n - 1) : q[i] \in S
  BY <1>1
<1>3. f \in Seq(S) /\ Len(f) = n - 1 /\ \A i \in 1..(n - 1) : f[i] = q[i]
  <2>1. f = [i \in 1..(n - 1) |-> q[i]]
    BY <1>1
  <2> HIDE DEF f
  <2>2. f \in [1..(n - 1) -> S] /\ n - 1 \in Nat
    BY <1>1, <1>2, <2>1
  <2>3. f \in Seq(S)
    BY <2>2
  <2>4. QED
    BY <2>1, <2>2, <2>3
<1>4. q[n] \in S
  BY <1>1
<1> DEFINE a == Append(f, q[n])
<1>d. a = Append(f, q[n])
  OBVIOUS
<1> HIDE DEF f, n, a
<1>5. a \in Seq(S) /\ Len(a) = n /\ a[n] = q[n] /\ \A i \in 1..(n - 1) : a[i] = q[i]
  BY <1>1, <1>3, <1>4, <1>d, AppendProperties
<1>6. \A i \in 1..n : a[i] = q[i]
  BY <1>1, <1>5
<1>7. a = q
  BY <1>1, <1>5, <1>6, SeqEqual
<1>8. QED
  BY <1>3, <1>4, <1>7 DEF Front, Last, a, f, n

LEMMA AppendFront ==
    ASSUME NEW S, NEW p \in Seq(S), NEW k \in S
    PROVE  LET q == Append(p, k) IN
           q \in Seq(S) /\ q # <<>> /\ Front(q) = p /\ Last(q) = k
<1> DEFINE q == Append(p, k)
           n == Len(p)
<1>1. /\ q \in Seq(S) /\ Len(q) = n + 1 /\ q[n + 1] = k /\ n \in Nat
      /\ \A i \in 1..n : q[i] = p[i]
  BY AppendProperties, LenProperties
<1>2. q # <<>>
  BY <1>1, EmptySeq
<1> HIDE DEF q
<1>3. Last(q) = k
  BY <1>1 DEF Last
<1>4. Front(q) = p
  <2>1. SubSeq(q, 1, n) = [i \in 1..n |-> q[i]]
    BY <1>1
  <2>2. p = [i \in 1..n |-> p[i]]
    BY LenProperties
  <2>3. [i \in 1..n |-> q[i]] = [i \in 1..n |-> p[i]]
    BY <1>1
  <2>4. Len(q) - 1 = n
    BY <1>1
  <2>5. QED
    BY <2>1, <2>2, <2>3, <2>4 DEF Front
<1>5. QED
  BY <1>1, <1>2, <1>3, <1>4 DEF q
=============================================================================
