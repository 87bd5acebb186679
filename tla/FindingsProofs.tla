---------------------------- MODULE FindingsProofs ----------------------------
(***************************************************************************)
(* What the sort, the filters and the dedup sweep of Findings do to a      *)
(* list, for every list: a flattened list of lists is their concatenation, *)
(* filters commute with it and with each other, a sort gives every finding *)
(* one place and adds none, and the sweep leaves one finding for each      *)
(* cluster of those that hang together (SweptSoFar, DedupIsOnePerCluster), *)
(* the same in whatever order they come (DedupIgnoresOrder). What is       *)
(* reported with a severity and a span (FairList) is handed on with both.  *)
(* Facts about a recursive definition of the libraries are found by way of *)
(* the least place at which they would fail (Reaches).                     *)
(***************************************************************************)
EXTENDS Findings, Integers, FiniteSetTheorems, SequenceTheorems, WellFoundedInduction, TLAPS

\* A set of numbers that holds 0, and with every number below m the next one,
\* holds m.
LEMMA Reaches ==
  ASSUME NEW P, NEW m \in Nat, 0 \in P, \A n \in 0..(m - 1) : n \in P => n + 1 \in P
  PROVE  m \in P
<1> DEFINE R == {0..x : x \in {y \in 0..m : y \notin P}}
<1> SUFFICES ASSUME m \notin P  PROVE FALSE
  OBVIOUS
<1>1. IsFiniteSet(0..m)
  BY FS_Interval
<1>2. R \subseteq SUBSET (0..m) /\ R # {}
  <2>1. 0..m \in R
    OBVIOUS
  <2>2. \A x \in 0..m : 0..x \subseteq 0..m
    BY SMT
  <2> QED
    BY <2>1, <2>2
<1>3. IsWellFoundedOn(StrictSubsetOrdering(0..m), FiniteSubsetsOf(0..m))
  BY <1>1, FS_StrictSubsetOrderingWellFounded
<1>4. R \subseteq FiniteSubsetsOf(0..m)
  BY <1>1, <1>2, FS_Subset DEF FiniteSubsetsOf
<1> HIDE DEF R
<1>5. PICK r \in R : \A q \in R : ~ (<<q, r>> \in StrictSubsetOrdering(0..m))
  BY <1>2, <1>3, <1>4, WFMin
<1>6. \A q \in R : q \subseteq r => q = r
  BY <1>2, <1>5 DEF StrictSubsetOrdering
<1>7. PICK x \in 0..m : x \notin P /\ r = 0..x
  BY <1>5 DEF R
<1>8. x # 0 /\ x - 1 \in 0..(m - 1) /\ x - 1 \notin P
  BY <1>7
<1>9. 0..(x - 1) \in R
  BY <1>8 DEF R
<1>10. 0..(x - 1) = 0..x
  BY <1>6, <1>7, <1>9
<1>11. x \in 0..x /\ x \notin 0..(x - 1)
  OBVIOUS
<1> QED
  BY <1>10, <1>11

-----------------------------------------------------------------------------
(* Concatenation                                                            *)

\* f holds what the first n lists come to.
Sums(ss, n, f) == f = [i \in 1..n |-> IF i = 1 THEN ss[i] ELSE f[i - 1] \o ss[i]]

LEMMA SumsExist ==
  ASSUME NEW ss, NEW m \in Nat
  PROVE  \E f : Sums(ss, m, f)
<1> DEFINE P == {n \in 0..m : \E f : Sums(ss, n, f)}
<1>1. 0 \in P
  <2>1. Sums(ss, 0, [i \in 1..0 |-> 0])
    BY DEF Sums
  <2> QED
    BY <2>1
<1>2. ASSUME NEW n \in 0..(m - 1), n \in P
      PROVE  n + 1 \in P
  <2>1. PICK f : Sums(ss, n, f)
    BY <1>2
  <2>2. PICK g : g = [i \in 1..(n + 1) |-> IF i = 1 THEN ss[i]
                                           ELSE IF i = n + 1 THEN f[n] \o ss[i] ELSE f[i]]
    OBVIOUS
  <2>3. ASSUME NEW i \in 1..(n + 1), i # 1
        PROVE  g[i] = g[i - 1] \o ss[i]
    <3>1. i - 1 \in 1..n /\ i \in 1..(n + 1)
      BY <2>3
    <3>2. g[i - 1] = f[i - 1]
      <4>1. CASE i - 1 = 1
        <5>1. f[1] = ss[1]
          BY <2>1, <3>1, <4>1 DEF Sums
        <5> QED
          BY <2>2, <3>1, <4>1, <5>1
      <4> QED
        BY <2>2, <3>1, <4>1
    <3>3. CASE i = n + 1
      <4>1. i - 1 = n
        BY <3>3
      <4> QED
        BY <2>2, <2>3, <3>2, <3>3, <4>1
    <3>4. CASE i # n + 1
      <4>1. i \in 1..n
        BY <3>1, <3>4
      <4>2. f[i] = f[i - 1] \o ss[i]
        BY <2>1, <2>3, <4>1 DEF Sums
      <4> QED
        BY <2>2, <2>3, <3>1, <3>2, <3>4, <4>2
    <3> QED
      BY <3>3, <3>4
  <2>4. Sums(ss, n + 1, g)
    <3>1. DOMAIN g = 1..(n + 1) /\ g = [i \in 1..(n + 1) |-> g[i]]
      BY <2>2
    <3>2. \A i \in 1..(n + 1) : g[i] = IF i = 1 THEN ss[i] ELSE g[i - 1] \o ss[i]
      BY <2>2, <2>3
    <3> QED
      BY <3>1, <3>2 DEF Sums
  <2> QED
    BY <2>4
<1> HIDE DEF P
<1>3. m \in P
  BY <1>1, <1>2, Reaches
<1> QED
  BY <1>3 DEF P

LEMMA SumsAgree ==
  ASSUME NEW ss, NEW tt, NEW f, NEW g, NEW n \in Nat, NEW m \in Nat, n <= m,
         Sums(ss, n, f), Sums(tt, m, g), \A i \in 1..n : ss[i] = tt[i]
  PROVE  \A i \in 1..n : f[i] = g[i]
<1> SUFFICES ASSUME NEW k \in 1..n  PROVE f[k] = g[k]
  OBVIOUS
<1> DEFINE P == {i \in 0..n : i = 0 \/ f[i] = g[i]}
<1>1. 0 \in P
  OBVIOUS
<1>2. ASSUME NEW i \in 0..(k - 1), i \in P
      PROVE  i + 1 \in P
  <2>1. i + 1 \in 1..n /\ i + 1 \in 1..m /\ (i + 1) - 1 = i
    OBVIOUS
  <2>2. /\ f[i + 1] = IF i + 1 = 1 THEN ss[i + 1] ELSE f[(i + 1) - 1] \o ss[i + 1]
        /\ g[i + 1] = IF i + 1 = 1 THEN tt[i + 1] ELSE g[(i + 1) - 1] \o tt[i + 1]
    BY <2>1 DEF Sums
  <2>3. i # 0 => f[i] = g[i]
    BY <1>2
  <2>4. f[i + 1] = g[i + 1]
    BY <2>1, <2>2, <2>3
  <2> QED
    BY <2>1, <2>4
<1> HIDE DEF P
<1>3. k \in P
  BY <1>1, <1>2, Reaches
<1> QED
  BY <1>3 DEF P

LEMMA FlattenIsSum ==
  ASSUME NEW ss, Len(ss) \in Nat, Len(ss) # 0, NEW f, Sums(ss, Len(ss), f)
  PROVE  FlattenSeq(ss) = f[Len(ss)]
<1> DEFINE g == CHOOSE g : g = [i \in 1..Len(ss) |-> IF i = 1 THEN ss[i] ELSE g[i - 1] \o ss[i]]
<1>1. FlattenSeq(ss) = g[Len(ss)]
  BY DEF FlattenSeq
<1>2. Sums(ss, Len(ss), g)
  BY DEF Sums
<1> HIDE DEF g
<1>3. Len(ss) \in 1..Len(ss)
  OBVIOUS
<1>4. f[Len(ss)] = g[Len(ss)]
  BY <1>2, <1>3, SumsAgree
<1> QED
  BY <1>1, <1>4
LEMMA FlattenNone == FlattenSeq(<<>>) = <<>>
BY DEF FlattenSeq

\* One list more.
LEMMA FlattenOneMore ==
  ASSUME NEW S, NEW ss \in Seq(Seq(S)), FlattenSeq(ss) \in Seq(S), NEW t \in Seq(S)
  PROVE  FlattenSeq(Append(ss, t)) = FlattenSeq(ss) \o t
<1>1. PICK n \in Nat : n = Len(ss)
  OBVIOUS
<1> DEFINE tt == Append(ss, t)
<1>2. /\ Len(tt) = n + 1 /\ tt[n + 1] = t
      /\ \A i \in 1..n : tt[i] = ss[i]
  BY <1>1
<1> HIDE DEF tt
<1>a. n + 1 \in Nat /\ n + 1 # 0 /\ n + 1 \in 1..(n + 1)
  OBVIOUS
<1>3. PICK f : Sums(tt, n + 1, f)
  BY <1>a, SumsExist
<1>4. FlattenSeq(tt) = f[n + 1]
  BY <1>a, <1>2, <1>3, FlattenIsSum
<1>5. f[n + 1] = IF n + 1 = 1 THEN tt[n + 1] ELSE f[(n + 1) - 1] \o tt[n + 1]
  BY <1>a, <1>3 DEF Sums
<1>6. CASE n = 0
  <2>1. ss = <<>>
    BY <1>1, <1>6, EmptySeq
  <2>2. FlattenSeq(ss) \o t = t
    BY <2>1, FlattenNone, ConcatEmptySeq
  <2> QED
    BY <1>2, <1>4, <1>5, <1>6, <2>2 DEF tt
<1>7. CASE n # 0
  <2>1. PICK g : Sums(ss, n, g)
    BY SumsExist
  <2>2. FlattenSeq(ss) = g[n]
    BY <1>1, <1>7, <2>1, FlattenIsSum
  <2>3. g[n] = f[n]
    <3>1. n <= n + 1 /\ n + 1 \in Nat /\ n \in 1..n
      BY <1>7
    <3> QED
      BY <1>2, <1>3, <2>1, <3>1, SumsAgree
  <2>4. (n + 1) - 1 = n
    OBVIOUS
  <2> QED
    BY <1>2, <1>4, <1>5, <1>7, <2>2, <2>3, <2>4 DEF tt
<1> QED
  BY <1>6, <1>7

\* The first n lists of many.
LEMMA Initial ==
  ASSUME NEW S, NEW ss \in Seq(S), NEW n \in 0..(Len(ss) - 1)
  PROVE  /\ SubSeq(ss, 1, n) \in Seq(S)
         /\ Len(SubSeq(ss, 1, n)) = n
         /\ SubSeq(ss, 1, n + 1) = Append(SubSeq(ss, 1, n), ss[n + 1])
<1>1. SubSeq(ss, 1, n) \in Seq(S) /\ Len(SubSeq(ss, 1, n)) = n
  BY SubSeqProperties
<1>2. SubSeq(ss, 1, n + 1) \in Seq(S) /\ Len(SubSeq(ss, 1, n + 1)) = n + 1
  BY SubSeqProperties
<1>3. \A i \in 1..n : SubSeq(ss, 1, n)[i] = ss[i]
  BY SubSeqProperties
<1>4. \A i \in 1..(n + 1) : SubSeq(ss, 1, n + 1)[i] = ss[i]
  BY SubSeqProperties
<1>5. ss[n + 1] \in S
  BY ElementOfSeq
<1> DEFINE t == Append(SubSeq(ss, 1, n), ss[n + 1])
<1>6. /\ t \in Seq(S) /\ Len(t) = n + 1 /\ t[n + 1] = ss[n + 1]
      /\ \A i \in 1..n : t[i] = ss[i]
  BY <1>1, <1>3, <1>5, AppendProperties
<1> HIDE DEF t
<1>7. \A i \in 1..(n + 1) : SubSeq(ss, 1, n + 1)[i] = t[i]
  BY <1>4, <1>6
<1>8. SubSeq(ss, 1, n + 1) = t
  BY <1>2, <1>6, <1>7, SeqEqual
<1> QED
  BY <1>1, <1>8 DEF t

LEMMA FlattenIsList ==
  ASSUME NEW S, NEW ss \in Seq(Seq(S))
  PROVE  FlattenSeq(ss) \in Seq(S)
<1> DEFINE P == {n \in 0..Len(ss) : FlattenSeq(SubSeq(ss, 1, n)) \in Seq(S)}
<1>1. 0 \in P
  <2>1. SubSeq(ss, 1, 0) = <<>>
    BY SubSeqEmpty
  <2>2. <<>> \in Seq(S)
    OBVIOUS
  <2>3. 0 \in 0..Len(ss)
    OBVIOUS
  <2> QED
    BY <2>1, <2>2, <2>3, FlattenNone
<1>2. ASSUME NEW n \in 0..(Len(ss) - 1), n \in P
      PROVE  n + 1 \in P
  <2>1. /\ SubSeq(ss, 1, n) \in Seq(Seq(S)) /\ ss[n + 1] \in Seq(S)
        /\ SubSeq(ss, 1, n + 1) = Append(SubSeq(ss, 1, n), ss[n + 1])
    <3>1. ss[n + 1] \in Seq(S)
      BY ElementOfSeq
    <3> QED
      BY <3>1, Initial
  <2>2. FlattenSeq(SubSeq(ss, 1, n + 1)) = FlattenSeq(SubSeq(ss, 1, n)) \o ss[n + 1]
    BY <1>2, <2>1, FlattenOneMore
  <2>3. FlattenSeq(SubSeq(ss, 1, n + 1)) \in Seq(S)
    BY <1>2, <2>1, <2>2, ConcatProperties
  <2> QED
    BY <2>3
<1>3. Len(ss) \in Nat
  OBVIOUS
<1> HIDE DEF P
<1>4. Len(ss) \in P
  BY <1>1, <1>2, <1>3, Reaches
<1>5. SubSeq(ss, 1, Len(ss)) = ss
  BY SubSeqFull
<1> QED
  BY <1>4, <1>5 DEF P

\* One list more, for lists of lists of one kind.
LEMMA FlattenAppend ==
  ASSUME NEW S, NEW ss \in Seq(Seq(S)), NEW t \in Seq(S)
  PROVE  FlattenSeq(Append(ss, t)) = FlattenSeq(ss) \o t
BY FlattenIsList, FlattenOneMore

-----------------------------------------------------------------------------
(* Selection                                                                *)

One(x, set) == IF x \in set THEN <<x>> ELSE <<>>

LEMMA OneIsList ==
  ASSUME NEW S, NEW x \in S, NEW V
  PROVE  One(x, V) \in Seq(S) /\ One(x, V) \in Seq(S \cap V)
<1>1. CASE x \in V
  <2>1. One(x, V) = <<x>> /\ x \in S \cap V
    BY <1>1 DEF One
  <2> QED
    BY <2>1
<1>2. CASE x \notin V
  <2>1. One(x, V) = <<>>
    BY <1>2 DEF One
  <2> QED
    BY <2>1
<1> QED
  BY <1>1, <1>2

LEMMA KeepIsList ==
  ASSUME NEW S, NEW s \in Seq(S), NEW V
  PROVE  Keep(s, V) \in Seq(S) /\ Keep(s, V) \in Seq(S \cap V)
<1> DEFINE each == [i \in 1..Len(s) |-> One(s[i], V)]
<1>1. each \in Seq(Seq(S)) /\ each \in Seq(Seq(S \cap V))
  <2>1. \A i \in 1..Len(s) : One(s[i], V) \in Seq(S) /\ One(s[i], V) \in Seq(S \cap V)
    BY ElementOfSeq, OneIsList
  <2> QED
    BY <2>1
<1>2. Keep(s, V) = FlattenSeq(each)
  BY DEF Keep, One
<1> HIDE DEF each
<1> QED
  BY <1>1, <1>2, FlattenIsList

LEMMA KeepOfNone == ASSUME NEW V PROVE Keep(<<>>, V) = <<>>
<1> DEFINE each == [i \in 1..Len(<<>>) |-> IF <<>>[i] \in V THEN << <<>>[i] >> ELSE <<>>]
<1>1. each = <<>>
  OBVIOUS
<1>2. Keep(<<>>, V) = FlattenSeq(each)
  BY DEF Keep
<1> HIDE DEF each
<1> QED
  BY <1>1, <1>2, FlattenNone

LEMMA KeepAppend ==
  ASSUME NEW S, NEW s \in Seq(S), NEW x \in S, NEW V
  PROVE  Keep(Append(s, x), V) = Keep(s, V) \o One(x, V)
<1> DEFINE t == Append(s, x)
           each == [i \in 1..Len(s) |-> One(s[i], V)]
           more == [i \in 1..Len(t) |-> One(t[i], V)]
<1>1. PICK n \in Nat : n = Len(s)
  OBVIOUS
<1>2. Len(t) = n + 1 /\ t[n + 1] = x /\ \A i \in 1..n : t[i] = s[i]
  BY <1>1
<1>3. Keep(s, V) = FlattenSeq(each) /\ Keep(t, V) = FlattenSeq(more)
  BY DEF Keep, One
<1>4. One(x, V) \in Seq(S) /\ \A i \in 1..Len(s) : One(s[i], V) \in Seq(S)
  BY ElementOfSeq, OneIsList
<1>5. each \in Seq(Seq(S)) /\ Len(each) = n /\ \A i \in 1..n : each[i] = One(s[i], V)
  BY <1>1, <1>4
<1> HIDE DEF t
<1>6. Len(more) = n + 1 /\ more[n + 1] = One(x, V) /\ \A i \in 1..n : more[i] = One(s[i], V)
  BY <1>2
<1>7. \A i \in 1..(n + 1) : more[i] \in Seq(S)
  <2>1. \A i \in 1..(n + 1) : i = n + 1 \/ i \in 1..n
    OBVIOUS
  <2> QED
    BY <1>1, <1>4, <1>6, <2>1
<1>8. more \in Seq(Seq(S))
  <2>1. more \in [1..(n + 1) -> Seq(S)]
    BY <1>2, <1>7
  <2> QED
    BY <2>1
<1> HIDE DEF each, more
<1> DEFINE grown == Append(each, One(x, V))
<1>9. /\ grown \in Seq(Seq(S)) /\ Len(grown) = n + 1 /\ grown[n + 1] = One(x, V)
      /\ \A i \in 1..n : grown[i] = each[i]
  BY <1>4, <1>5, AppendProperties
<1> HIDE DEF grown
<1>10. \A i \in 1..(n + 1) : more[i] = grown[i]
  <2>1. \A i \in 1..(n + 1) : i = n + 1 \/ i \in 1..n
    OBVIOUS
  <2> QED
    BY <1>5, <1>6, <1>9, <2>1
<1>11. more = grown
  BY <1>6, <1>8, <1>9, <1>10, SeqEqual
<1>12. FlattenSeq(more) = FlattenSeq(each) \o One(x, V)
  BY <1>4, <1>5, <1>11, FlattenAppend DEF grown
<1> QED
  BY <1>3, <1>12 DEF t

LEMMA KeepOfOne ==
  ASSUME NEW S, NEW x \in S, NEW V
  PROVE  Keep(<<x>>, V) = One(x, V)
<1>1. <<>> \in Seq(S) /\ Append(<<>>, x) = <<x>>
  OBVIOUS
<1>2. Keep(<<x>>, V) = Keep(<<>>, V) \o One(x, V)
  BY <1>1, KeepAppend
<1>3. <<>> \o One(x, V) = One(x, V)
  BY OneIsList, ConcatEmptySeq
<1> QED
  BY <1>2, <1>3, KeepOfNone

\* Lists that agree on what is kept.
LEMMA KeepSame ==
  ASSUME NEW s, NEW V, NEW W, \A i \in 1..Len(s) : s[i] \in V <=> s[i] \in W
  PROVE  Keep(s, V) = Keep(s, W)
BY DEF Keep

LEMMA ConcatAppend ==
  ASSUME NEW S, NEW s \in Seq(S), NEW t \in Seq(S), NEW x \in S
  PROVE  s \o Append(t, x) = Append(s \o t, x)
<1>1. <<x>> \in Seq(S) /\ s \o t \in Seq(S)
  BY ConcatProperties
<1>2. Append(t, x) = t \o <<x>> /\ Append(s \o t, x) = (s \o t) \o <<x>>
  BY <1>1, AppendIsConcat
<1> QED
  BY <1>1, <1>2, ConcatAssociative

Grouped(a, b, c) == (a \o b) \o c = a \o (b \o c)

LEMMA GroupedAny ==
  ASSUME NEW S, NEW a \in Seq(S), NEW b \in Seq(S), NEW c \in Seq(S)
  PROVE  Grouped(a, b, c)
BY ConcatAssociative DEF Grouped

Splits(s, t, V) == Keep(s \o t, V) = Keep(s, V) \o Keep(t, V)

LEMMA KeepConcatMore ==
  ASSUME NEW S, NEW s \in Seq(S), NEW p \in Seq(S), NEW x \in S, NEW V,
         Splits(s, p, V)
  PROVE  Splits(s, Append(p, x), V)
<1>1. /\ s \o Append(p, x) = Append(s \o p, x)
      /\ s \o p \in Seq(S)
  BY ConcatAppend, ConcatProperties
<1>2. /\ Keep(Append(s \o p, x), V) = Keep(s \o p, V) \o One(x, V)
      /\ Keep(Append(p, x), V) = Keep(p, V) \o One(x, V)
  BY <1>1, KeepAppend
<1>3. Keep(s, V) \in Seq(S) /\ Keep(p, V) \in Seq(S) /\ One(x, V) \in Seq(S)
  BY KeepIsList, OneIsList
<1>4. (Keep(s, V) \o Keep(p, V)) \o One(x, V) = Keep(s, V) \o (Keep(p, V) \o One(x, V))
  <2>1. Grouped(Keep(s, V), Keep(p, V), One(x, V))
    BY <1>3, GroupedAny
  <2> QED
    BY <2>1 DEF Grouped
<1> QED
  BY <1>1, <1>2, <1>4 DEF Splits

LEMMA KeepConcat ==
  ASSUME NEW S, NEW s \in Seq(S), NEW t \in Seq(S), NEW V
  PROVE  Keep(s \o t, V) = Keep(s, V) \o Keep(t, V)
<1> DEFINE P == {n \in 0..Len(t) : Splits(s, SubSeq(t, 1, n), V)}
<1>0. Keep(s, V) \in Seq(S)
  BY KeepIsList
<1>1. 0 \in P
  <2>1. SubSeq(t, 1, 0) = <<>>
    BY SubSeqEmpty
  <2>2. s \o <<>> = s /\ Keep(s, V) \o <<>> = Keep(s, V)
    BY <1>0, ConcatEmptySeq
  <2>3. Keep(s \o <<>>, V) = Keep(s, V) \o Keep(<<>>, V)
    BY <2>2, KeepOfNone
  <2>4. 0 \in 0..Len(t)
    OBVIOUS
  <2> QED
    BY <2>1, <2>3, <2>4 DEF Splits
<1>2. ASSUME NEW n \in 0..(Len(t) - 1), n \in P
      PROVE  n + 1 \in P
  <2>1. PICK p \in Seq(S) : p = SubSeq(t, 1, n) /\ SubSeq(t, 1, n + 1) = Append(p, t[n + 1])
    BY Initial
  <2>2. PICK x \in S : x = t[n + 1]
    <3>1. n + 1 \in 1..Len(t)
      OBVIOUS
    <3> QED
      BY <3>1, ElementOfSeq
  <2>3. Splits(s, p, V)
    BY <1>2, <2>1
  <2>8. Splits(s, Append(p, x), V)
    BY <2>1, <2>2, <2>3, KeepConcatMore
  <2>9. n + 1 \in 0..Len(t)
    OBVIOUS
  <2> QED
    BY <2>1, <2>2, <2>8, <2>9
<1>3. Len(t) \in Nat
  OBVIOUS
<1> HIDE DEF P
<1>4. Len(t) \in P
  BY <1>1, <1>2, <1>3, Reaches
<1>5. SubSeq(t, 1, Len(t)) = t
  BY SubSeqFull
<1> QED
  BY <1>4, <1>5 DEF P, Splits

LEMMA KeepAll ==
  ASSUME NEW S, NEW s \in Seq(S), NEW V, \A i \in 1..Len(s) : s[i] \in V
  PROVE  Keep(s, V) = s
<1> DEFINE P == {n \in 0..Len(s) : Keep(SubSeq(s, 1, n), V) = SubSeq(s, 1, n)}
<1>1. 0 \in P
  <2>1. SubSeq(s, 1, 0) = <<>> /\ 0 \in 0..Len(s)
    BY SubSeqEmpty
  <2> QED
    BY <2>1, KeepOfNone
<1>2. ASSUME NEW n \in 0..(Len(s) - 1), n \in P
      PROVE  n + 1 \in P
  <2>1. PICK p \in Seq(S) : p = SubSeq(s, 1, n) /\ SubSeq(s, 1, n + 1) = Append(p, s[n + 1])
    BY Initial
  <2>2. PICK x \in S : x = s[n + 1] /\ x \in V
    <3>1. n + 1 \in 1..Len(s)
      OBVIOUS
    <3> QED
      BY <3>1, ElementOfSeq
  <2>3. Keep(Append(p, x), V) = Keep(p, V) \o One(x, V)
    BY KeepAppend
  <2>4. Keep(p, V) = p /\ One(x, V) = <<x>> /\ p \o <<x>> = Append(p, x)
    BY <1>2, <2>1, <2>2, AppendIsConcat DEF One
  <2>5. n + 1 \in 0..Len(s)
    OBVIOUS
  <2> QED
    BY <2>1, <2>2, <2>3, <2>4, <2>5
<1>3. Len(s) \in Nat
  OBVIOUS
<1> HIDE DEF P
<1>4. Len(s) \in P
  BY <1>1, <1>2, <1>3, Reaches
<1>5. SubSeq(s, 1, Len(s)) = s
  BY SubSeqFull
<1> QED
  BY <1>4, <1>5 DEF P

LEMMA KeepNothing ==
  ASSUME NEW S, NEW s \in Seq(S), NEW V, \A i \in 1..Len(s) : s[i] \notin V
  PROVE  Keep(s, V) = <<>>
<1>1. Keep(s, V) = Keep(s, {})
  BY KeepSame
<1>2. Keep(s, {}) \in Seq(S \cap {})
  BY KeepIsList
<1>3. Keep(s, {}) = <<>>
  <2>1. S \cap {} = {}
    OBVIOUS
  <2>2. PICK k \in Seq({}) : k = Keep(s, {})
    BY <1>2, <2>1
  <2>3. Len(k) = 0
    <3>1. ASSUME Len(k) # 0  PROVE FALSE
      <4>1. 1 \in 1..Len(k)
        BY <3>1
      <4> QED
        BY <4>1, ElementOfSeq
    <3> QED
      BY <3>1
  <2> QED
    BY <2>2, <2>3, EmptySeq
<1> QED
  BY <1>1, <1>3

LEMMA KeepOverOne ==
  ASSUME NEW S, NEW p \in Seq(S), NEW x \in S, NEW V, NEW W
  PROVE  Keep(Keep(Append(p, x), V), W) = Keep(Keep(p, V), W) \o Keep(One(x, V), W)
<1>1. Keep(p, V) \in Seq(S) /\ One(x, V) \in Seq(S)
  BY KeepIsList, OneIsList
<1>2. Keep(Keep(p, V) \o One(x, V), W) = Keep(Keep(p, V), W) \o Keep(One(x, V), W)
  BY <1>1, KeepConcat
<1>3. Keep(Append(p, x), V) = Keep(p, V) \o One(x, V)
  BY KeepAppend
<1> QED
  BY <1>2, <1>3

LEMMA OneOrder ==
  ASSUME NEW S, NEW x \in S, NEW V, NEW W
  PROVE  Keep(One(x, V), W) = Keep(One(x, W), V)
BY KeepOfOne, KeepOfNone DEF One

\* Of two selections either may come first.
Commute(s, V, W) == Keep(Keep(s, V), W) = Keep(Keep(s, W), V)

LEMMA KeepTwiceMore ==
  ASSUME NEW S, NEW p \in Seq(S), NEW x \in S, NEW V, NEW W, Commute(p, V, W)
  PROVE  Commute(Append(p, x), V, W)
<1>1. /\ Keep(Keep(Append(p, x), V), W) = Keep(Keep(p, V), W) \o Keep(One(x, V), W)
      /\ Keep(Keep(Append(p, x), W), V) = Keep(Keep(p, W), V) \o Keep(One(x, W), V)
  BY KeepOverOne
<1>2. Keep(One(x, V), W) = Keep(One(x, W), V)
  BY OneOrder
<1> QED
  BY <1>1, <1>2 DEF Commute

LEMMA KeepTwice ==
  ASSUME NEW S, NEW s \in Seq(S), NEW V, NEW W
  PROVE  Keep(Keep(s, V), W) = Keep(Keep(s, W), V)
<1> DEFINE P == {n \in 0..Len(s) : Commute(SubSeq(s, 1, n), V, W)}
<1>1. 0 \in P
  <2>1. SubSeq(s, 1, 0) = <<>> /\ 0 \in 0..Len(s)
    BY SubSeqEmpty
  <2> QED
    BY <2>1, KeepOfNone DEF Commute
<1>2. ASSUME NEW n \in 0..(Len(s) - 1), n \in P
      PROVE  n + 1 \in P
  <2>1. PICK p \in Seq(S) : p = SubSeq(s, 1, n) /\ SubSeq(s, 1, n + 1) = Append(p, s[n + 1])
    BY Initial
  <2>2. PICK x \in S : x = s[n + 1]
    <3>1. n + 1 \in 1..Len(s)
      OBVIOUS
    <3> QED
      BY <3>1, ElementOfSeq
  <2>6. Commute(Append(p, x), V, W)
    <3>1. Commute(p, V, W)
      BY <1>2, <2>1
    <3> QED
      BY <2>1, <2>2, <3>1, KeepTwiceMore
  <2>7. n + 1 \in 0..Len(s)
    OBVIOUS
  <2> QED
    BY <2>1, <2>2, <2>6, <2>7
<1>3. Len(s) \in Nat
  OBVIOUS
<1> HIDE DEF P
<1>4. Len(s) \in P
  BY <1>1, <1>2, <1>3, Reaches
<1>5. SubSeq(s, 1, Len(s)) = s
  BY SubSeqFull
<1> QED
  BY <1>4, <1>5 DEF P, Commute

LEMMA KeepOverFlatten ==
  ASSUME NEW S, NEW p \in Seq(Seq(S)), NEW x \in Seq(S), NEW V
  PROVE  Keep(FlattenSeq(Append(p, x)), V) = Keep(FlattenSeq(p), V) \o Keep(x, V)
<1>1. FlattenSeq(Append(p, x)) = FlattenSeq(p) \o x /\ FlattenSeq(p) \in Seq(S)
  BY FlattenAppend, FlattenIsList
<1>2. Keep(FlattenSeq(p) \o x, V) = Keep(FlattenSeq(p), V) \o Keep(x, V)
  BY <1>1, KeepConcat
<1> QED
  BY <1>1, <1>2

Matching(ss, tt, V) == Keep(FlattenSeq(ss), V) = FlattenSeq(tt)

LEMMA KeepFlattenMore ==
  ASSUME NEW S, NEW p \in Seq(Seq(S)), NEW q \in Seq(Seq(S)), NEW x \in Seq(S), NEW V,
         Matching(p, q, V)
  PROVE  Matching(Append(p, x), Append(q, Keep(x, V)), V)
<1>1. Keep(FlattenSeq(Append(p, x)), V) = Keep(FlattenSeq(p), V) \o Keep(x, V)
  BY KeepOverFlatten
<1>2. FlattenSeq(Append(q, Keep(x, V))) = FlattenSeq(q) \o Keep(x, V)
  BY FlattenAppend, KeepIsList
<1> QED
  BY <1>1, <1>2 DEF Matching

\* A selection from lists of lists is made list by list.
LEMMA KeepFlatten ==
  ASSUME NEW S, NEW ss \in Seq(Seq(S)), NEW V
  PROVE  Keep(FlattenSeq(ss), V) = FlattenSeq([i \in 1..Len(ss) |-> Keep(ss[i], V)])
<1> DEFINE kept == [i \in 1..Len(ss) |-> Keep(ss[i], V)]
           P == {n \in 0..Len(ss) : Matching(SubSeq(ss, 1, n), SubSeq(kept, 1, n), V)}
<1>0. kept \in Seq(Seq(S)) /\ Len(kept) = Len(ss) /\ \A i \in 1..Len(ss) : kept[i] = Keep(ss[i], V)
  <2>1. \A i \in 1..Len(ss) : Keep(ss[i], V) \in Seq(S)
    BY ElementOfSeq, KeepIsList
  <2> QED
    BY <2>1
<1> HIDE DEF kept
<1>1. 0 \in P
  <2>1. SubSeq(ss, 1, 0) = <<>> /\ SubSeq(kept, 1, 0) = <<>> /\ 0 \in 0..Len(ss)
    BY <1>0, SubSeqEmpty
  <2> QED
    BY <2>1, KeepOfNone, FlattenNone DEF Matching
<1>2. ASSUME NEW n \in 0..(Len(ss) - 1), n \in P
      PROVE  n + 1 \in P
  <2>1. PICK p \in Seq(Seq(S)) : p = SubSeq(ss, 1, n) /\ SubSeq(ss, 1, n + 1) = Append(p, ss[n + 1])
    BY Initial
  <2>2. PICK q \in Seq(Seq(S)) :
          q = SubSeq(kept, 1, n) /\ SubSeq(kept, 1, n + 1) = Append(q, kept[n + 1])
    BY <1>0, Initial
  <2>3. PICK x \in Seq(S) : x = ss[n + 1] /\ kept[n + 1] = Keep(x, V)
    <3>1. n + 1 \in 1..Len(ss)
      OBVIOUS
    <3> QED
      BY <1>0, <3>1, ElementOfSeq
  <2>4. Matching(Append(p, x), Append(q, Keep(x, V)), V)
    <3>1. Matching(p, q, V)
      BY <1>2, <2>1, <2>2
    <3> QED
      BY <2>1, <2>2, <2>3, <3>1, KeepFlattenMore
  <2>8. n + 1 \in 0..Len(ss)
    OBVIOUS
  <2> QED
    BY <2>1, <2>2, <2>3, <2>4, <2>8
<1>3. Len(ss) \in Nat
  OBVIOUS
<1> HIDE DEF P
<1>4. Len(ss) \in P
  BY <1>1, <1>2, <1>3, Reaches
<1>5. SubSeq(ss, 1, Len(ss)) = ss /\ SubSeq(kept, 1, Len(ss)) = kept
  BY <1>0, SubSeqFull
<1> QED
  BY <1>4, <1>5 DEF P, kept, Matching

-----------------------------------------------------------------------------
(* The sort                                                                 *)

\* B orders the first n positions, all of them.
Orders(B, n) ==
  /\ \A i, j \in 1..n : <<i, j>> \in B \/ <<j, i>> \in B
  /\ \A i, j \in 1..n : <<i, j>> \in B /\ <<j, i>> \in B => i = j
  /\ \A i, j, k \in 1..n : <<i, j>> \in B /\ <<j, k>> \in B => <<i, k>> \in B

\* In such an order every rank is taken.
HasRank(B, n, k) == \E i \in 1..n : Cardinality({j \in 1..n : <<j, i>> \in B}) = k

LEMMA EveryRank ==
  ASSUME NEW n \in Nat, NEW B, Orders(B, n), NEW k \in 1..n
  PROVE  HasRank(B, n, k)
<1> DEFINE Down(i) == {j \in 1..n : <<j, i>> \in B}
           rank == [i \in 1..n |-> Cardinality(Down(i))]
<1>1. IsFiniteSet(1..n) /\ Cardinality(1..n) = n
  BY FS_Interval
<1>2. \A i \in 1..n : Down(i) \in SUBSET (1..n) /\ i \in Down(i)
  BY DEF Orders
<1> HIDE DEF Down
<1>3. \A i \in 1..n : IsFiniteSet(Down(i)) /\ Cardinality(Down(i)) <= n
  BY <1>1, <1>2, FS_Subset
<1>4. \A i \in 1..n : Cardinality(Down(i)) \in 1..n
  <2>1. \A i \in 1..n : Cardinality(Down(i)) \in Nat /\ Cardinality(Down(i)) # 0
    BY <1>2, <1>3, FS_CardinalityType, FS_EmptySet
  <2> QED
    BY <1>3, <2>1
<1>5. ASSUME NEW i \in 1..n, NEW j \in 1..n, <<i, j>> \in B, Cardinality(Down(i)) = Cardinality(Down(j))
      PROVE  i = j
  <2>1. Down(i) \in SUBSET Down(j)
    BY <1>5 DEF Down, Orders
  <2>2. Down(i) = Down(j)
    BY <1>3, <1>5, <2>1, FS_Subset
  <2>3. <<j, i>> \in B
    <3>1. j \in Down(i)
      BY <1>2, <2>2
    <3> QED
      BY <3>1 DEF Down
  <2> QED
    BY <1>5, <2>3 DEF Orders
<1>6. rank \in Injection(1..n, 1..n)
  <2>1. rank \in [1..n -> 1..n]
    BY <1>4
  <2>2. ASSUME NEW i \in 1..n, NEW j \in 1..n, rank[i] = rank[j]  PROVE i = j
    <3>1. Cardinality(Down(i)) = Cardinality(Down(j))
      BY <2>2
    <3>2. CASE <<i, j>> \in B
      BY <1>5, <3>1, <3>2
    <3>3. CASE <<j, i>> \in B
      BY <1>5, <3>1, <3>3
    <3> QED
      BY <3>2, <3>3 DEF Orders
  <2> HIDE DEF rank
  <2> QED
    BY <2>1, <2>2 DEF Injection, IsInjective
<1>7. rank \in Surjection(1..n, 1..n)
  <2> HIDE DEF rank
  <2> QED
    BY <1>1, <1>6, FS_Injection
<1>8. PICK i \in 1..n : rank[i] = k
  <2> HIDE DEF rank
  <2> QED
    BY <1>7 DEF Surjection
<1> QED
  BY <1>8 DEF Down, HasRank

\* L is a strict order of the first n positions that may hold some of them for
\* equal, as keys are compared.
Weak(L, n) ==
  /\ \A i, j \in 1..n : ~ (<<i, j>> \in L /\ <<j, i>> \in L)
  /\ \A i, j, k \in 1..n : <<i, j>> \in L /\ <<j, k>> \in L => <<i, k>> \in L
  /\ \A i, j, k \in 1..n : <<i, j>> \notin L /\ <<j, k>> \notin L => <<i, k>> \notin L

\* What a stable sort by L puts no later than i.
UpTo(L, n, i) == {j \in 1..n : <<j, i>> \in L \/ (<<i, j>> \notin L /\ j <= i)}

\* p tells where a sort of n items takes each of them from.
Sorts(p, L, n) ==
  /\ p \in Bijection(1..n, 1..n)
  /\ \A k, l \in 1..n : k < l => <<p[l], p[k]>> \notin L

\* A sort that gives every item its place moves each of them once.
LEMMA SortTakes ==
  ASSUME NEW n \in Nat, NEW s, Len(s) = n, NEW L, Weak(L, n),
         NEW place, \A i \in 1..n : place[i] = Cardinality(UpTo(L, n, i))
  PROVE  \E p : Sorts(p, L, n) /\ Arrange(s, place) = [k \in 1..n |-> s[p[k]]]
<1> DEFINE B == {q \in (1..n) \X (1..n) : q[1] \in UpTo(L, n, q[2])}
           p == [k \in 1..n |-> CHOOSE i \in 1..n : place[i] = k]
<1>1. \A i, j \in 1..n : <<i, j>> \in B <=> <<i, j>> \in L \/ (<<j, i>> \notin L /\ i <= j)
  BY DEF UpTo
<1>2. \A i \in 1..n : {j \in 1..n : <<j, i>> \in B} = UpTo(L, n, i)
  BY DEF UpTo
<1> HIDE DEF B
<1>3. Orders(B, n)
  <2>1. ASSUME NEW i \in 1..n, NEW j \in 1..n
        PROVE  (<<i, j>> \in B \/ <<j, i>> \in B) /\ (<<i, j>> \in B /\ <<j, i>> \in B => i = j)
    <3>1. (i <= j \/ j <= i) /\ (i <= j /\ j <= i => i = j)
      OBVIOUS
    <3> QED
      BY <1>1, <3>1 DEF Weak
  <2>2. ASSUME NEW i \in 1..n, NEW j \in 1..n, NEW k \in 1..n, <<i, j>> \in B, <<j, k>> \in B
        PROVE  <<i, k>> \in B
    <3>1. i <= j /\ j <= k => i <= k
      OBVIOUS
    <3>2. <<i, k>> \in L \/ (<<k, i>> \notin L /\ i <= k)
      BY <1>1, <2>2, <3>1 DEF Weak
    <3> QED
      BY <1>1, <3>2
  <2> QED
    BY <2>1, <2>2 DEF Orders
<1>4. \A i \in 1..n : place[i] = Cardinality({j \in 1..n : <<j, i>> \in B})
  BY <1>2
<1>5. ASSUME NEW k \in 1..n  PROVE p[k] \in 1..n /\ place[p[k]] = k
  <2>1. HasRank(B, n, k)
    BY <1>3, EveryRank
  <2>2. \E i \in 1..n : place[i] = k
    BY <1>4, <2>1 DEF HasRank
  <2>3. p[k] = CHOOSE i \in 1..n : place[i] = k
    OBVIOUS
  <2> HIDE DEF p
  <2> QED
    BY <2>2, <2>3
<1>6. Arrange(s, place) = [k \in 1..n |-> s[p[k]]]
  BY DEF Arrange
<1>7. p \in [1..n -> 1..n]
  BY <1>5
<1> HIDE DEF p
<1>8. p \in Injection(1..n, 1..n)
  BY <1>5, <1>7 DEF Injection, IsInjective
<1>9. p \in Bijection(1..n, 1..n)
  <2>1. IsFiniteSet(1..n) /\ Cardinality(1..n) = n
    BY FS_Interval
  <2> QED
    BY <1>8, <2>1, FS_Injection DEF Bijection
<1>10. ASSUME NEW k \in 1..n, NEW l \in 1..n, k < l, <<p[l], p[k]>> \in L
       PROVE  FALSE
  <2>1. PICK i \in 1..n : i = p[k]
    BY <1>5
  <2>2. PICK j \in 1..n : j = p[l]
    BY <1>5
  <2>3. <<j, i>> \in B
    BY <1>1, <1>10, <2>1, <2>2
  <2>4. {h \in 1..n : <<h, j>> \in B} \subseteq {h \in 1..n : <<h, i>> \in B}
    BY <1>3, <2>3 DEF Orders
  <2>5. IsFiniteSet({h \in 1..n : <<h, i>> \in B})
    <3>1. IsFiniteSet(1..n) /\ {h \in 1..n : <<h, i>> \in B} \in SUBSET (1..n)
      BY FS_Interval
    <3> QED
      BY <3>1, FS_Subset
  <2>6. Cardinality({h \in 1..n : <<h, j>> \in B}) <= Cardinality({h \in 1..n : <<h, i>> \in B})
    BY <2>4, <2>5, FS_Subset
  <2>7. l <= k
    BY <1>4, <1>5, <2>1, <2>2, <2>6
  <2> QED
    BY <1>10, <2>7
<1> QED
  BY <1>6, <1>9, <1>10 DEF Sorts

\* A triple of numbers is less by its first component that differs.
LEMMA KeyLessIs ==
  ASSUME NEW a \in Nat \X Nat \X Nat, NEW b \in Nat \X Nat \X Nat
  PROVE  KeyLess(a, b) <=> \/ a[1] < b[1]
                           \/ a[1] = b[1] /\ a[2] < b[2]
                           \/ a[1] = b[1] /\ a[2] = b[2] /\ a[3] < b[3]
<1> USE DEF KeyLess
<1>1. ASSUME KeyLess(a, b)
      PROVE  \/ a[1] < b[1]
             \/ a[1] = b[1] /\ a[2] < b[2]
             \/ a[1] = b[1] /\ a[2] = b[2] /\ a[3] < b[3]
  <2>1. PICK i \in 1..3 : a[i] < b[i] /\ \A j \in 1..(i - 1) : a[j] = b[j]
    BY <1>1
  <2>2. i = 1 \/ i = 2 \/ i = 3
    OBVIOUS
  <2>3. i = 2 => 1 \in 1..(i - 1)
    OBVIOUS
  <2>4. i = 3 => 1 \in 1..(i - 1) /\ 2 \in 1..(i - 1)
    OBVIOUS
  <2> QED
    BY <2>1, <2>2, <2>3, <2>4
<1>2. ASSUME a[1] < b[1]  PROVE KeyLess(a, b)
  <2>1. 1 \in 1..3 /\ \A j \in 1..(1 - 1) : FALSE
    OBVIOUS
  <2> QED
    BY <1>2, <2>1
<1>3. ASSUME a[1] = b[1], a[2] < b[2]  PROVE KeyLess(a, b)
  <2>1. 2 \in 1..3 /\ \A j \in 1..(2 - 1) : j = 1
    OBVIOUS
  <2> QED
    BY <1>3, <2>1
<1>4. ASSUME a[1] = b[1], a[2] = b[2], a[3] < b[3]  PROVE KeyLess(a, b)
  <2>1. 3 \in 1..3 /\ \A j \in 1..(3 - 1) : j = 1 \/ j = 2
    OBVIOUS
  <2> QED
    BY <1>4, <2>1
<1> HIDE DEF KeyLess
<1> QED
  BY <1>1, <1>2, <1>3, <1>4

LEMMA KeyOrder ==
  ASSUME NEW a \in Nat \X Nat \X Nat, NEW b \in Nat \X Nat \X Nat, NEW c \in Nat \X Nat \X Nat
  PROVE  /\ ~(KeyLess(a, b) /\ KeyLess(b, a))
         /\ KeyLess(a, b) /\ KeyLess(b, c) => KeyLess(a, c)
         /\ ~KeyLess(a, b) /\ ~KeyLess(b, c) => ~KeyLess(a, c)
<1>1. a[1] \in Nat /\ a[2] \in Nat /\ a[3] \in Nat
  OBVIOUS
<1>2. b[1] \in Nat /\ b[2] \in Nat /\ b[3] \in Nat
  OBVIOUS
<1>3. c[1] \in Nat /\ c[2] \in Nat /\ c[3] \in Nat
  OBVIOUS
<1>4. KeyLess(a, b) <=> \/ a[1] < b[1]
                        \/ a[1] = b[1] /\ a[2] < b[2]
                        \/ a[1] = b[1] /\ a[2] = b[2] /\ a[3] < b[3]
  BY KeyLessIs
<1>5. KeyLess(b, a) <=> \/ b[1] < a[1]
                        \/ b[1] = a[1] /\ b[2] < a[2]
                        \/ b[1] = a[1] /\ b[2] = a[2] /\ b[3] < a[3]
  BY KeyLessIs
<1>6. KeyLess(b, c) <=> \/ b[1] < c[1]
                        \/ b[1] = c[1] /\ b[2] < c[2]
                        \/ b[1] = c[1] /\ b[2] = c[2] /\ b[3] < c[3]
  BY KeyLessIs
<1>7. KeyLess(a, c) <=> \/ a[1] < c[1]
                        \/ a[1] = c[1] /\ a[2] < c[2]
                        \/ a[1] = c[1] /\ a[2] = c[2] /\ a[3] < c[3]
  BY KeyLessIs
<1> QED
  BY <1>1, <1>2, <1>3, <1>4, <1>5, <1>6, <1>7

LEMMA KeyTotal ==
  ASSUME NEW a \in Nat \X Nat \X Nat, NEW b \in Nat \X Nat \X Nat, ~KeyLess(a, b), ~KeyLess(b, a)
  PROVE  a = b
<1>1. /\ a[1] \in Nat /\ a[2] \in Nat /\ a[3] \in Nat /\ a = <<a[1], a[2], a[3]>>
      /\ b[1] \in Nat /\ b[2] \in Nat /\ b[3] \in Nat /\ b = <<b[1], b[2], b[3]>>
  OBVIOUS
<1>2. KeyLess(a, b) <=> \/ a[1] < b[1]
                        \/ a[1] = b[1] /\ a[2] < b[2]
                        \/ a[1] = b[1] /\ a[2] = b[2] /\ a[3] < b[3]
  BY KeyLessIs
<1>3. KeyLess(b, a) <=> \/ b[1] < a[1]
                        \/ b[1] = a[1] /\ b[2] < a[2]
                        \/ b[1] = a[1] /\ b[2] = a[2] /\ b[3] < a[3]
  BY KeyLessIs
<1>4. a[1] = b[1] /\ a[2] = b[2] /\ a[3] = b[3]
  BY <1>1, <1>2, <1>3
<1> QED
  BY <1>1, <1>4

\* What a sort needs of a finding.
Keyed(f) == f.line \in Nat /\ f.start \in Nat /\ f.rule \in Rules

LEMMA KeyIsTriple == ASSUME NEW f, Keyed(f) PROVE Key(f) \in Nat \X Nat \X Nat
<1>1. RuleOrder[f.rule] \in Nat
  BY FindingsAssumption DEF Keyed
<1> QED
  BY <1>1 DEF Keyed, Key

\* The order that the keys of a list of findings put on its positions.
KeyBefore(fs, n) == {q \in (1..n) \X (1..n) : KeyLess(Key(fs[q[1]]), Key(fs[q[2]]))}

LEMMA KeyBeforeIsWeak ==
  ASSUME NEW fs, NEW n \in Nat, \A i \in 1..n : Keyed(fs[i])
  PROVE  Weak(KeyBefore(fs, n), n)
<1> DEFINE K(i) == Key(fs[i])
<1>1. \A i \in 1..n : K(i) \in Nat \X Nat \X Nat
  BY KeyIsTriple
<1>2. \A i, j \in 1..n : <<i, j>> \in KeyBefore(fs, n) <=> KeyLess(K(i), K(j))
  BY DEF KeyBefore
<1> HIDE DEF K
<1>3. /\ \A i, j \in 1..n : ~(KeyLess(K(i), K(j)) /\ KeyLess(K(j), K(i)))
      /\ \A i, j, k \in 1..n :
           /\ KeyLess(K(i), K(j)) /\ KeyLess(K(j), K(k)) => KeyLess(K(i), K(k))
           /\ ~KeyLess(K(i), K(j)) /\ ~KeyLess(K(j), K(k)) => ~KeyLess(K(i), K(k))
  BY <1>1, KeyOrder
<1> QED
  BY <1>2, <1>3 DEF Weak

\* The canonical sort moves every finding once and ends in the order of the keys.
LEMMA InOrderSorts ==
  ASSUME NEW fs, NEW n \in Nat, Len(fs) = n, \A i \in 1..n : Keyed(fs[i])
  PROVE  \E p : Sorts(p, KeyBefore(fs, n), n) /\ InOrder(fs) = [k \in 1..n |-> fs[p[k]]]
<1> DEFINE place == [i \in 1..n |-> Place(fs, i)]
<1>1. InOrder(fs) = Arrange(fs, place)
  BY DEF InOrder
<1>2. ASSUME NEW i \in 1..n  PROVE place[i] = Cardinality(UpTo(KeyBefore(fs, n), n, i))
  <2>1. {j \in 1..n : KeyLess(Key(fs[j]), Key(fs[i])) \/ (~KeyLess(Key(fs[i]), Key(fs[j])) /\ j <= i)}
          = UpTo(KeyBefore(fs, n), n, i)
    BY DEF UpTo, KeyBefore
  <2> QED
    BY <2>1 DEF Place
<1> HIDE DEF place
<1>3. Weak(KeyBefore(fs, n), n)
  BY KeyBeforeIsWeak
<1> QED
  BY <1>1, <1>2, <1>3, SortTakes

\* A sort gives every finding a place, and takes none from elsewhere.
LEMMA InOrderTakes ==
  ASSUME NEW fs, NEW n \in Nat, Len(fs) = n, \A i \in 1..n : Keyed(fs[i])
  PROVE  /\ InOrder(fs) = [k \in 1..n |-> InOrder(fs)[k]]
         /\ \A k \in 1..n : \E i \in 1..n : InOrder(fs)[k] = fs[i]
<1>1. PICK p : Sorts(p, KeyBefore(fs, n), n) /\ InOrder(fs) = [k \in 1..n |-> fs[p[k]]]
  BY InOrderSorts
<1>2. \A k \in 1..n : p[k] \in 1..n
  BY <1>1 DEF Sorts, Bijection, Injection
<1> QED
  BY <1>1, <1>2

-----------------------------------------------------------------------------
(* Lists of whatever                                                        *)

List(s) == \E n \in Nat : s = [i \in 1..n |-> s[i]]

LEMMA ListIs ==
  ASSUME NEW s, List(s)
  PROVE  Len(s) \in Nat /\ s = [i \in 1..Len(s) |-> s[i]]
<1>1. PICK n \in Nat : s = [i \in 1..n |-> s[i]]
  BY DEF List
<1>2. DOMAIN s = 1..n
  BY <1>1
<1>3. s \in Seq(Range(s))
  <2>1. \A i \in 1..n : s[i] \in Range(s)
    BY <1>2 DEF Range
  <2>2. s \in [1..n -> Range(s)]
    BY <1>1, <2>1
  <2> QED
    BY <2>2, SeqDef
<1>4. Len(s) \in Nat /\ DOMAIN s = 1..Len(s)
  BY <1>3, LenProperties
<1> QED
  BY <1>1, <1>2, <1>4

\* It is a list over any set that has its items.
LEMMA ListOver ==
  ASSUME NEW s, List(s), NEW S, \A i \in 1..Len(s) : s[i] \in S
  PROVE  s \in Seq(S)
<1>1. Len(s) \in Nat /\ s = [i \in 1..Len(s) |-> s[i]]
  BY ListIs
<1>2. PICK n \in Nat : n = Len(s)
  BY <1>1
<1>3. s \in [1..n -> S]
  BY <1>1, <1>2
<1> QED
  BY <1>3, SeqDef

LEMMA SeqIsList ==
  ASSUME NEW S, NEW s \in Seq(S)
  PROVE  List(s) /\ \A i \in 1..Len(s) : s[i] \in S
<1>1. Len(s) \in Nat /\ s \in [1..Len(s) -> S]
  BY LenProperties
<1> QED
  BY <1>1 DEF List

LEMMA RangeOfList ==
  ASSUME NEW s, List(s)
  PROVE  s \in Seq(Range(s)) /\ \A i \in 1..Len(s) : s[i] \in Range(s)
<1>1. Len(s) \in Nat /\ s = [i \in 1..Len(s) |-> s[i]]
  BY ListIs
<1>2. \A i \in 1..Len(s) : s[i] \in Range(s)
  BY <1>1 DEF Range
<1> QED
  BY <1>2, ListOver

LEMMA EmptyIsList == List(<<>>)
<1>1. <<>> \in Seq({})
  OBVIOUS
<1> QED
  BY <1>1, SeqIsList

LEMMA KeepMakesList ==
  ASSUME NEW s, List(s), NEW V
  PROVE  List(Keep(s, V)) /\ \A i \in 1..Len(Keep(s, V)) : Keep(s, V)[i] \in Range(s) \cap V
<1>1. s \in Seq(Range(s))
  BY RangeOfList
<1>2. Keep(s, V) \in Seq(Range(s) \cap V)
  BY <1>1, KeepIsList
<1> QED
  BY <1>2, SeqIsList

LEMMA ConcatMakesList ==
  ASSUME NEW s, NEW t, List(s), List(t)
  PROVE  List(s \o t) /\ Range(s \o t) \subseteq Range(s) \cup Range(t)
<1>1. s \in Seq(Range(s)) /\ t \in Seq(Range(t))
  BY RangeOfList
<1>2. s \in Seq(Range(s) \cup Range(t)) /\ t \in Seq(Range(s) \cup Range(t))
  BY <1>1, SeqMonotonic
<1>3. s \o t \in Seq(Range(s) \cup Range(t))
  BY <1>2, ConcatProperties
<1>4. List(s \o t) /\ \A i \in 1..Len(s \o t) : (s \o t)[i] \in Range(s) \cup Range(t)
  BY <1>3, SeqIsList
<1> QED
  BY <1>4, ListIs DEF Range

\* The lists of n tools or files.
Lists(ss, n) == Len(ss) = n /\ List(ss) /\ \A i \in 1..n : List(ss[i])

LEMMA ListsOver ==
  ASSUME NEW ss, NEW n \in Nat, Lists(ss, n)
  PROVE  \E S : ss \in Seq(Seq(S)) /\ \A i \in 1..n : Range(ss[i]) \subseteq S
<1> DEFINE S == UNION {Range(ss[i]) : i \in 1..n}
<1>1. \A i \in 1..n : Range(ss[i]) \subseteq S
  OBVIOUS
<1> HIDE DEF S
<1>2. \A i \in 1..n : ss[i] \in Seq(S)
  <2>1. SUFFICES ASSUME NEW i \in 1..n  PROVE ss[i] \in Seq(S)
    OBVIOUS
  <2>2. ss[i] \in Seq(Range(ss[i]))
    BY RangeOfList DEF Lists
  <2> QED
    BY <1>1, <2>2, SeqMonotonic
<1>3. ss \in Seq(Seq(S))
  BY <1>2, ListOver DEF Lists
<1> QED
  BY <1>1, <1>3

LEMMA FlattenMakesList ==
  ASSUME NEW ss, NEW n \in Nat, Lists(ss, n)
  PROVE  List(FlattenSeq(ss))
<1>1. PICK S : ss \in Seq(Seq(S))
  BY ListsOver
<1>2. FlattenSeq(ss) \in Seq(S)
  BY <1>1, FlattenIsList
<1> QED
  BY <1>2, SeqIsList

LEMMA FlattenMore ==
  ASSUME NEW n \in Nat, NEW ss, NEW tt, Lists(ss, n), Lists(tt, n + 1),
         \A i \in 1..n : ss[i] = tt[i]
  PROVE  FlattenSeq(tt) = FlattenSeq(ss) \o tt[n + 1]
<1>0. n + 1 \in Nat /\ n + 1 \in 1..(n + 1)
  OBVIOUS
<1>1. PICK S : tt \in Seq(Seq(S)) /\ \A i \in 1..(n + 1) : Range(tt[i]) \subseteq S
  BY <1>0, ListsOver
<1>2. Len(ss) = n /\ List(ss) /\ Len(tt) = n + 1 /\ List(tt)
  BY DEF Lists
<1>3. \A i \in 1..(n + 1) : tt[i] \in Seq(S)
  BY <1>1, <1>2, ElementOfSeq
<1>4. ss \in Seq(Seq(S))
  <2>1. \A i \in 1..n : i \in 1..(n + 1)
    OBVIOUS
  <2>2. \A i \in 1..Len(ss) : ss[i] \in Seq(S)
    BY <1>2, <1>3, <2>1
  <2> QED
    BY <1>2, <2>2, ListOver
<1>5. tt = Append(ss, tt[n + 1])
  <2>1. ss = [i \in 1..n |-> ss[i]] /\ tt = [i \in 1..(n + 1) |-> tt[i]]
    BY <1>2, ListIs
  <2>2. PICK x : x = tt[n + 1]
    OBVIOUS
  <2>3. Append(ss, x) = [i \in 1..(n + 1) |-> IF i = n + 1 THEN x ELSE ss[i]]
    <3>1. x \in Seq(S)
      BY <1>0, <1>3, <2>2
    <3>2. PICK a : a = Append(ss, x)
      OBVIOUS
    <3>3. a \in Seq(Seq(S)) /\ Len(a) = n + 1 /\ (\A i \in 1..n : a[i] = ss[i]) /\ a[n + 1] = x
      BY <1>2, <1>4, <3>1, <3>2, AppendProperties
    <3>4. a = [i \in 1..(n + 1) |-> a[i]]
      BY <3>3, SeqIsList, ListIs
    <3>5. \A i \in 1..(n + 1) : i = n + 1 \/ (i # n + 1 /\ i \in 1..n)
      OBVIOUS
    <3>6. \A i \in 1..(n + 1) : a[i] = IF i = n + 1 THEN x ELSE ss[i]
      BY <3>3, <3>5
    <3>7. [i \in 1..(n + 1) |-> a[i]] = [i \in 1..(n + 1) |-> IF i = n + 1 THEN x ELSE ss[i]]
      BY <3>6
    <3> QED
      BY <3>2, <3>4, <3>7
  <2>4. \A i \in 1..(n + 1) : tt[i] = IF i = n + 1 THEN x ELSE ss[i]
    <3>1. \A i \in 1..(n + 1) : i = n + 1 \/ i \in 1..n
      OBVIOUS
    <3> QED
      BY <2>2, <3>1
  <2>5. [i \in 1..(n + 1) |-> tt[i]] = [i \in 1..(n + 1) |-> IF i = n + 1 THEN x ELSE ss[i]]
    BY <2>4
  <2> QED
    BY <2>1, <2>2, <2>3, <2>5
<1>6. tt[n + 1] \in Seq(S)
  BY <1>0, <1>3
<1>7. FlattenSeq(Append(ss, tt[n + 1])) = FlattenSeq(ss) \o tt[n + 1]
  BY <1>4, <1>6, FlattenAppend
<1> QED
  BY <1>5, <1>7

-----------------------------------------------------------------------------
(* One issue seen twice                                                     *)

\* A finding with a place in its file.
Sited(f) ==
  /\ f = [file |-> f.file, start |-> f.start, end |-> f.end, line |-> f.line, rule |-> f.rule,
          category |-> f.category, severity |-> f.severity, also |-> f.also]
  /\ Keyed(f) /\ f.end \in Nat

SitedList(s) == List(s) /\ \A i \in 1..Len(s) : Sited(s[i])

LEMMA EmptyIsSited == SitedList(<<>>)
<1>1. Len(<<>>) = 0
  OBVIOUS
<1> QED
  BY <1>1, EmptyIsList DEF SitedList

LEMMA SitedRange ==
  ASSUME NEW s, SitedList(s), NEW f \in Range(s)
  PROVE  Sited(f)
<1>1. DOMAIN s = 1..Len(s)
  <2>1. Len(s) \in Nat /\ s = [i \in 1..Len(s) |-> s[i]]
    BY ListIs DEF SitedList
  <2>2. PICK n : n = Len(s)
    OBVIOUS
  <2> QED
    BY <2>1, <2>2
<1> QED
  BY <1>1 DEF Range, SitedList

LEMMA KeepSited ==
  ASSUME NEW s, SitedList(s), NEW V
  PROVE  SitedList(Keep(s, V))
BY KeepMakesList, SitedRange DEF SitedList

LEMMA ConcatSited ==
  ASSUME NEW s, SitedList(s), NEW t, SitedList(t)
  PROVE  SitedList(s \o t)
<1>1. List(s \o t) /\ Range(s \o t) \subseteq Range(s) \cup Range(t)
  BY ConcatMakesList DEF SitedList
<1>2. \A i \in 1..Len(s \o t) : (s \o t)[i] \in Range(s \o t)
  BY <1>1, RangeOfList
<1> QED
  BY <1>1, <1>2, SitedRange DEF SitedList

LEMMA FlattenSited ==
  ASSUME NEW ss, NEW n \in Nat, Len(ss) = n, List(ss), \A i \in 1..n : SitedList(ss[i])
  PROVE  SitedList(FlattenSeq(ss))
<1> DEFINE S == UNION {Range(ss[i]) : i \in 1..n}
<1>1. \A f \in S : Sited(f)
  BY SitedRange
<1>2. \A i \in 1..n : Range(ss[i]) \subseteq S
  OBVIOUS
<1> HIDE DEF S
<1>3. ASSUME NEW i \in 1..n  PROVE ss[i] \in Seq(S)
  <2>1. ss[i] \in Seq(Range(ss[i]))
    BY RangeOfList DEF SitedList
  <2> QED
    BY <1>2, <2>1, SeqMonotonic
<1>4. ss \in Seq(Seq(S))
  BY <1>3, ListOver
<1>5. FlattenSeq(ss) \in Seq(S)
  BY <1>4, FlattenIsList
<1> QED
  BY <1>1, <1>5, SeqIsList DEF SitedList

LEMMA MergeSited ==
  ASSUME NEW a, Sited(a), NEW b, Sited(b)
  PROVE  Sited(MergeTwo(a, b))
<1>1. ASSUME NEW x, Sited(x), NEW y  PROVE Sited([x EXCEPT !.also = y])
  BY <1>1 DEF Sited, Keyed
<1> DEFINE first == \/ a.severity > b.severity
                    \/ (a.severity = b.severity /\ ~KeyLess(Key(b), Key(a)))
<1>2. CASE first
  <2>1. PICK y : y = (a.also \cup {OriginOf[b.rule]} \cup b.also) \ {OriginOf[a.rule]}
    OBVIOUS
  <2>2. MergeTwo(a, b) = [a EXCEPT !.also = y]
    BY <1>2, <2>1 DEF MergeTwo
  <2> QED
    BY <1>1, <2>2
<1>3. CASE ~first
  <2>1. PICK y : y = (b.also \cup {OriginOf[a.rule]} \cup a.also) \ {OriginOf[b.rule]}
    OBVIOUS
  <2>2. MergeTwo(a, b) = [b EXCEPT !.also = y]
    BY <1>3, <2>1 DEF MergeTwo
  <2> QED
    BY <1>1, <2>2
<1> QED
  BY <1>2, <1>3

\* An item more, or another one at the end.
LEMMA AppendSited ==
  ASSUME NEW s, SitedList(s), NEW f, Sited(f)
  PROVE  SitedList(Append(s, f))
<1>1. s \in Seq(Range(s) \cup {f})
  BY RangeOfList, SeqMonotonic DEF SitedList
<1>2. Append(s, f) \in Seq(Range(s) \cup {f})
  BY <1>1, AppendProperties
<1>3. \A g \in Range(s) \cup {f} : Sited(g)
  BY SitedRange
<1> QED
  BY <1>2, <1>3, SeqIsList DEF SitedList

LEMMA LastSited ==
  ASSUME NEW s, SitedList(s), s # <<>>, NEW f, Sited(f)
  PROVE  /\ Sited(s[Len(s)])
         /\ SitedList([s EXCEPT ![Len(s)] = f])
<1>1. PICK n \in Nat : n = Len(s) /\ s = [i \in 1..n |-> s[i]]
  BY ListIs DEF SitedList
<1>2. n # 0
  BY <1>1
<1>3. [s EXCEPT ![n] = f] = [i \in 1..n |-> IF i = n THEN f ELSE s[i]]
  BY <1>1
<1>4. PICK q : q = [i \in 1..n |-> IF i = n THEN f ELSE s[i]]
  OBVIOUS
<1>5. List(q) /\ Len(q) = n
  BY <1>4 DEF List
<1>6. \A i \in 1..n : Sited(q[i])
  BY <1>1, <1>4 DEF SitedList
<1>7. SitedList(q)
  BY <1>5, <1>6 DEF SitedList
<1>8. [s EXCEPT ![Len(s)] = f] = q
  BY <1>1, <1>3, <1>4
<1>9. Sited(s[Len(s)])
  <2>1. n \in 1..n
    BY <1>2
  <2> QED
    BY <1>1, <2>1 DEF SitedList
<1> QED
  BY <1>7, <1>8, <1>9

LEMMA JoinSited ==
  ASSUME NEW acc, SitedList(acc.out), NEW f, Sited(f)
  PROVE  SitedList(Join(acc, f).out)
<1>1. CASE acc.out # <<>> /\ f.start < acc.end
  <2>1. PICK out : out = acc.out
    OBVIOUS
  <2>2. Sited(out[Len(out)])
    BY <1>1, <2>1, LastSited
  <2>3. PICK m : m = MergeTwo(out[Len(out)], f)
    OBVIOUS
  <2>4. SitedList([out EXCEPT ![Len(out)] = m])
    BY <1>1, <2>1, <2>2, <2>3, MergeSited, LastSited
  <2>5. Len(out) \in DOMAIN out
    <3>1. Len(out) \in Nat /\ out = [i \in 1..Len(out) |-> out[i]]
      BY <2>1, ListIs DEF SitedList
    <3>2. Len(out) # 0
      BY <1>1, <2>1, <3>1
    <3>3. PICK n : n = Len(out)
      OBVIOUS
    <3> QED
      BY <3>1, <3>2, <3>3
  <2>6. [out EXCEPT ![Len(out)] = MergeTwo(@, f)] = [out EXCEPT ![Len(out)] = m]
    BY <2>3, <2>5
  <2>7. Join(acc, f).out = [out EXCEPT ![Len(out)] = MergeTwo(@, f)]
    BY <1>1, <2>1 DEF Join
  <2> QED
    BY <2>4, <2>6, <2>7
<1>2. CASE ~(acc.out # <<>> /\ f.start < acc.end)
  <2>1. Join(acc, f).out = Append(acc.out, f)
    BY <1>2 DEF Join
  <2> QED
    BY <2>1, AppendSited
<1> QED
  BY <1>1, <1>2

\* g holds what a sweep has after each of n findings.
Swept(g, spans, n) ==
  g = [i \in 0..n |-> IF i = 0 THEN [out |-> <<>>, end |-> 0] ELSE Join(g[i - 1], spans[i])]

LEMMA SweptExists ==
  ASSUME NEW spans, NEW m \in Nat
  PROVE  \E g : Swept(g, spans, m)
<1> DEFINE P == {n \in 0..m : \E g : Swept(g, spans, n)}
<1>1. 0 \in P
  <2> DEFINE g == [i \in 0..0 |-> [out |-> <<>>, end |-> 0]]
  <2>1. \A i \in 0..0 : g[i] = IF i = 0 THEN [out |-> <<>>, end |-> 0] ELSE Join(g[i - 1], spans[i])
    OBVIOUS
  <2>2. Swept(g, spans, 0)
    BY <2>1 DEF Swept
  <2> QED
    BY <2>2
<1>2. ASSUME NEW n \in 0..(m - 1), n \in P
      PROVE  n + 1 \in P
  <2>1. PICK f : Swept(f, spans, n)
    BY <1>2
  <2>2. PICK x : x = Join(f[n], spans[n + 1])
    OBVIOUS
  <2> DEFINE g == [i \in 0..(n + 1) |-> IF i = n + 1 THEN x ELSE f[i]]
  <2>3. ASSUME NEW i \in 0..(n + 1)
        PROVE  g[i] = IF i = 0 THEN [out |-> <<>>, end |-> 0] ELSE Join(g[i - 1], spans[i])
    <3>1. CASE i = 0
      <4>1. f[0] = [out |-> <<>>, end |-> 0]
        BY <2>1 DEF Swept
      <4> QED
        BY <3>1, <4>1
    <3>2. CASE i \in 1..n
      <4>1. f[i] = Join(f[i - 1], spans[i])
        BY <2>1, <3>2 DEF Swept
      <4>2. g[i] = f[i] /\ g[i - 1] = f[i - 1] /\ i # 0
        BY <3>2
      <4> HIDE DEF g
      <4> QED
        BY <4>1, <4>2
    <3>3. CASE i = n + 1
      <4>1. g[i] = x /\ g[i - 1] = f[n] /\ i # 0
        BY <3>3
      <4> HIDE DEF g
      <4> QED
        BY <2>2, <3>3, <4>1
    <3> QED
      BY <3>1, <3>2, <3>3
  <2>4. Swept(g, spans, n + 1)
    <3>1. g = [i \in 0..(n + 1) |-> g[i]]
      OBVIOUS
    <3> HIDE DEF g
    <3> QED
      BY <2>3, <3>1 DEF Swept
  <2> HIDE DEF g
  <2> QED
    BY <2>4
<1> HIDE DEF P
<1>3. m \in P
  BY <1>1, <1>2, Reaches
<1> QED
  BY <1>3 DEF P

\* A sweep is a run of Join over the findings in the order of their spans.
LEMMA SweepIs ==
  ASSUME NEW fs, Len(BySpan(fs)) \in Nat
  PROVE  \E g : Swept(g, BySpan(fs), Len(BySpan(fs))) /\ Sweep(fs) = g[Len(BySpan(fs))].out
<1> DEFINE spans == BySpan(fs)
           g == CHOOSE g : g = [n \in 0..Len(spans) |->
                  IF n = 0 THEN [out |-> <<>>, end |-> 0] ELSE Join(g[n - 1], spans[n])]
<1>1. Sweep(fs) = g[Len(spans)].out
  BY DEF Sweep
<1> HIDE DEF spans
<1>2. \E h : Swept(h, spans, Len(spans))
  BY SweptExists DEF spans
<1>3. Swept(g, spans, Len(spans))
  BY <1>2 DEF Swept
<1> HIDE DEF g
<1> QED
  BY <1>1, <1>3 DEF spans

\* The order that the spans of a list of findings put on its positions.
SpanBefore(fs, n) == {q \in (1..n) \X (1..n) : SpanLess(fs[q[1]], fs[q[2]])}

LEMMA BySpanSorts ==
  ASSUME NEW fs, NEW n \in Nat, Len(fs) = n, \A i \in 1..n : fs[i].start \in Nat /\ fs[i].end \in Nat
  PROVE  \E p : Sorts(p, SpanBefore(fs, n), n) /\ BySpan(fs) = [k \in 1..n |-> fs[p[k]]]
<1> DEFINE place == [i \in 1..n |-> SpanPlace(fs, i)]
<1>1. BySpan(fs) = Arrange(fs, place)
  BY DEF BySpan
<1>2. ASSUME NEW i \in 1..n  PROVE place[i] = Cardinality(UpTo(SpanBefore(fs, n), n, i))
  <2>1. {j \in 1..n : SpanLess(fs[j], fs[i]) \/ (~SpanLess(fs[i], fs[j]) /\ j <= i)}
          = UpTo(SpanBefore(fs, n), n, i)
    BY DEF UpTo, SpanBefore
  <2> QED
    BY <2>1 DEF SpanPlace
<1> HIDE DEF place
<1>3. Weak(SpanBefore(fs, n), n)
  <2>1. \A i, j \in 1..n : <<i, j>> \in SpanBefore(fs, n) <=> SpanLess(fs[i], fs[j])
    BY DEF SpanBefore
  <2>2. /\ \A i, j \in 1..n : ~ (SpanLess(fs[i], fs[j]) /\ SpanLess(fs[j], fs[i]))
        /\ \A i, j, k \in 1..n : SpanLess(fs[i], fs[j]) /\ SpanLess(fs[j], fs[k]) => SpanLess(fs[i], fs[k])
        /\ \A i, j, k \in 1..n :
             ~SpanLess(fs[i], fs[j]) /\ ~SpanLess(fs[j], fs[k]) => ~SpanLess(fs[i], fs[k])
    BY DEF SpanLess
  <2> QED
    BY <2>1, <2>2 DEF Weak
<1> QED
  BY <1>1, <1>2, <1>3, SortTakes

LEMMA BySpanSited ==
  ASSUME NEW fs, SitedList(fs)
  PROVE  SitedList(BySpan(fs)) /\ Len(BySpan(fs)) = Len(fs)
<1>1. PICK n \in Nat : n = Len(fs)
  BY ListIs DEF SitedList
<1>2. PICK p : Sorts(p, SpanBefore(fs, n), n) /\ BySpan(fs) = [k \in 1..n |-> fs[p[k]]]
  BY <1>1, BySpanSorts DEF SitedList, Sited, Keyed
<1>3. \A k \in 1..n : p[k] \in 1..n
  BY <1>2 DEF Sorts, Bijection, Injection
<1>4. PICK out : out = BySpan(fs)
  OBVIOUS
<1>5. out = [k \in 1..n |-> fs[p[k]]]
  BY <1>2, <1>4
<1>6. List(out) /\ Len(out) = n
  BY <1>5 DEF List
<1>7. \A k \in 1..n : Sited(out[k])
  BY <1>1, <1>3, <1>5 DEF SitedList
<1> QED
  BY <1>1, <1>4, <1>6, <1>7 DEF SitedList

LEMMA SweepSited ==
  ASSUME NEW fs, SitedList(fs)
  PROVE  SitedList(Sweep(fs))
<1>1. PICK spans : spans = BySpan(fs)
  OBVIOUS
<1>2. SitedList(spans)
  BY <1>1, BySpanSited
<1>3. PICK m \in Nat : m = Len(spans)
  BY <1>2, ListIs DEF SitedList
<1>4. PICK g : Swept(g, spans, m) /\ Sweep(fs) = g[m].out
  BY <1>1, <1>3, SweepIs
<1> DEFINE P == {i \in 0..m : SitedList(g[i].out)}
<1>5. 0 \in P
  <2>1. g[0].out = <<>>
    BY <1>4 DEF Swept
  <2> QED
    BY <2>1, EmptyIsSited
<1>6. ASSUME NEW i \in 0..(m - 1), i \in P
      PROVE  i + 1 \in P
  <2>1. i + 1 \in 0..m /\ i + 1 # 0 /\ (i + 1) - 1 = i /\ i + 1 \in 1..m
    OBVIOUS
  <2>2. g[i + 1] = Join(g[(i + 1) - 1], spans[i + 1])
    BY <1>4, <2>1 DEF Swept
  <2>3. Sited(spans[i + 1])
    BY <1>2, <1>3, <2>1 DEF SitedList
  <2>4. SitedList(g[i + 1].out)
    BY <1>6, <2>1, <2>2, <2>3, JoinSited
  <2> QED
    BY <2>1, <2>4
<1> HIDE DEF P
<1>7. m \in P
  BY <1>5, <1>6, Reaches
<1> QED
  BY <1>4, <1>7 DEF P

LEMMA InOrderSited ==
  ASSUME NEW fs, SitedList(fs)
  PROVE  SitedList(InOrder(fs))
<1>1. PICK n \in Nat : n = Len(fs)
  BY ListIs DEF SitedList
<1>2. PICK out : out = InOrder(fs)
  OBVIOUS
<1>0. \A i \in 1..n : Keyed(fs[i])
  BY <1>1 DEF SitedList, Sited
<1>3. out = [k \in 1..n |-> out[k]] /\ \A k \in 1..n : \E i \in 1..n : out[k] = fs[i]
  BY <1>0, <1>1, <1>2, InOrderTakes
<1>4. List(out) /\ Len(out) = n
  BY <1>3 DEF List
<1> QED
  BY <1>1, <1>2, <1>3, <1>4 DEF SitedList

\* Deduplication gives findings of a rule, at a place.
LEMMA DedupSited ==
  ASSUME NEW fs, SitedList(fs)
  PROVE  SitedList(DedupFindings(fs))
<1>1. PICK n \in Nat : n = Len(CategoryOrder)
  BY DEF CategoryOrder
<1> DEFINE ss == [i \in 1..n |-> Sweep(InCategory(fs, CategoryOrder[i]))]
<1>2. DedupFindings(fs) = InOrder(FlattenSeq(ss))
  BY <1>1 DEF DedupFindings
<1>3. Len(ss) = n /\ List(ss)
  BY DEF List
<1>4. \A i \in 1..n : SitedList(ss[i])
  BY KeepSited, SweepSited DEF InCategory
<1> HIDE DEF ss
<1> QED
  BY <1>2, <1>3, <1>4, FlattenSited, InOrderSited

-----------------------------------------------------------------------------
(* A tool's output                                                          *)

\* What is reported of a file becomes findings of that file.
LEMMA NormalizeOfFile ==
  ASSUME NEW file, NEW reported \in Seq([at : Nat, line : Nat, rule : Rules]), NEW over
  PROVE  /\ SitedList(Normalize(file, reported, over))
         /\ \A i \in 1..Len(Normalize(file, reported, over)) : Normalize(file, reported, over)[i].file = file
<1> DEFINE S == [at : Nat, line : Nat, rule : Rules]
           V == {e \in Range(reported) : CategoryMap[e.rule] # Unmapped \/ OriginOf[e.rule] \notin Curated}
           kept == Keep(reported, V)
           Category(e) == IF CategoryMap[e.rule] = Unmapped THEN "comment_style" ELSE CategoryMap[e.rule]
           Severity(e) == ResolveSeverity(Category(e), e.rule, over)
           Finding(e) == [file |-> file, start |-> e.at, end |-> e.at, line |-> e.line, rule |-> e.rule,
                          category |-> Category(e), severity |-> Severity(e), also |-> {}]
           fs == [i \in 1..Len(kept) |-> Finding(kept[i])]
<1>1. Normalize(file, reported, over) = InOrder(fs)
  BY DEF Normalize
<1> HIDE DEF V, Category, Severity
<1>2. kept \in Seq(S)
  BY KeepIsList
<1>3. PICK n \in Nat : n = Len(kept)
  BY <1>2, LenProperties
<1>4. \A i \in 1..n : kept[i] \in S
  BY <1>2, <1>3, ElementOfSeq
<1> HIDE DEF kept
<1>5. \A i \in 1..n : fs[i] = Finding(kept[i])
  BY <1>3
<1>6. Len(fs) = n
  BY <1>3
<1>7. ASSUME NEW i \in 1..n
      PROVE  Sited(fs[i]) /\ fs[i].file = file
  <2>1. PICK e : e = kept[i]
    OBVIOUS
  <2>2. PICK c : c = Category(e)
    OBVIOUS
  <2>3. PICK v : v = Severity(e)
    OBVIOUS
  <2>4. fs[i] = [file |-> file, start |-> e.at, end |-> e.at, line |-> e.line, rule |-> e.rule,
                 category |-> c, severity |-> v, also |-> {}]
    BY <1>5, <2>1, <2>2, <2>3
  <2>5. e.at \in Nat /\ e.line \in Nat /\ e.rule \in Rules
    BY <1>4, <2>1
  <2> HIDE DEF fs
  <2> QED
    BY <2>4, <2>5 DEF Sited, Keyed
<1> HIDE DEF fs
<1>8. /\ InOrder(fs) = [k \in 1..n |-> InOrder(fs)[k]]
      /\ \A k \in 1..n : \E i \in 1..n : InOrder(fs)[k] = fs[i]
  BY <1>6, <1>7, InOrderTakes DEF Sited
<1>9. List(InOrder(fs)) /\ Len(InOrder(fs)) = n
  BY <1>8 DEF List
<1>10. \A k \in 1..n : Sited(InOrder(fs)[k]) /\ InOrder(fs)[k].file = file
  BY <1>7, <1>8
<1> QED
  BY <1>1, <1>9, <1>10 DEF SitedList

\* A finding as a tool or a detector makes it.
Fair(f) ==
  /\ Sited(f) /\ f.start <= f.end /\ f.category \in Categories /\ f.severity \in Nat
  /\ f.also = {}

FairList(fs) == List(fs) /\ \A i \in 1..Len(fs) : Fair(fs[i])

LEMMA FairIsSited == ASSUME NEW fs, FairList(fs) PROVE SitedList(fs)
BY DEF FairList, Fair, SitedList

LEMMA EmptyIsFair == FairList(<<>>)
<1>1. Len(<<>>) = 0
  OBVIOUS
<1> QED
  BY <1>1, EmptyIsList DEF FairList

LEMMA FairRange ==
  ASSUME NEW s, FairList(s), NEW f \in Range(s)
  PROVE  Fair(f)
<1>1. Len(s) \in Nat /\ s = [i \in 1..Len(s) |-> s[i]]
  BY ListIs DEF FairList
<1>2. DOMAIN s = 1..Len(s)
  <2>1. PICK n : n = Len(s)
    OBVIOUS
  <2> QED
    BY <1>1, <2>1
<1> QED
  BY <1>2 DEF Range, FairList

LEMMA KeepFair ==
  ASSUME NEW s, FairList(s), NEW V
  PROVE  FairList(Keep(s, V))
BY KeepMakesList, FairRange DEF FairList

LEMMA ConcatFair ==
  ASSUME NEW s, FairList(s), NEW t, FairList(t)
  PROVE  FairList(s \o t)
<1>1. List(s \o t) /\ Range(s \o t) \subseteq Range(s) \cup Range(t)
  BY ConcatMakesList DEF FairList
<1>2. \A i \in 1..Len(s \o t) : (s \o t)[i] \in Range(s \o t)
  BY <1>1, RangeOfList
<1> QED
  BY <1>1, <1>2, FairRange DEF FairList

LEMMA FlattenFair ==
  ASSUME NEW ss, NEW n \in Nat, Len(ss) = n, List(ss), \A i \in 1..n : FairList(ss[i])
  PROVE  FairList(FlattenSeq(ss))
<1> DEFINE S == UNION {Range(ss[i]) : i \in 1..n}
<1>1. \A f \in S : Fair(f)
  BY FairRange
<1>2. \A i \in 1..n : Range(ss[i]) \subseteq S
  OBVIOUS
<1> HIDE DEF S
<1>3. ASSUME NEW i \in 1..n  PROVE ss[i] \in Seq(S)
  <2>1. ss[i] \in Seq(Range(ss[i]))
    BY RangeOfList DEF FairList
  <2> QED
    BY <1>2, <2>1, SeqMonotonic
<1>4. ss \in Seq(Seq(S))
  BY <1>3, ListOver
<1>5. FlattenSeq(ss) \in Seq(S)
  BY <1>4, FlattenIsList
<1> QED
  BY <1>1, <1>5, SeqIsList DEF FairList

LEMMA CanonicalIsSeverity == ASSUME NEW category PROVE CanonicalSeverity(category) \in Severities
BY DEF CanonicalSeverity, Severities, Info, Warning, Error, Critical

LEMMA SeverityIsNat == Severities \subseteq Nat
BY DEF Severities, Info, Critical

\* Overrides set severities, so that every finding has one.
LEMMA ResolveIsSeverity ==
  ASSUME NEW category, NEW rule, NEW over, \A k \in DOMAIN over : over[k] \in Severities
  PROVE  ResolveSeverity(category, rule, over) \in Severities
<1> DEFINE keys == <<rule, CanonOf[rule], category, OriginOf[rule]>>
           hits == {i \in 1..4 : keys[i] \in DOMAIN over}
           first == CHOOSE i \in hits : \A j \in hits : i <= j
<1>1. CanonicalSeverity(category) \in Severities
  BY CanonicalIsSeverity
<1>2. ResolveSeverity(category, rule, over)
        = IF hits = {} THEN CanonicalSeverity(category) ELSE over[keys[first]]
  BY DEF ResolveSeverity
<1>3. ASSUME hits # {}  PROVE keys[first] \in DOMAIN over
  <2>0. hits \subseteq 1..4
    OBVIOUS
  <2>1. \E i \in hits : \A j \in hits : i <= j
    <3> HIDE DEF hits
    <3>1. PICK x \in hits : TRUE
      BY <1>3
    <3>2. x = 1 \/ x = 2 \/ x = 3 \/ x = 4
      BY <2>0
    <3>3. 1 \in hits \/ 2 \in hits \/ 3 \in hits \/ 4 \in hits
      BY <3>2
    <3>4. \A j \in hits : j = 1 \/ j = 2 \/ j = 3 \/ j = 4
      BY <2>0
    <3> QED
      BY <3>3, <3>4
  <2>2. first \in hits
    <3> HIDE DEF hits
    <3> QED
      BY <2>1
  <2> HIDE DEF first, keys
  <2> QED
    BY <2>2
<1> HIDE DEF keys, hits, first
<1> QED
  BY <1>1, <1>2, <1>3

\* What a tool's output becomes is a list such as deduplication is about.
LEMMA NormalizeIsFair ==
  ASSUME NEW file, NEW reported \in Seq([at : Nat, line : Nat, rule : Rules]),
         NEW over, \A k \in DOMAIN over : over[k] \in Severities
  PROVE  FairList(Normalize(file, reported, over))
<1> DEFINE S == [at : Nat, line : Nat, rule : Rules]
           V == {e \in Range(reported) : CategoryMap[e.rule] # Unmapped \/ OriginOf[e.rule] \notin Curated}
           kept == Keep(reported, V)
           Category(e) == IF CategoryMap[e.rule] = Unmapped THEN "comment_style" ELSE CategoryMap[e.rule]
           Severity(e) == ResolveSeverity(Category(e), e.rule, over)
           Finding(e) == [file |-> file, start |-> e.at, end |-> e.at, line |-> e.line, rule |-> e.rule,
                          category |-> Category(e), severity |-> Severity(e), also |-> {}]
           fs == [i \in 1..Len(kept) |-> Finding(kept[i])]
<1>1. Normalize(file, reported, over) = InOrder(fs)
  BY DEF Normalize
<1>2. ASSUME NEW e \in S  PROVE Category(e) \in Categories
  <2>1. CategoryMap[e.rule] \in Categories \cup {Unmapped}
    BY FindingsAssumption
  <2>2. "comment_style" \in Categories
    BY DEF Categories, CategoryOrder
  <2> QED
    BY <2>1, <2>2
<1>3. \A e \in S : Severity(e) \in Nat
  BY ResolveIsSeverity, SeverityIsNat
<1> HIDE DEF V, Category, Severity
<1>4. kept \in Seq(S)
  BY KeepIsList
<1>5. PICK n \in Nat : n = Len(kept)
  BY <1>4, LenProperties
<1>6. \A i \in 1..n : kept[i] \in S
  BY <1>4, <1>5, ElementOfSeq
<1> HIDE DEF kept
<1>7. Len(fs) = n /\ \A i \in 1..n : fs[i] = Finding(kept[i])
  BY <1>5
<1>8. ASSUME NEW i \in 1..n  PROVE Fair(fs[i])
  <2>1. PICK e \in S : e = kept[i]
    BY <1>6
  <2>2. PICK c \in Categories : c = Category(e)
    BY <1>2
  <2>3. PICK v \in Nat : v = Severity(e)
    BY <1>3
  <2>4. fs[i] = [file |-> file, start |-> e.at, end |-> e.at, line |-> e.line, rule |-> e.rule,
                 category |-> c, severity |-> v, also |-> {}]
    BY <1>7, <2>1, <2>2, <2>3
  <2> HIDE DEF fs
  <2> QED
    BY <2>4 DEF Fair, Sited, Keyed
<1> HIDE DEF fs
<1>9. /\ InOrder(fs) = [k \in 1..n |-> InOrder(fs)[k]]
      /\ \A k \in 1..n : \E i \in 1..n : InOrder(fs)[k] = fs[i]
  BY <1>7, <1>8, InOrderTakes DEF Fair, Sited
<1>10. List(InOrder(fs)) /\ Len(InOrder(fs)) = n
  BY <1>9 DEF List
<1>11. \A k \in 1..n : Fair(InOrder(fs)[k])
  BY <1>8, <1>9
<1> QED
  BY <1>1, <1>10, <1>11 DEF FairList

-----------------------------------------------------------------------------
(* Clusters                                                                 *)

LEMMA PrecedesOrder ==
  ASSUME NEW f, NEW g, NEW h, Sited(f), Sited(g), Sited(h)
  PROVE  /\ ~Precedes(f, f)
         /\ ~(Precedes(f, g) /\ Precedes(g, f))
         /\ ~Precedes(h, g) /\ ~Precedes(g, f) => ~Precedes(h, f)
         /\ ~Precedes(f, g) /\ ~Precedes(g, f) => Key(f) = Key(g) /\ f.end = g.end
<1>1. Keyed(f) /\ Keyed(g) /\ Keyed(h)
  BY DEF Sited
<1>2. PICK a \in Nat \X Nat \X Nat : a = Key(f)
  BY <1>1, KeyIsTriple
<1>3. PICK b \in Nat \X Nat \X Nat : b = Key(g)
  BY <1>1, KeyIsTriple
<1>4. PICK c \in Nat \X Nat \X Nat : c = Key(h)
  BY <1>1, KeyIsTriple
<1>5. PICK x \in Nat : x = f.end
  BY DEF Sited
<1>6. PICK y \in Nat : y = g.end
  BY DEF Sited
<1>7. PICK z \in Nat : z = h.end
  BY DEF Sited
<1>8. /\ ~KeyLess(a, a)
      /\ ~(KeyLess(a, b) /\ KeyLess(b, a))
      /\ ~KeyLess(c, b) /\ ~KeyLess(b, a) => ~KeyLess(c, a)
      /\ ~(KeyLess(c, b) /\ KeyLess(b, c))
  BY KeyOrder
<1>9. (~KeyLess(a, b) /\ ~KeyLess(b, a) => a = b) /\ (~KeyLess(c, b) /\ ~KeyLess(b, c) => c = b)
  BY KeyTotal
<1>10. /\ Precedes(f, f) <=> KeyLess(a, a) \/ (a = a /\ x < x)
       /\ Precedes(f, g) <=> KeyLess(a, b) \/ (a = b /\ x < y)
       /\ Precedes(g, f) <=> KeyLess(b, a) \/ (b = a /\ y < x)
       /\ Precedes(h, g) <=> KeyLess(c, b) \/ (c = b /\ z < y)
       /\ Precedes(h, f) <=> KeyLess(c, a) \/ (c = a /\ z < x)
  BY <1>2, <1>3, <1>4, <1>5, <1>6, <1>7 DEF Precedes
<1>11. ~(x < x) /\ ~(x < y /\ y < x) /\ (~(x < y) /\ ~(y < x) => x = y)
       /\ (~(z < y) /\ ~(y < x) => ~(z < x))
  OBVIOUS
<1>12. ~Precedes(f, f)
  BY <1>8, <1>10, <1>11
<1>13. ~(Precedes(f, g) /\ Precedes(g, f))
  <2>1. a = b => ~KeyLess(a, b) /\ ~KeyLess(b, a)
    BY <1>8
  <2> QED
    BY <1>8, <1>10, <1>11, <2>1
<1>14. ~Precedes(f, g) /\ ~Precedes(g, f) => a = b /\ x = y
  <2>1. ~Precedes(f, g) /\ ~Precedes(g, f) => a = b
    BY <1>9, <1>10
  <2> QED
    BY <1>10, <1>11, <2>1
<1>15. ASSUME ~Precedes(h, g), ~Precedes(g, f), Precedes(h, f)  PROVE FALSE
  <2>1. ~KeyLess(c, b) /\ ~KeyLess(b, a)
    BY <1>10, <1>15
  <2>2. c = a /\ z < x
    BY <1>8, <1>10, <1>15, <2>1
  <2>3. ~KeyLess(b, c) /\ c = b
    BY <1>9, <2>1, <2>2
  <2>4. ~(z < y) /\ ~(y < x)
    BY <1>10, <1>15, <2>2, <2>3
  <2> QED
    BY <1>11, <2>2, <2>4
<1> QED
  BY <1>2, <1>3, <1>5, <1>6, <1>12, <1>13, <1>14, <1>15

\* i is worse than j, or as bad and not after it.
Outranks(fs, i, j) ==
  \/ fs[i].severity > fs[j].severity
  \/ fs[i].severity = fs[j].severity /\ ~Precedes(fs[j], fs[i])

LEMMA OutranksIs ==
  ASSUME NEW fs, FairList(fs), NEW i \in 1..Len(fs), NEW j \in 1..Len(fs), NEW k \in 1..Len(fs)
  PROVE  /\ Outranks(fs, i, i)
         /\ Outranks(fs, i, j) \/ Outranks(fs, j, i)
         /\ Outranks(fs, i, j) /\ Outranks(fs, j, k) => Outranks(fs, i, k)
<1>1. /\ fs[i].severity \in Nat /\ fs[j].severity \in Nat /\ fs[k].severity \in Nat
      /\ Sited(fs[i]) /\ Sited(fs[j]) /\ Sited(fs[k])
  BY DEF FairList, Fair
<1>2. PICK a : a = fs[i]
  OBVIOUS
<1>3. PICK b : b = fs[j]
  OBVIOUS
<1>4. PICK c : c = fs[k]
  OBVIOUS
<1>5. /\ ~Precedes(a, a)
      /\ ~(Precedes(a, b) /\ Precedes(b, a))
      /\ ~Precedes(c, b) /\ ~Precedes(b, a) => ~Precedes(c, a)
  BY <1>1, <1>2, <1>3, <1>4, PrecedesOrder
<1>6. PICK u \in Nat : u = fs[i].severity
  BY <1>1
<1>7. PICK v \in Nat : v = fs[j].severity
  BY <1>1
<1>8. PICK w \in Nat : w = fs[k].severity
  BY <1>1
<1>9. /\ Outranks(fs, i, i) <=> (u > u \/ (u = u /\ ~Precedes(a, a)))
      /\ Outranks(fs, i, j) <=> (u > v \/ (u = v /\ ~Precedes(b, a)))
      /\ Outranks(fs, j, i) <=> (v > u \/ (v = u /\ ~Precedes(a, b)))
      /\ Outranks(fs, j, k) <=> (v > w \/ (v = w /\ ~Precedes(c, b)))
      /\ Outranks(fs, i, k) <=> (u > w \/ (u = w /\ ~Precedes(c, a)))
  BY <1>2, <1>3, <1>4, <1>6, <1>7, <1>8 DEF Outranks
<1>10. Outranks(fs, i, i) /\ (Outranks(fs, i, j) \/ Outranks(fs, j, i))
  <2>1. u > v \/ v > u \/ u = v
    OBVIOUS
  <2> QED
    BY <1>5, <1>9, <2>1
<1>11. ASSUME Outranks(fs, i, j), Outranks(fs, j, k)  PROVE Outranks(fs, i, k)
  <2>1. (u > v \/ u = v) /\ (v > w \/ v = w)
    BY <1>9, <1>11
  <2>2. CASE u > w
    BY <1>9, <2>2
  <2>3. CASE ~(u > w)
    <3>1. u = v /\ v = w /\ ~(u > v) /\ ~(v > w)
      BY <2>1, <2>3
    <3>2. ~Precedes(b, a) /\ ~Precedes(c, b)
      BY <1>9, <1>11, <3>1
    <3>3. ~Precedes(c, a)
      BY <1>5, <3>2
    <3> QED
      BY <1>9, <3>1, <3>3
  <2> QED
    BY <2>2, <2>3
<1> QED
  BY <1>10, <1>11

\* The origins of some of them.
Origins(fs, S) == {OriginOf[fs[j].rule] : j \in S}

\* StandsFor with its representative.
LEMMA StandsForIs ==
  ASSUME NEW f, NEW fs, NEW S
  PROVE  StandsFor(f, fs, S) <=>
           \E i \in S : /\ \A j \in S : Outranks(fs, i, j)
                        /\ f = [fs[i] EXCEPT !.also = Origins(fs, S) \ {OriginOf[fs[i].rule]}]
BY DEF StandsFor, Outranks, Origins

LEMMA OneStands ==
  ASSUME NEW fs, FairList(fs), NEW i \in 1..Len(fs)
  PROVE  StandsFor(fs[i], fs, {i})
<1>1. Outranks(fs, i, i)
  BY OutranksIs
<1>2. Origins(fs, {i}) \ {OriginOf[fs[i].rule]} = {}
  BY DEF Origins
<1>3. fs[i] = [fs[i] EXCEPT !.also = {}]
  <2>1. PICK f : f = fs[i]
    OBVIOUS
  <2>2. Fair(f)
    BY <2>1 DEF FairList
  <2>3. f = [f EXCEPT !.also = {}]
    BY <2>2 DEF Fair, Sited
  <2> QED
    BY <2>1, <2>3
<1> QED
  BY <1>1, <1>2, <1>3, StandsForIs

\* What stands for some findings, merged with one that does not come before them,
\* stands for them all.
LEMMA MergeStands ==
  ASSUME NEW fs, FairList(fs), NEW S \in SUBSET (1..Len(fs)), NEW f, StandsFor(f, fs, S),
         NEW i \in 1..Len(fs), \A j \in S : ~SpanLess(fs[i], fs[j])
  PROVE  StandsFor(MergeTwo(f, fs[i]), fs, S \cup {i})
<1>1. PICK r \in S : /\ \A j \in S : Outranks(fs, r, j)
                     /\ f = [fs[r] EXCEPT !.also = Origins(fs, S) \ {OriginOf[fs[r].rule]}]
  BY StandsForIs
<1>2. PICK a : a = fs[r]
  OBVIOUS
<1>3. PICK b : b = fs[i]
  OBVIOUS
<1>4. PICK O : O = Origins(fs, S)
  OBVIOUS
<1>5. PICK x : x = OriginOf[a.rule]
  OBVIOUS
<1>6. PICK y : y = OriginOf[b.rule]
  OBVIOUS
<1>7. Fair(a) /\ Fair(b)
  BY <1>2, <1>3 DEF FairList
<1>8. f = [a EXCEPT !.also = O \ {x}] /\ x \in O
  BY <1>1, <1>2, <1>4, <1>5 DEF Origins
<1>9. Origins(fs, S \cup {i}) = O \cup {y}
  BY <1>3, <1>4, <1>6 DEF Origins
<1>10. /\ f.rule = a.rule /\ f.line = a.line /\ f.start = a.start /\ f.severity = a.severity
       /\ f.also = O \ {x} /\ b.also = {}
  BY <1>7, <1>8 DEF Fair, Sited
<1>11. Key(f) = Key(a)
  BY <1>10 DEF Key
<1>12. CASE Outranks(fs, r, i)
  <2>1. a.severity > b.severity \/ (a.severity = b.severity /\ ~KeyLess(Key(b), Key(a)))
    BY <1>2, <1>3, <1>12 DEF Outranks, Precedes
  <2>2. MergeTwo(f, b) = [f EXCEPT !.also = (f.also \cup {y} \cup b.also) \ {x}]
    <3>1. PICK z : z = (f.also \cup {y} \cup b.also) \ {x}
      OBVIOUS
    <3>2. [f EXCEPT !.also = (@ \cup {OriginOf[b.rule]} \cup b.also) \ {OriginOf[f.rule]}]
            = [f EXCEPT !.also = z]
      <4>1. (f.also \cup {OriginOf[b.rule]} \cup b.also) \ {OriginOf[f.rule]} = z
        BY <1>5, <1>6, <1>10, <3>1
      <4> QED
        BY <4>1
    <3>3. f.severity > b.severity \/ (f.severity = b.severity /\ ~KeyLess(Key(b), Key(f)))
      BY <1>10, <1>11, <2>1
    <3>4. MergeTwo(f, b) = [f EXCEPT !.also = (@ \cup {OriginOf[b.rule]} \cup b.also) \ {OriginOf[f.rule]}]
      BY <3>3 DEF MergeTwo
    <3> QED
      BY <3>1, <3>2, <3>4
  <2>3. (f.also \cup {y} \cup b.also) \ {x} = (O \cup {y}) \ {x}
    BY <1>10
  <2>4. PICK z : z = (O \cup {y}) \ {x}
    OBVIOUS
  <2>5. MergeTwo(f, b) = [a EXCEPT !.also = z]
    <3>1. MergeTwo(f, b) = [f EXCEPT !.also = z]
      BY <2>2, <2>3, <2>4
    <3> QED
      BY <1>8, <3>1
  <2>6. \A j \in S \cup {i} : Outranks(fs, r, j)
    BY <1>1, <1>12
  <2> QED
    BY <1>2, <1>3, <1>5, <1>9, <2>4, <2>5, <2>6, StandsForIs
<1>13. CASE ~Outranks(fs, r, i)
  <2>1. ~(f.severity > b.severity \/ (f.severity = b.severity /\ ~KeyLess(Key(b), Key(f))))
    <3>1. Key(b) = Key(a) => ~(b.end < a.end)
      <4>1. ~SpanLess(b, a)
        BY <1>1, <1>2, <1>3
      <4>2. Key(b) = Key(a) => b.start = a.start
        BY DEF Key
      <4> QED
        BY <4>1, <4>2 DEF SpanLess
    <3>2. Precedes(b, a) => KeyLess(Key(b), Key(a))
      BY <3>1 DEF Precedes
    <3> QED
      BY <1>2, <1>3, <1>10, <1>11, <1>13, <3>2 DEF Outranks
  <2>2. MergeTwo(f, b) = [b EXCEPT !.also = (@ \cup {OriginOf[f.rule]} \cup f.also) \ {OriginOf[b.rule]}]
    BY <2>1 DEF MergeTwo
  <2>3. (b.also \cup {OriginOf[f.rule]} \cup f.also) \ {OriginOf[b.rule]} = (O \cup {y}) \ {y}
    BY <1>5, <1>6, <1>8, <1>10
  <2>4. PICK z : z = (O \cup {y}) \ {y}
    OBVIOUS
  <2>5. MergeTwo(f, b) = [b EXCEPT !.also = z]
    BY <2>2, <2>3, <2>4
  <2>6. \A j \in S \cup {i} : Outranks(fs, i, j)
    <3>1. r \in 1..Len(fs) /\ \A j \in S : j \in 1..Len(fs)
      OBVIOUS
    <3>2. Outranks(fs, i, r) /\ Outranks(fs, i, i)
      BY <1>13, <3>1, OutranksIs
    <3> QED
      BY <1>1, <3>1, <3>2, OutranksIs
  <2>7. MergeTwo(f, fs[i]) = [fs[i] EXCEPT !.also = Origins(fs, S \cup {i}) \ {OriginOf[fs[i].rule]}]
    BY <1>3, <1>6, <1>9, <2>4, <2>5
  <2> QED
    BY <2>6, <2>7, StandsForIs
<1> QED
  BY <1>12, <1>13

\* No set that is closed under overlaps parts S.
Tight(fs, S) ==
  \A T \in SUBSET (1..Len(fs)) : ClosedUnderIssues(fs, T) /\ T \cap S # {} => S \subseteq T

\* What a sweep over the findings of D has so far: of tells which of them an item
\* of the output stands for.  Those of an earlier item end where those of a later
\* one start, or before.
SweptSoFar(fs, D, acc, of) ==
  /\ List(acc.out)
  /\ \A k \in 1..Len(acc.out) : of[k] \subseteq D /\ StandsFor(acc.out[k], fs, of[k]) /\ Tight(fs, of[k])
  /\ \A i \in D : \E k \in 1..Len(acc.out) : i \in of[k]
  /\ \A k, l \in 1..Len(acc.out) : k < l =>
       of[k] \cap of[l] = {} /\ \A i \in of[k], j \in of[l] : fs[i].end <= fs[j].start
  /\ acc.out # <<>> =>
       /\ acc.end \in Nat
       /\ \A i \in of[Len(acc.out)] : fs[i].end <= acc.end
       /\ \E i \in of[Len(acc.out)] : fs[i].end = acc.end

\* The findings of D come before x, and are of its category.
ComesNext(fs, D, x) ==
  /\ D \subseteq 1..Len(fs) /\ x \in 1..Len(fs) /\ x \notin D
  /\ \A i \in D : fs[i].category = fs[x].category /\ ~SpanLess(fs[x], fs[i])

LEMMA NextStartsLater ==
  ASSUME NEW fs, FairList(fs), NEW D, NEW x, ComesNext(fs, D, x), NEW i \in D
  PROVE  /\ fs[i].start \in Nat /\ fs[i].end \in Nat /\ fs[x].start \in Nat /\ fs[x].end \in Nat
         /\ fs[i].start <= fs[x].start
         /\ fs[x].start < fs[i].end => SameIssue(fs, i, x)
<1>1. i \in 1..Len(fs) /\ x \in 1..Len(fs) /\ ~SpanLess(fs[x], fs[i])
      /\ fs[i].category = fs[x].category
  BY DEF ComesNext
<1>2. Fair(fs[i]) /\ Fair(fs[x])
  BY <1>1 DEF FairList
<1>3. PICK a \in Nat : a = fs[i].start
  BY <1>2 DEF Fair, Sited, Keyed
<1>4. PICK b \in Nat : b = fs[i].end
  BY <1>2 DEF Fair, Sited
<1>5. PICK c \in Nat : c = fs[x].start
  BY <1>2 DEF Fair, Sited, Keyed
<1>6. PICK d \in Nat : d = fs[x].end
  BY <1>2 DEF Fair, Sited
<1>7. a <= b /\ c <= d /\ ~(c < a \/ (c = a /\ d < b))
  BY <1>1, <1>2, <1>3, <1>4, <1>5, <1>6 DEF Fair, SpanLess
<1>8. a <= c /\ (c < b => a < d)
  BY <1>7
<1>9. c < b => Overlaps(fs[i], fs[x])
  BY <1>3, <1>4, <1>5, <1>6, <1>8 DEF Overlaps
<1> QED
  BY <1>1, <1>3, <1>4, <1>5, <1>6, <1>8, <1>9 DEF SameIssue

\* A finding that overlaps one of S belongs with S.
LEMMA TightMore ==
  ASSUME NEW fs, NEW S \in SUBSET (1..Len(fs)), Tight(fs, S), NEW i \in S, NEW x \in 1..Len(fs),
         SameIssue(fs, i, x)
  PROVE  Tight(fs, S \cup {x})
<1> SUFFICES ASSUME NEW T \in SUBSET (1..Len(fs)), ClosedUnderIssues(fs, T), T \cap (S \cup {x}) # {}
             PROVE  S \cup {x} \subseteq T
  BY DEF Tight
<1>1. SameIssue(fs, x, i)
  BY DEF SameIssue, Overlaps
<1>2. x \in T => i \in T
  BY <1>1 DEF ClosedUnderIssues
<1>3. T \cap S # {}
  BY <1>2
<1>4. S \subseteq T
  BY <1>3 DEF Tight
<1>5. x \in T
  BY <1>4 DEF ClosedUnderIssues
<1> QED
  BY <1>4, <1>5

LEMMA AppendIs ==
  ASSUME NEW s, List(s), NEW f
  PROVE  /\ List(Append(s, f)) /\ Len(s) \in Nat /\ Len(Append(s, f)) = Len(s) + 1
         /\ \A k \in 1..Len(s) : Append(s, f)[k] = s[k]
         /\ Append(s, f)[Len(s) + 1] = f
<1>1. PICK S : s \in Seq(S) /\ f \in S
  <2>1. s \in Seq(Range(s) \cup {f})
    BY RangeOfList, SeqMonotonic
  <2> QED
    BY <2>1
<1>2. Append(s, f) \in Seq(S)
  BY <1>1, AppendProperties
<1>3. List(Append(s, f))
  BY <1>2, SeqIsList
<1> QED
  BY <1>1, <1>3, AppendProperties, LenProperties

LEMMA TightOne == ASSUME NEW fs, NEW x PROVE Tight(fs, {x})
BY DEF Tight

\* It joins the cluster at hand.
LEMMA SweepJoins ==
  ASSUME NEW fs, FairList(fs), NEW D, NEW x, ComesNext(fs, D, x), NEW acc, NEW of,
         SweptSoFar(fs, D, acc, of), acc.out # <<>>, fs[x].start < acc.end
  PROVE  \E more : SweptSoFar(fs, D \cup {x}, Join(acc, fs[x]), more)
<1>1. PICK m \in Nat : m = Len(acc.out) /\ acc.out = [k \in 1..m |-> acc.out[k]]
  BY ListIs DEF SweptSoFar
<1>2. m # 0 /\ m \in 1..m
  <2>1. m # 0
    BY <1>1
  <2> QED
    BY <2>1
<1>3. PICK f : f = MergeTwo(acc.out[m], fs[x])
  OBVIOUS
<1>4. PICK out : out = [k \in 1..m |-> IF k = m THEN f ELSE acc.out[k]]
  OBVIOUS
<1>5. PICK end : end = IF fs[x].end > acc.end THEN fs[x].end ELSE acc.end
  OBVIOUS
<1>6. Join(acc, fs[x]) = [out |-> out, end |-> end]
  <2>1. [acc.out EXCEPT ![Len(acc.out)] = MergeTwo(@, fs[x])] = out
    BY <1>1, <1>2, <1>3, <1>4
  <2>2. Join(acc, fs[x]) = [out |-> [acc.out EXCEPT ![Len(acc.out)] = MergeTwo(@, fs[x])],
                            end |-> IF fs[x].end > acc.end THEN fs[x].end ELSE acc.end]
    BY DEF Join
  <2> QED
    BY <1>5, <2>1, <2>2
<1>7. PICK more : more = [k \in 1..m |-> IF k = m THEN of[m] \cup {x} ELSE of[k]]
  OBVIOUS
<1>8. D \subseteq 1..Len(fs) /\ x \in 1..Len(fs) /\ x \notin D
  BY DEF ComesNext
<1>9. List(out) /\ Len(out) = m
  BY <1>4 DEF List
<1>10. \A k \in 1..m : of[k] \subseteq D /\ StandsFor(acc.out[k], fs, of[k]) /\ Tight(fs, of[k])
  BY <1>1 DEF SweptSoFar
<1>11. /\ acc.end \in Nat
       /\ \A i \in of[m] : fs[i].end <= acc.end
       /\ \E i \in of[m] : fs[i].end = acc.end
  BY <1>1 DEF SweptSoFar
<1>12. PICK last \in of[m] : fs[last].end = acc.end
  BY <1>11
<1>13. last \in D /\ of[m] \in SUBSET (1..Len(fs))
  BY <1>2, <1>8, <1>10
<1>14. SameIssue(fs, last, x) /\ fs[x].end \in Nat /\ fs[x].start \in Nat
  BY <1>12, <1>13, NextStartsLater
<1>15. ASSUME NEW k \in 1..m
       PROVE  more[k] \subseteq D \cup {x} /\ StandsFor(out[k], fs, more[k]) /\ Tight(fs, more[k])
  <2>1. CASE k = m
    <3>1. StandsFor(f, fs, of[m] \cup {x})
      <4>1. \A j \in of[m] : ~SpanLess(fs[x], fs[j])
        BY <1>2, <1>10 DEF ComesNext
      <4> QED
        BY <1>2, <1>3, <1>8, <1>10, <1>13, <4>1, MergeStands
    <3>2. Tight(fs, of[m] \cup {x})
      BY <1>2, <1>8, <1>10, <1>12, <1>13, <1>14, TightMore
    <3>3. more[k] = of[m] \cup {x} /\ out[k] = f
      BY <1>4, <1>7, <2>1
    <3> QED
      BY <1>2, <1>10, <3>1, <3>2, <3>3
  <2>2. CASE k # m
    BY <1>4, <1>7, <1>10, <2>2
  <2> QED
    BY <2>1, <2>2
<1>16. ASSUME NEW i \in D \cup {x}
       PROVE  \E k \in 1..m : i \in more[k]
  <2>1. CASE i = x
    BY <1>2, <1>7, <2>1
  <2>2. CASE i \in D
    <3>1. PICK k \in 1..m : i \in of[k]
      BY <1>1, <2>2 DEF SweptSoFar
    <3>2. i \in more[k]
      BY <1>7, <3>1
    <3> QED
      BY <3>2
  <2> QED
    BY <2>1, <2>2
<1>17. ASSUME NEW k \in 1..m, NEW l \in 1..m, k < l
       PROVE  more[k] \cap more[l] = {} /\ \A i \in more[k], j \in more[l] : fs[i].end <= fs[j].start
  <2>1. more[k] = of[k] /\ more[l] \subseteq of[l] \cup {x}
    BY <1>7, <1>17
  <2>2. of[k] \cap of[l] = {} /\ \A i \in of[k], j \in of[l] : fs[i].end <= fs[j].start
    BY <1>1, <1>17 DEF SweptSoFar
  <2>3. x \notin of[k]
    BY <1>8, <1>10
  <2>4. ASSUME l = m, NEW i \in of[k]  PROVE fs[i].end <= fs[x].start
    <3>1. fs[i].end <= fs[last].start
      BY <2>2, <2>4
    <3>2. i \in D
      BY <1>10
    <3>3. fs[last].start <= fs[x].start /\ fs[last].start \in Nat /\ fs[i].end \in Nat
      BY <1>13, <3>2, NextStartsLater
    <3> QED
      BY <1>14, <3>1, <3>3
  <2>5. l # m => more[l] = of[l]
    BY <1>7
  <2> QED
    BY <2>1, <2>2, <2>3, <2>4, <2>5
<1>18. /\ end \in Nat
       /\ \A i \in more[m] : fs[i].end <= end
       /\ \E i \in more[m] : fs[i].end = end
  <2>1. end \in Nat /\ acc.end <= end /\ fs[x].end <= end /\ (end = fs[x].end \/ end = acc.end)
    BY <1>5, <1>11, <1>14
  <2>2. more[m] = of[m] \cup {x}
    BY <1>2, <1>7
  <2>3. ASSUME NEW i \in of[m]  PROVE fs[i].end <= end
    <3>1. i \in D
      BY <1>2, <1>10
    <3>2. fs[i].end \in Nat
      BY <3>1, NextStartsLater
    <3> QED
      BY <1>11, <2>1, <3>2
  <2> QED
    BY <1>12, <2>1, <2>2, <2>3
<1>19. SweptSoFar(fs, D \cup {x}, [out |-> out, end |-> end], more)
  BY <1>9, <1>15, <1>16, <1>17, <1>18 DEF SweptSoFar
<1> QED
  BY <1>6, <1>19

\* Or it starts the next one.
LEMMA SweepParts ==
  ASSUME NEW fs, FairList(fs), NEW D, NEW x, ComesNext(fs, D, x), NEW acc, NEW of,
         SweptSoFar(fs, D, acc, of), ~(acc.out # <<>> /\ fs[x].start < acc.end)
  PROVE  \E more : SweptSoFar(fs, D \cup {x}, Join(acc, fs[x]), more)
<1>1. PICK m \in Nat : m = Len(acc.out) /\ acc.out = [k \in 1..m |-> acc.out[k]]
  BY ListIs DEF SweptSoFar
<1>2. PICK f : f = fs[x]
  OBVIOUS
<1>3. PICK out : out = Append(acc.out, f)
  OBVIOUS
<1>4. Join(acc, fs[x]) = [out |-> out, end |-> f.end]
  BY <1>2, <1>3 DEF Join
<1>5. PICK more : more = [k \in 1..(m + 1) |-> IF k = m + 1 THEN {x} ELSE of[k]]
  OBVIOUS
<1>6. D \subseteq 1..Len(fs) /\ x \in 1..Len(fs) /\ x \notin D
  BY DEF ComesNext
<1>7. List(out) /\ Len(out) = m + 1 /\ (\A k \in 1..m : out[k] = acc.out[k]) /\ out[m + 1] = f
  BY <1>1, <1>3, AppendIs DEF SweptSoFar
<1>8. \A k \in 1..m : of[k] \subseteq D /\ StandsFor(acc.out[k], fs, of[k]) /\ Tight(fs, of[k])
  BY <1>1 DEF SweptSoFar
<1>9. \A k \in 1..(m + 1) : (k = m + 1 /\ more[k] = {x}) \/ (k \in 1..m /\ more[k] = of[k])
  BY <1>5
<1>10. ASSUME NEW k \in 1..(m + 1)
       PROVE  more[k] \subseteq D \cup {x} /\ StandsFor(out[k], fs, more[k]) /\ Tight(fs, more[k])
  <2>1. CASE k = m + 1 /\ more[k] = {x}
    <3>1. StandsFor(f, fs, {x}) /\ Tight(fs, {x})
      BY <1>2, <1>6, OneStands, TightOne
    <3>2. out[k] = f
      BY <1>7, <2>1
    <3> QED
      BY <2>1, <3>1, <3>2
  <2>2. CASE k \in 1..m /\ more[k] = of[k]
    BY <1>7, <1>8, <2>2
  <2> QED
    BY <1>9, <2>1, <2>2
<1>11. m + 1 \in 1..(m + 1) /\ \A k \in 1..m : k \in 1..(m + 1) /\ k # m + 1
  OBVIOUS
<1>12. ASSUME NEW i \in D \cup {x}
       PROVE  \E k \in 1..(m + 1) : i \in more[k]
  <2>1. CASE i = x
    BY <1>5, <1>11, <2>1
  <2>2. CASE i \in D
    <3>1. PICK k \in 1..m : i \in of[k]
      BY <1>1, <2>2 DEF SweptSoFar
    <3>2. i \in more[k]
      BY <1>5, <1>11, <3>1
    <3> QED
      BY <1>11, <3>2
  <2> QED
    BY <2>1, <2>2
<1>13. ASSUME NEW k \in 1..m, NEW i \in of[k]
       PROVE  fs[i].end <= fs[x].start
  <2>1. m # 0 /\ m \in 1..m /\ i \in D
    BY <1>8
  <2>2. acc.out # <<>>
    <3>1. Len(<<>>) = 0
      OBVIOUS
    <3> QED
      BY <1>1, <2>1, <3>1
  <2>3. /\ acc.end \in Nat
        /\ \A j \in of[m] : fs[j].end <= acc.end
        /\ \E j \in of[m] : fs[j].end = acc.end
    BY <1>1, <2>2 DEF SweptSoFar
  <2>4. PICK last \in of[m] : fs[last].end = acc.end
    BY <2>3
  <2>5. last \in D
    BY <1>8, <2>1
  <2>6. /\ fs[i].end \in Nat /\ fs[last].start \in Nat /\ fs[x].start \in Nat
        /\ fs[last].start <= fs[x].start
    BY <2>1, <2>5, NextStartsLater
  <2>7. ~(fs[x].start < acc.end)
    BY <2>2
  <2>8. CASE k = m
    <3>1. fs[i].end <= acc.end
      BY <2>3, <2>8
    <3> QED
      BY <2>3, <2>6, <2>7, <3>1
  <2>9. CASE k < m
    <3>1. fs[i].end <= fs[last].start
      BY <1>1, <2>1, <2>9 DEF SweptSoFar
    <3> QED
      BY <2>6, <3>1
  <2>10. k = m \/ k < m
    OBVIOUS
  <2> QED
    BY <2>8, <2>9, <2>10
<1>14. ASSUME NEW k \in 1..(m + 1), NEW l \in 1..(m + 1), k < l
       PROVE  more[k] \cap more[l] = {} /\ \A i \in more[k], j \in more[l] : fs[i].end <= fs[j].start
  <2>1. k \in 1..m /\ more[k] = of[k]
    BY <1>5, <1>14
  <2>2. CASE l = m + 1
    <3>1. more[l] = {x}
      BY <1>5, <1>11, <2>2
    <3> QED
      BY <1>6, <1>8, <1>13, <2>1, <3>1
  <2>3. CASE l # m + 1
    <3>1. l \in 1..m /\ more[l] = of[l]
      BY <1>5, <2>3
    <3> QED
      BY <1>1, <1>14, <2>1, <3>1 DEF SweptSoFar
  <2> QED
    BY <2>2, <2>3
<1>15. /\ f.end \in Nat
       /\ \A i \in more[m + 1] : fs[i].end <= f.end
       /\ \E i \in more[m + 1] : fs[i].end = f.end
  <2>1. more[m + 1] = {x}
    BY <1>5, <1>11
  <2>2. f.end \in Nat
    BY <1>2, <1>6 DEF FairList, Fair, Sited
  <2> QED
    BY <1>2, <2>1, <2>2
<1>16. SweptSoFar(fs, D \cup {x}, [out |-> out, end |-> f.end], more)
  <2> DEFINE acc2 == [out |-> out, end |-> f.end]
  <2>1. acc2.out = out /\ acc2.end = f.end
    OBVIOUS
  <2> HIDE DEF acc2
  <2>2. SweptSoFar(fs, D \cup {x}, acc2, more)
    BY <1>7, <1>10, <1>12, <1>14, <1>15, <2>1 DEF SweptSoFar
  <2> QED
    BY <2>2 DEF acc2
<1> QED
  BY <1>4, <1>16

\* out has the items of V among the first n of s, q tells from where.
PicksTo(q, s, n, out, V) ==
  /\ List(out)
  /\ \A k \in 1..Len(out) : q[k] \in 1..n /\ s[q[k]] \in V /\ out[k] = s[q[k]]
  /\ \A k, l \in 1..Len(out) : q[k] = q[l] => k = l
  /\ \A i \in 1..n : s[i] \in V => \E k \in 1..Len(out) : q[k] = i

LEMMA PicksMore ==
  ASSUME NEW q, NEW s, NEW n \in Nat, NEW out, NEW V, PicksTo(q, s, n, out, V), s[n + 1] \in V
  PROVE  \E more : PicksTo(more, s, n + 1, Append(out, s[n + 1]), V)
<1>1. PICK m : m = Len(out)
  OBVIOUS
<1>2. PICK x : x = s[n + 1]
  OBVIOUS
<1>3. PICK longer : longer = Append(out, x)
  OBVIOUS
<1>4. /\ m \in Nat /\ List(longer) /\ Len(longer) = m + 1
      /\ (\A k \in 1..m : longer[k] = out[k]) /\ longer[m + 1] = x
  BY <1>1, <1>3, AppendIs DEF PicksTo
<1>5. PICK more : more = [k \in 1..(m + 1) |-> IF k = m + 1 THEN n + 1 ELSE q[k]]
  OBVIOUS
<1>6. more[m + 1] = n + 1 /\ \A k \in 1..m : more[k] = q[k]
  BY <1>4, <1>5
<1>7. \A k \in 1..(m + 1) : k = m + 1 \/ k \in 1..m
  BY <1>4
<1>8. \A k \in 1..m : q[k] \in 1..n /\ s[q[k]] \in V /\ out[k] = s[q[k]]
  BY <1>1 DEF PicksTo
<1>9. \A k \in 1..(m + 1) : more[k] \in 1..(n + 1) /\ s[more[k]] \in V /\ longer[k] = s[more[k]]
  <2>1. ASSUME NEW k \in 1..m  PROVE more[k] \in 1..(n + 1) /\ s[more[k]] \in V /\ longer[k] = s[more[k]]
    BY <1>4, <1>6, <1>8
  <2>2. more[m + 1] \in 1..(n + 1) /\ s[more[m + 1]] \in V /\ longer[m + 1] = s[more[m + 1]]
    BY <1>2, <1>4, <1>6
  <2> QED
    BY <1>7, <2>1, <2>2
<1>10. \A k, l \in 1..(m + 1) : more[k] = more[l] => k = l
  <2>1. \A k \in 1..m : more[k] # n + 1
    BY <1>6, <1>8
  <2>2. \A k, l \in 1..m : q[k] = q[l] => k = l
    BY <1>1 DEF PicksTo
  <2> QED
    BY <1>6, <1>7, <2>1, <2>2
<1>11. ASSUME NEW i \in 1..(n + 1), s[i] \in V
       PROVE  \E k \in 1..(m + 1) : more[k] = i
  <2>1. m + 1 \in 1..(m + 1) /\ \A k \in 1..m : k \in 1..(m + 1)
    BY <1>4
  <2>2. CASE i = n + 1
    BY <1>6, <2>1, <2>2
  <2>3. CASE i # n + 1
    <3>1. PICK k \in 1..m : q[k] = i
      BY <1>1, <1>11, <2>3 DEF PicksTo
    <3> QED
      BY <1>6, <2>1, <3>1
  <2> QED
    BY <2>2, <2>3
<1>12. PicksTo(more, s, n + 1, longer, V)
  BY <1>4, <1>9, <1>10, <1>11 DEF PicksTo
<1> QED
  BY <1>2, <1>3, <1>12

\* A filter takes each item of V once.
LEMMA KeepPicks ==
  ASSUME NEW s, List(s), NEW V
  PROVE  \E q : PicksTo(q, s, Len(s), Keep(s, V), V)
<1>1. PICK S : s \in Seq(S)
  BY RangeOfList
<1>2. PICK m \in Nat : m = Len(s)
  BY <1>1, LenProperties
<1> DEFINE P == {n \in 0..m : \E q : PicksTo(q, s, n, Keep(SubSeq(s, 1, n), V), V)}
<1>3. 0 \in P
  <2>1. Keep(SubSeq(s, 1, 0), V) = <<>>
    <3>1. SubSeq(s, 1, 0) = <<>>
      BY <1>1, SubSeqEmpty
    <3> QED
      BY <3>1, KeepOfNone
  <2>2. List(<<>>) /\ Len(<<>>) = 0
    BY EmptyIsList
  <2>3. PicksTo(<<>>, s, 0, <<>>, V)
    BY <2>2 DEF PicksTo
  <2> QED
    BY <2>1, <2>3
<1>4. ASSUME NEW n \in 0..(m - 1), n \in P
      PROVE  n + 1 \in P
  <2>1. n \in Nat /\ n + 1 \in 0..m /\ n + 1 \in 1..Len(s)
    BY <1>2
  <2>2. PICK pre : pre = SubSeq(s, 1, n)
    OBVIOUS
  <2>3. pre \in Seq(S) /\ SubSeq(s, 1, n + 1) = Append(pre, s[n + 1])
    BY <1>1, <1>2, <2>2, Initial
  <2>4. PICK x \in S : x = s[n + 1]
    BY <1>1, <2>1, ElementOfSeq
  <2>5. Keep(SubSeq(s, 1, n + 1), V) = Keep(pre, V) \o One(x, V)
    BY <2>3, <2>4, KeepAppend
  <2>6. PICK kept \in Seq(S) : kept = Keep(pre, V)
    BY <2>3, KeepIsList
  <2>7. PICK q : PicksTo(q, s, n, kept, V)
    BY <1>4, <2>2, <2>6
  <2>8. CASE x \in V
    <3>1. Keep(SubSeq(s, 1, n + 1), V) = Append(kept, x)
      <4>1. One(x, V) = <<x>>
        BY <2>8 DEF One
      <4>2. kept \o <<x>> = Append(kept, x)
        BY <2>4, AppendIsConcat
      <4> QED
        BY <2>5, <2>6, <4>1, <4>2
    <3> QED
      BY <2>1, <2>4, <2>7, <2>8, <3>1, PicksMore
  <2>9. CASE x \notin V
    <3>1. Keep(SubSeq(s, 1, n + 1), V) = kept
      <4>1. One(x, V) = <<>>
        BY <2>9 DEF One
      <4>2. kept \o <<>> = kept
        BY ConcatEmptySeq
      <4> QED
        BY <2>5, <2>6, <4>1, <4>2
    <3>2. PicksTo(q, s, n + 1, kept, V)
      <4>1. \A i \in 1..(n + 1) : i \in 1..n \/ i = n + 1
        BY <2>1
      <4>2. \A i \in 1..n : i \in 1..(n + 1)
        BY <2>1
      <4> QED
        BY <2>4, <2>7, <2>9, <4>1, <4>2 DEF PicksTo
    <3> QED
      BY <2>1, <3>1, <3>2
  <2> QED
    BY <2>8, <2>9
<1> HIDE DEF P
<1>5. m \in P
  BY <1>3, <1>4, Reaches
<1>6. SubSeq(s, 1, m) = s
  BY <1>1, <1>2, SubSeqFull
<1> QED
  BY <1>2, <1>5, <1>6 DEF P

\* An item of out for each cluster of the findings of I.
Partitions(of, fs, I, out) ==
  /\ List(out) /\ I \subseteq 1..Len(fs)
  /\ \A k \in 1..Len(out) :
       /\ of[k] \subseteq I /\ StandsFor(out[k], fs, of[k])
       /\ Tight(fs, of[k]) /\ ClosedUnderIssues(fs, of[k])
  /\ \A i \in I : \E k \in 1..Len(out) : i \in of[k]
  /\ \A k, l \in 1..Len(out) : k # l => of[k] \cap of[l] = {}

\* spans has the findings of I, all of one category, in the order of their spans.
Lines(s, spans, fs, I) ==
  /\ I \subseteq 1..Len(fs)
  /\ \A i \in I, j \in 1..Len(fs) : fs[i].category = fs[j].category <=> j \in I
  /\ Len(spans) \in Nat
  /\ \A k \in 1..Len(spans) : s[k] \in I /\ spans[k] = fs[s[k]]
  /\ \A k, l \in 1..Len(spans) : s[k] = s[l] => k = l
  /\ \A i \in I : \E k \in 1..Len(spans) : s[k] = i
  /\ \A k, l \in 1..Len(spans) : k < l => ~SpanLess(spans[l], spans[k])

LEMMA SweepPartitions ==
  ASSUME NEW fs, FairList(fs), NEW I, NEW s, NEW spans, Lines(s, spans, fs, I),
         NEW g, Swept(g, spans, Len(spans))
  PROVE  \E of : Partitions(of, fs, I, g[Len(spans)].out)
<1>1. PICK m \in Nat : m = Len(spans)
  BY DEF Lines
<1> DEFINE D(n) == {s[j] : j \in 1..n}
           P == {n \in 0..m : \E of : SweptSoFar(fs, D(n), g[n], of)}
<1>2. 0 \in P
  <2>1. g[0].out = <<>>
    BY <1>1 DEF Swept
  <2>2. D(0) = {} /\ Len(<<>>) = 0
    OBVIOUS
  <2>3. SweptSoFar(fs, D(0), g[0], <<>>)
    BY <2>1, <2>2, EmptyIsList DEF SweptSoFar
  <2> HIDE DEF D
  <2> QED
    BY <2>3
<1>3. ASSUME NEW n \in 0..(m - 1), n \in P
      PROVE  n + 1 \in P
  <2>1. n + 1 \in 0..m /\ n + 1 \in 1..m /\ n + 1 # 0 /\ (n + 1) - 1 = n /\ n \in Nat
    OBVIOUS
  <2>2. PICK x : x = s[n + 1]
    OBVIOUS
  <2>3. g[n + 1] = Join(g[n], fs[x])
    <3>1. g[n + 1] = Join(g[(n + 1) - 1], spans[n + 1])
      BY <1>1, <2>1 DEF Swept
    <3>2. spans[n + 1] = fs[x]
      BY <1>1, <2>1, <2>2 DEF Lines
    <3> QED
      BY <2>1, <3>1, <3>2
  <2>4. D(n + 1) = D(n) \cup {x}
    <3>1. \A j \in 1..(n + 1) : j \in 1..n \/ j = n + 1
      BY <2>1
    <3>2. (\A j \in 1..n : j \in 1..(n + 1)) /\ n + 1 \in 1..(n + 1)
      BY <2>1
    <3> QED
      BY <2>2, <3>1, <3>2
  <2>5. ComesNext(fs, D(n), x)
    <3>1. \A j \in 1..n : j \in 1..m /\ j < n + 1
      BY <2>1
    <3>2. x \in I /\ I \subseteq 1..Len(fs) /\ spans[n + 1] = fs[x]
      BY <1>1, <2>1, <2>2 DEF Lines
    <3>3. ASSUME NEW j \in 1..n
          PROVE  /\ s[j] \in I /\ s[j] # x
                 /\ fs[s[j]].category = fs[x].category /\ ~SpanLess(fs[x], fs[s[j]])
      <4>1. j \in 1..m /\ j < n + 1 /\ j # n + 1
        BY <3>1
      <4>2. s[j] \in I /\ spans[j] = fs[s[j]] /\ ~SpanLess(spans[n + 1], spans[j])
        BY <1>1, <2>1, <4>1 DEF Lines
      <4>3. s[j] # x
        BY <1>1, <2>1, <2>2, <4>1 DEF Lines
      <4>4. fs[s[j]].category = fs[x].category
        BY <3>2, <4>2 DEF Lines
      <4> QED
        BY <3>2, <4>2, <4>3, <4>4
    <3> QED
      BY <3>2, <3>3 DEF ComesNext
  <2>6. PICK of : SweptSoFar(fs, D(n), g[n], of)
    BY <1>3
  <2> HIDE DEF D
  <2>7. \E more : SweptSoFar(fs, D(n) \cup {x}, Join(g[n], fs[x]), more)
    BY <2>5, <2>6, SweepJoins, SweepParts
  <2> QED
    BY <2>1, <2>3, <2>4, <2>7
<1> HIDE DEF P
<1>4. m \in P
  BY <1>2, <1>3, Reaches
<1>5. PICK of : SweptSoFar(fs, D(m), g[m], of)
  BY <1>4 DEF P
<1>6. D(m) = I
  <2>1. (\A j \in 1..m : s[j] \in I) /\ \A i \in I : \E j \in 1..m : s[j] = i
    BY <1>1 DEF Lines
  <2>2. \A i : i \in D(m) <=> \E j \in 1..m : i = s[j]
    OBVIOUS
  <2> QED
    BY <2>1, <2>2
<1>7. PICK out : out = g[m].out
  OBVIOUS
<1> HIDE DEF D
<1>8. SweptSoFar(fs, I, g[m], of)
  BY <1>5, <1>6
<1>9. Len(out) \in Nat
  BY <1>7, <1>8, ListIs DEF SweptSoFar
<1>10. I \subseteq 1..Len(fs)
  BY DEF Lines
<1>11. \A k, l \in 1..Len(out) : k # l => of[k] \cap of[l] = {}
  <2>1. \A k, l \in 1..Len(out) : k # l => k < l \/ l < k
    BY <1>9
  <2> QED
    BY <1>7, <1>8, <2>1 DEF SweptSoFar
<1>12. ASSUME NEW k \in 1..Len(out)
       PROVE  ClosedUnderIssues(fs, of[k])
  <2> SUFFICES ASSUME NEW a \in of[k], NEW b \in 1..Len(fs), SameIssue(fs, a, b)
               PROVE  b \in of[k]
    BY DEF ClosedUnderIssues
  <2>1. a \in I
    BY <1>7, <1>8 DEF SweptSoFar
  <2>2. b \in I
    BY <2>1 DEF Lines, SameIssue
  <2>3. PICK l \in 1..Len(out) : b \in of[l]
    BY <1>7, <1>8, <2>2 DEF SweptSoFar
  <2>4. fs[a].start < fs[b].end /\ fs[b].start < fs[a].end
    BY DEF SameIssue, Overlaps
  <2>5. /\ fs[a].start \in Nat /\ fs[a].end \in Nat /\ fs[b].start \in Nat /\ fs[b].end \in Nat
    BY <1>10, <2>1, <2>2 DEF FairList, Fair, Sited, Keyed
  <2>6. ~(fs[a].end <= fs[b].start) /\ ~(fs[b].end <= fs[a].start)
    BY <2>4, <2>5
  <2>7. ~(k < l) /\ ~(l < k)
    BY <1>7, <1>8, <2>3, <2>6 DEF SweptSoFar
  <2>8. k = l
    BY <1>9, <2>7
  <2> QED
    BY <2>3, <2>8
<1>13. Partitions(of, fs, I, out)
  BY <1>7, <1>8, <1>10, <1>11, <1>12 DEF Partitions, SweptSoFar
<1> QED
  BY <1>1, <1>7, <1>13

\* The positions of the findings of a category.
Positions(fs, category) == {i \in 1..Len(fs) : fs[i].category = category}

LEMMA CategoryPartitions ==
  ASSUME NEW fs, FairList(fs), NEW category
  PROVE  \E of : Partitions(of, fs, Positions(fs, category), Sweep(InCategory(fs, category)))
<1> DEFINE V == {f \in Range(fs) : f.category = category}
<1>1. PICK cs : cs = InCategory(fs, category)
  OBVIOUS
<1>2. cs = Keep(fs, V) /\ List(fs)
  BY <1>1 DEF InCategory, FairList
<1>3. PICK q : PicksTo(q, fs, Len(fs), cs, V)
  BY <1>2, KeepPicks
<1>4. PICK m \in Nat : m = Len(cs)
  BY <1>3, ListIs DEF PicksTo
<1>5. \A i \in 1..Len(fs) : fs[i] \in V <=> fs[i].category = category
  BY <1>2, RangeOfList
<1> HIDE DEF V
<1>6. \A k \in 1..m : q[k] \in Positions(fs, category) /\ cs[k] = fs[q[k]]
  BY <1>3, <1>4, <1>5 DEF PicksTo, Positions
<1>7. \A k \in 1..m : cs[k].start \in Nat /\ cs[k].end \in Nat
  BY <1>6 DEF Positions, FairList, Fair, Sited, Keyed
<1>8. PICK p : Sorts(p, SpanBefore(cs, m), m) /\ BySpan(cs) = [k \in 1..m |-> cs[p[k]]]
  BY <1>4, <1>7, BySpanSorts
<1>9. PICK spans : spans = BySpan(cs)
  OBVIOUS
<1>10. PICK s : s = [k \in 1..m |-> q[p[k]]]
  OBVIOUS
<1>11. /\ \A k \in 1..m : p[k] \in 1..m
       /\ \A k, l \in 1..m : p[k] = p[l] => k = l
       /\ \A i \in 1..m : \E k \in 1..m : p[k] = i
       /\ \A k, l \in 1..m : k < l => <<p[l], p[k]>> \notin SpanBefore(cs, m)
  BY <1>8 DEF Sorts, Bijection, Injection, Surjection, IsInjective
<1>12. Len(spans) = m /\ \A k \in 1..m : spans[k] = cs[p[k]]
  BY <1>8, <1>9
<1>13. Lines(s, spans, fs, Positions(fs, category))
  <2>1. Positions(fs, category) \subseteq 1..Len(fs)
    BY DEF Positions
  <2>2. \A i \in Positions(fs, category), j \in 1..Len(fs) :
          fs[i].category = fs[j].category <=> j \in Positions(fs, category)
    BY DEF Positions
  <2>3. \A k \in 1..m : s[k] \in Positions(fs, category) /\ spans[k] = fs[s[k]]
    BY <1>6, <1>10, <1>11, <1>12
  <2>4. ASSUME NEW k \in 1..m, NEW l \in 1..m, s[k] = s[l]  PROVE k = l
    <3>1. p[k] \in 1..m /\ p[l] \in 1..m /\ q[p[k]] = q[p[l]]
      BY <1>10, <1>11, <2>4
    <3>2. p[k] = p[l]
      BY <1>3, <1>4, <3>1 DEF PicksTo
    <3> QED
      BY <1>11, <3>2
  <2>5. ASSUME NEW i \in Positions(fs, category)  PROVE \E k \in 1..m : s[k] = i
    <3>1. i \in 1..Len(fs) /\ fs[i] \in V
      BY <1>5 DEF Positions
    <3>2. PICK h \in 1..m : q[h] = i
      BY <1>3, <1>4, <3>1 DEF PicksTo
    <3>3. PICK k \in 1..m : p[k] = h
      BY <1>11
    <3> QED
      BY <1>10, <3>2, <3>3
  <2>6. ASSUME NEW k \in 1..m, NEW l \in 1..m, k < l  PROVE ~SpanLess(spans[l], spans[k])
    <3>1. p[k] \in 1..m /\ p[l] \in 1..m /\ <<p[l], p[k]>> \notin SpanBefore(cs, m)
      BY <1>11, <2>6
    <3>2. ~SpanLess(cs[p[l]], cs[p[k]])
      BY <3>1 DEF SpanBefore
    <3> QED
      BY <1>12, <3>2
  <2> QED
    BY <1>12, <2>1, <2>2, <2>3, <2>4, <2>5, <2>6 DEF Lines
<1>14. PICK g : Swept(g, spans, Len(spans)) /\ Sweep(cs) = g[Len(spans)].out
  BY <1>9, <1>12, SweepIs
<1> QED
  BY <1>1, <1>13, <1>14, SweepPartitions

LEMMA PartitionsConcat ==
  ASSUME NEW fs, NEW I, NEW J, I \cap J = {}, NEW of, NEW a, Partitions(of, fs, I, a),
         NEW og, NEW b, Partitions(og, fs, J, b)
  PROVE  \E oh : Partitions(oh, fs, I \cup J, a \o b)
<1>1. PICK m \in Nat : m = Len(a)
  BY ListIs DEF Partitions
<1>2. PICK n \in Nat : n = Len(b)
  BY ListIs DEF Partitions
<1>3. PICK out : out = a \o b
  OBVIOUS
<1>4. /\ List(out) /\ Len(out) = m + n
      /\ \A k \in 1..(m + n) : out[k] = IF k <= m THEN a[k] ELSE b[k - m]
  <2>1. PICK S : a \in Seq(S) /\ b \in Seq(S)
    <3>1. a \in Seq(Range(a)) /\ b \in Seq(Range(b))
      BY RangeOfList DEF Partitions
    <3>2. a \in Seq(Range(a) \cup Range(b)) /\ b \in Seq(Range(a) \cup Range(b))
      BY <3>1, SeqMonotonic
    <3> QED
      BY <3>2
  <2>2. a \o b \in Seq(S) /\ Len(a \o b) = m + n
    BY <1>1, <1>2, <2>1, ConcatProperties
  <2>3. \A k \in 1..(m + n) : (a \o b)[k] = IF k <= m THEN a[k] ELSE b[k - m]
    BY <1>1, <1>2, <2>1, ConcatProperties
  <2> QED
    BY <1>3, <2>2, <2>3, SeqIsList
<1>5. PICK oh : oh = [k \in 1..(m + n) |-> IF k <= m THEN of[k] ELSE og[k - m]]
  OBVIOUS
<1>6. \A k \in 1..(m + n) : \/ k \in 1..m /\ k <= m
                            \/ k - m \in 1..n /\ ~(k <= m)
  OBVIOUS
<1>7. \A k \in 1..(m + n) : \/ k \in 1..m /\ oh[k] = of[k] /\ out[k] = a[k]
                            \/ k - m \in 1..n /\ oh[k] = og[k - m] /\ out[k] = b[k - m]
  BY <1>4, <1>5, <1>6
<1>8. \A k \in 1..m : /\ of[k] \subseteq I /\ StandsFor(a[k], fs, of[k])
                      /\ Tight(fs, of[k]) /\ ClosedUnderIssues(fs, of[k])
  BY <1>1 DEF Partitions
<1>9. \A k \in 1..n : /\ og[k] \subseteq J /\ StandsFor(b[k], fs, og[k])
                      /\ Tight(fs, og[k]) /\ ClosedUnderIssues(fs, og[k])
  BY <1>2 DEF Partitions
<1>10. I \cup J \subseteq 1..Len(fs)
  BY DEF Partitions
<1>11. ASSUME NEW k \in 1..(m + n)
       PROVE  /\ oh[k] \subseteq I \cup J /\ StandsFor(out[k], fs, oh[k])
              /\ Tight(fs, oh[k]) /\ ClosedUnderIssues(fs, oh[k])
  <2>1. CASE k \in 1..m /\ oh[k] = of[k] /\ out[k] = a[k]
    BY <1>8, <2>1
  <2>2. CASE k - m \in 1..n /\ oh[k] = og[k - m] /\ out[k] = b[k - m]
    BY <1>9, <2>2
  <2> QED
    BY <1>7, <2>1, <2>2
<1>12. ASSUME NEW i \in I \cup J
       PROVE  \E k \in 1..(m + n) : i \in oh[k]
  <2>1. CASE i \in I
    <3>1. PICK k \in 1..m : i \in of[k]
      BY <1>1, <2>1 DEF Partitions
    <3>2. k \in 1..(m + n) /\ k <= m
      OBVIOUS
    <3>3. oh[k] = of[k]
      BY <1>5, <3>2
    <3> QED
      BY <3>1, <3>2, <3>3
  <2>2. CASE i \in J
    <3>1. PICK k \in 1..n : i \in og[k]
      BY <1>2, <2>2 DEF Partitions
    <3>2. k + m \in 1..(m + n) /\ ~(k + m <= m) /\ (k + m) - m = k
      OBVIOUS
    <3>3. oh[k + m] = og[k]
      BY <1>5, <3>2
    <3> QED
      BY <3>1, <3>2, <3>3
  <2> QED
    BY <2>1, <2>2
<1>13. ASSUME NEW k \in 1..(m + n), NEW l \in 1..(m + n), k # l
       PROVE  oh[k] \cap oh[l] = {}
  <2>1. CASE k \in 1..m /\ oh[k] = of[k] /\ l \in 1..m /\ oh[l] = of[l]
    BY <1>1, <1>13, <2>1 DEF Partitions
  <2>2. CASE k - m \in 1..n /\ oh[k] = og[k - m] /\ l - m \in 1..n /\ oh[l] = og[l - m]
    <3>1. k - m # l - m
      BY <1>13
    <3> QED
      BY <1>2, <2>2, <3>1 DEF Partitions
  <2>3. CASE k \in 1..m /\ oh[k] = of[k] /\ l - m \in 1..n /\ oh[l] = og[l - m]
    BY <1>8, <1>9, <2>3
  <2>4. CASE k - m \in 1..n /\ oh[k] = og[k - m] /\ l \in 1..m /\ oh[l] = of[l]
    BY <1>8, <1>9, <2>4
  <2> QED
    BY <1>7, <2>1, <2>2, <2>3, <2>4
<1>14. Partitions(oh, fs, I \cup J, out)
  BY <1>4, <1>10, <1>11, <1>12, <1>13 DEF Partitions
<1> QED
  BY <1>3, <1>14

\* No category is listed twice, and every finding's is listed.
LEMMA CategoriesAreApart ==
  /\ Len(CategoryOrder) = 13
  /\ \A i, j \in 1..13 : CategoryOrder[i] = CategoryOrder[j] => i = j
  /\ \A c \in Categories : \E i \in 1..13 : c = CategoryOrder[i]
<1>1. Len(CategoryOrder) = 13
  BY DEF CategoryOrder
<1>2. \A i, j \in 1..13 : CategoryOrder[i] = CategoryOrder[j] => i = j
  BY DEF CategoryOrder
<1> QED
  BY <1>1, <1>2 DEF Categories

\* The sweeps of the first n categories, and the positions of their findings.
Sweeps(fs, n) == [i \in 1..n |-> Sweep(InCategory(fs, CategoryOrder[i]))]

InFirst(fs, n) == {i \in 1..Len(fs) : \E j \in 1..n : fs[i].category = CategoryOrder[j]}

LEMMA SweepsAre ==
  ASSUME NEW fs, FairList(fs), NEW n \in 0..13
  PROVE  Lists(Sweeps(fs, n), n) /\ \A i \in 1..n : Sweeps(fs, n)[i] = Sweep(InCategory(fs, CategoryOrder[i]))
<1>1. PICK ss : ss = Sweeps(fs, n)
  OBVIOUS
<1>2. ss = [i \in 1..n |-> Sweep(InCategory(fs, CategoryOrder[i]))]
  BY <1>1 DEF Sweeps
<1>3. n \in Nat /\ Len(ss) = n
  BY <1>2
<1>4. List(ss)
  BY <1>2, <1>3 DEF List
<1>5. \A i \in 1..n : ss[i] = Sweep(InCategory(fs, CategoryOrder[i]))
  BY <1>2
<1>6. ASSUME NEW i \in 1..n  PROVE List(ss[i])
  <2>1. PICK out : out = Sweep(InCategory(fs, CategoryOrder[i]))
    OBVIOUS
  <2>2. List(out)
    BY <2>1, CategoryPartitions DEF Partitions
  <2> QED
    BY <1>5, <2>1, <2>2
<1> QED
  BY <1>1, <1>3, <1>4, <1>5, <1>6 DEF Lists

\* One category more.
LEMMA SweepsPartitionMore ==
  ASSUME NEW fs, FairList(fs), NEW n \in 0..12,
         \E of : Partitions(of, fs, InFirst(fs, n), FlattenSeq(Sweeps(fs, n)))
  PROVE  \E of : Partitions(of, fs, InFirst(fs, n + 1), FlattenSeq(Sweeps(fs, n + 1)))
<1>1. n \in Nat /\ n \in 0..13 /\ n + 1 \in 0..13 /\ n + 1 \in 1..13
  OBVIOUS
<1>2. PICK I : I = InFirst(fs, n)
  OBVIOUS
<1>3. PICK J : J = Positions(fs, CategoryOrder[n + 1])
  OBVIOUS
<1>4. PICK a : a = FlattenSeq(Sweeps(fs, n))
  OBVIOUS
<1>5. PICK b : b = Sweep(InCategory(fs, CategoryOrder[n + 1]))
  OBVIOUS
<1>6. PICK of : Partitions(of, fs, I, a)
  BY <1>2, <1>4
<1>7. PICK og : Partitions(og, fs, J, b)
  BY <1>3, <1>5, CategoryPartitions
<1>8. FlattenSeq(Sweeps(fs, n + 1)) = a \o b
  <2>1. PICK ss : ss = Sweeps(fs, n)
    OBVIOUS
  <2>2. PICK tt : tt = Sweeps(fs, n + 1)
    OBVIOUS
  <2>3. /\ Lists(ss, n)
        /\ \A i \in 1..n : ss[i] = Sweep(InCategory(fs, CategoryOrder[i]))
    BY <1>1, <2>1, SweepsAre
  <2>4. /\ Lists(tt, n + 1)
        /\ \A i \in 1..(n + 1) : tt[i] = Sweep(InCategory(fs, CategoryOrder[i]))
    BY <1>1, <2>2, SweepsAre
  <2>5. n + 1 \in 1..(n + 1) /\ \A i \in 1..n : i \in 1..(n + 1)
    BY <1>1
  <2>6. (\A i \in 1..n : ss[i] = tt[i]) /\ tt[n + 1] = b
    BY <1>5, <2>3, <2>4, <2>5
  <2>7. FlattenSeq(tt) = FlattenSeq(ss) \o tt[n + 1]
    BY <1>1, <2>3, <2>4, <2>6, FlattenMore
  <2> QED
    BY <1>4, <2>1, <2>2, <2>6, <2>7
<1>9. InFirst(fs, n + 1) = I \cup J
  <2>1. \A j \in 1..(n + 1) : j \in 1..n \/ j = n + 1
    BY <1>1
  <2>2. (\A j \in 1..n : j \in 1..(n + 1)) /\ n + 1 \in 1..(n + 1)
    BY <1>1
  <2> QED
    BY <1>2, <1>3, <2>1, <2>2 DEF InFirst, Positions
<1>10. I \cap J = {}
  <2>1. \A j \in 1..n : j \in 1..13 /\ j # n + 1
    BY <1>1
  <2>2. \A j \in 1..n : CategoryOrder[j] # CategoryOrder[n + 1]
    BY <1>1, <2>1, CategoriesAreApart
  <2> QED
    BY <1>2, <1>3, <2>2 DEF InFirst, Positions
<1>11. PICK oh : Partitions(oh, fs, I \cup J, a \o b)
  BY <1>6, <1>7, <1>10, PartitionsConcat
<1>12. Partitions(oh, fs, InFirst(fs, n + 1), FlattenSeq(Sweeps(fs, n + 1)))
  BY <1>8, <1>9, <1>11
<1> QED
  BY <1>12

\* The sweeps of all categories have an item for every cluster.
LEMMA SweepsPartition ==
  ASSUME NEW fs, FairList(fs)
  PROVE  \E of : Partitions(of, fs, 1..Len(fs), FlattenSeq(Sweeps(fs, 13)))
<1> DEFINE P == {n \in 0..13 : \E of : Partitions(of, fs, InFirst(fs, n), FlattenSeq(Sweeps(fs, n)))}
<1>1. 0 \in P
  <2>1. InFirst(fs, 0) = {}
    BY DEF InFirst
  <2>2. FlattenSeq(Sweeps(fs, 0)) = <<>>
    <3>1. Sweeps(fs, 0) = <<>>
      BY DEF Sweeps
    <3> QED
      BY <3>1, FlattenNone
  <2>3. Partitions(<<>>, fs, {}, <<>>)
    <3>1. Len(<<>>) = 0
      OBVIOUS
    <3> QED
      BY <3>1, EmptyIsList DEF Partitions
  <2>4. \E of : Partitions(of, fs, InFirst(fs, 0), FlattenSeq(Sweeps(fs, 0)))
    BY <2>1, <2>2, <2>3
  <2> QED
    BY <2>4
<1>2. ASSUME NEW n \in 0..(13 - 1), n \in P
      PROVE  n + 1 \in P
  <2>1. n \in 0..12 /\ n + 1 \in 0..13
    OBVIOUS
  <2> QED
    BY <1>2, <2>1, SweepsPartitionMore
<1> HIDE DEF P
<1>3. 13 \in P
  BY <1>1, <1>2, Reaches
<1>4. InFirst(fs, 13) = 1..Len(fs)
  <2>1. ASSUME NEW i \in 1..Len(fs)  PROVE \E j \in 1..13 : fs[i].category = CategoryOrder[j]
    <3>1. fs[i].category \in Categories
      BY DEF FairList, Fair
    <3> QED
      BY <3>1, CategoriesAreApart
  <2> QED
    BY <2>1 DEF InFirst
<1> QED
  BY <1>3, <1>4 DEF P

\* A sort moves the clusters along with what stands for them.
LEMMA PartitionsMove ==
  ASSUME NEW fs, NEW I, NEW of, NEW out, Partitions(of, fs, I, out),
         NEW n \in Nat, n = Len(out), NEW p \in Bijection(1..n, 1..n)
  PROVE  Partitions([k \in 1..n |-> of[p[k]]], fs, I, [k \in 1..n |-> out[p[k]]])
<1>1. PICK og : og = [k \in 1..n |-> of[p[k]]]
  OBVIOUS
<1>2. PICK moved : moved = [k \in 1..n |-> out[p[k]]]
  OBVIOUS
<1>3. /\ \A k \in 1..n : p[k] \in 1..n
      /\ \A k, l \in 1..n : p[k] = p[l] => k = l
      /\ \A i \in 1..n : \E k \in 1..n : p[k] = i
  BY DEF Bijection, Injection, Surjection, IsInjective
<1>4. List(moved) /\ Len(moved) = n
  BY <1>2 DEF List
<1>5. \A k \in 1..n : og[k] = of[p[k]] /\ moved[k] = out[p[k]]
  BY <1>1, <1>2
<1>6. \A k \in 1..n : /\ og[k] \subseteq I /\ StandsFor(moved[k], fs, og[k])
                      /\ Tight(fs, og[k]) /\ ClosedUnderIssues(fs, og[k])
  BY <1>3, <1>5 DEF Partitions
<1>7. ASSUME NEW i \in I  PROVE \E k \in 1..n : i \in og[k]
  <2>1. PICK l \in 1..n : i \in of[l]
    BY DEF Partitions
  <2>2. PICK k \in 1..n : p[k] = l
    BY <1>3
  <2> QED
    BY <1>5, <2>1, <2>2
<1>8. ASSUME NEW k \in 1..n, NEW l \in 1..n, k # l
      PROVE  og[k] \cap og[l] = {}
  <2>1. p[k] \in 1..n /\ p[l] \in 1..n /\ p[k] # p[l]
    BY <1>3, <1>8
  <2> QED
    BY <1>5, <2>1 DEF Partitions
<1>9. I \subseteq 1..Len(fs)
  BY DEF Partitions
<1>10. Partitions(og, fs, I, moved)
  BY <1>4, <1>6, <1>7, <1>8, <1>9 DEF Partitions
<1> QED
  BY <1>1, <1>2, <1>10

\* A set that overlaps neither leave nor part is the cluster of each of its members.
LEMMA TightIsCluster ==
  ASSUME NEW fs, NEW S \in SUBSET (1..Len(fs)), Tight(fs, S), ClosedUnderIssues(fs, S), NEW i \in S
  PROVE  Cluster(fs, i) = S
<1>1. ASSUME NEW j \in Cluster(fs, i)  PROVE j \in S
  BY <1>1 DEF Cluster
<1>2. ASSUME NEW j \in S  PROVE j \in Cluster(fs, i)
  <2>1. ASSUME NEW T \in SUBSET (1..Len(fs)), i \in T, ClosedUnderIssues(fs, T)
        PROVE  j \in T
    <3>1. T \cap S # {}
      BY <2>1
    <3> QED
      BY <2>1, <3>1 DEF Tight
  <2> QED
    BY <2>1 DEF Cluster
<1> QED
  BY <1>1, <1>2

\* So what stands for the parts stands for the clusters, one each.
LEMMA PartitionIsClusters ==
  ASSUME NEW fs, NEW of, NEW out, NEW n \in Nat, n = Len(out), Partitions(of, fs, 1..Len(fs), out)
  PROVE  \E og \in Bijection(1..n, Clusters(fs)) : \A k \in 1..n : StandsFor(out[k], fs, og[k])
<1>1. PICK og : og = [k \in 1..n |-> of[k]]
  OBVIOUS
<1>2. \A k \in 1..n : /\ og[k] \in SUBSET (1..Len(fs)) /\ StandsFor(out[k], fs, og[k])
                      /\ Tight(fs, og[k]) /\ ClosedUnderIssues(fs, og[k])
  BY <1>1 DEF Partitions
<1>3. \A k \in 1..n : \E i \in 1..Len(fs) : i \in og[k]
  BY <1>2 DEF StandsFor
<1>4. \A k \in 1..n, i \in 1..Len(fs) : i \in og[k] => Cluster(fs, i) = og[k]
  BY <1>2, TightIsCluster
<1>5. \A k \in 1..n : og[k] \in Clusters(fs)
  BY <1>3, <1>4 DEF Clusters
<1>6. ASSUME NEW k \in 1..n, NEW l \in 1..n, og[k] = og[l]  PROVE k = l
  <2>1. k # l => og[k] \cap og[l] = {}
    BY <1>1 DEF Partitions
  <2> QED
    BY <1>3, <1>6, <2>1
<1>7. ASSUME NEW c \in Clusters(fs)  PROVE \E k \in 1..n : og[k] = c
  <2>1. PICK i \in 1..Len(fs) : c = Cluster(fs, i)
    BY DEF Clusters
  <2>2. PICK k \in 1..n : i \in og[k]
    BY <1>1 DEF Partitions
  <2> QED
    BY <1>4, <2>1, <2>2
<1>8. og \in [1..n -> Clusters(fs)]
  BY <1>1, <1>5
<1>9. og \in Bijection(1..n, Clusters(fs))
  BY <1>6, <1>7, <1>8 DEF Bijection, Injection, Surjection, IsInjective
<1> QED
  BY <1>2, <1>9

\* Whatever tools and detectors report, in whatever order: dedup_findings leaves one
\* finding for every cluster of one category's findings whose spans hang together,
\* over however many of them; it is the worst of them, of equals the first in the
\* canonical order, it names every other tool that saw the issue, as merge_two does
\* one by one; and what is left is in the canonical order (dedup.rs).
THEOREM DedupIsOnePerCluster ==
  ASSUME NEW findings, FairList(findings)
  PROVE  OnePerCluster(DedupFindings(findings), findings)
<1>1. PICK merged : merged = FlattenSeq(Sweeps(findings, 13))
  OBVIOUS
<1>2. PICK of : Partitions(of, findings, 1..Len(findings), merged)
  BY <1>1, SweepsPartition
<1>3. PICK n \in Nat : n = Len(merged)
  BY <1>2, ListIs DEF Partitions
<1>4. SitedList(merged)
  <2>1. PICK ss : ss = Sweeps(findings, 13)
    OBVIOUS
  <2>2. Len(ss) = 13 /\ List(ss) /\ \A i \in 1..13 : ss[i] = Sweep(InCategory(findings, CategoryOrder[i]))
    BY <2>1, SweepsAre DEF Lists
  <2>3. SitedList(findings)
    BY FairIsSited
  <2>4. \A i \in 1..13 : SitedList(ss[i])
    BY <2>2, <2>3, KeepSited, SweepSited DEF InCategory
  <2> QED
    BY <1>1, <2>1, <2>2, <2>4, FlattenSited
<1>5. \A k \in 1..n : Keyed(merged[k])
  BY <1>3, <1>4 DEF SitedList, Sited
<1>6. PICK out : out = DedupFindings(findings)
  OBVIOUS
<1>7. out = InOrder(merged)
  BY <1>1, <1>6, CategoriesAreApart DEF DedupFindings, Sweeps
<1>8. PICK p : Sorts(p, KeyBefore(merged, n), n) /\ out = [k \in 1..n |-> merged[p[k]]]
  <2>1. Len(merged) = n
    BY <1>3
  <2>2. PICK p : Sorts(p, KeyBefore(merged, n), n) /\ InOrder(merged) = [k \in 1..n |-> merged[p[k]]]
    BY <1>5, <2>1, InOrderSorts
  <2> QED
    BY <1>7, <2>2
<1>9. p \in Bijection(1..n, 1..n)
  BY <1>8 DEF Sorts
<1>10. Len(out) = n
  BY <1>8
<1>11. PICK og : Partitions(og, findings, 1..Len(findings), out)
  <2>1. PICK og : og = [k \in 1..n |-> of[p[k]]]
    OBVIOUS
  <2>2. Partitions(og, findings, 1..Len(findings), [k \in 1..n |-> merged[p[k]]])
    BY <1>2, <1>3, <1>9, <2>1, PartitionsMove
  <2> QED
    BY <1>8, <2>2
<1>12. \E oh \in Bijection(1..n, Clusters(findings)) : \A k \in 1..n : StandsFor(out[k], findings, oh[k])
  BY <1>10, <1>11, PartitionIsClusters
<1>13. ASSUME NEW k \in 1..n, NEW l \in 1..n, k < l
       PROVE  ~KeyLess(Key(out[l]), Key(out[k]))
  <2>1. <<p[l], p[k]>> \notin KeyBefore(merged, n)
    BY <1>8, <1>13 DEF Sorts
  <2>2. p[k] \in 1..n /\ p[l] \in 1..n
    BY <1>9 DEF Bijection, Injection
  <2>3. ~KeyLess(Key(merged[p[l]]), Key(merged[p[k]]))
    BY <2>1, <2>2 DEF KeyBefore
  <2> QED
    BY <1>8, <2>3
<1> QED
  BY <1>6, <1>10, <1>12, <1>13 DEF OnePerCluster

-----------------------------------------------------------------------------
(* The order of the reports                                                 *)

OneFile(fs) == \A i, j \in 1..Len(fs) : fs[i].file = fs[j].file

\* f stands for a cluster.
Stands(f, fs) == \E S \in Clusters(fs) : StandsFor(f, fs, S)

LEMMA ClusterIsClosed ==
  ASSUME NEW fs, NEW i \in 1..Len(fs)
  PROVE  i \in Cluster(fs, i) /\ ClosedUnderIssues(fs, Cluster(fs, i))
<1>1. i \in Cluster(fs, i)
  BY DEF Cluster
<1>2. ASSUME NEW a \in Cluster(fs, i), NEW b \in 1..Len(fs), SameIssue(fs, a, b)
      PROVE  b \in Cluster(fs, i)
  <2>1. ASSUME NEW S \in SUBSET (1..Len(fs)), i \in S, ClosedUnderIssues(fs, S)  PROVE b \in S
    <3>1. a \in S
      BY <2>1 DEF Cluster
    <3> QED
      BY <1>2, <2>1, <3>1 DEF ClosedUnderIssues
  <2> QED
    BY <2>1 DEF Cluster
<1> QED
  BY <1>1, <1>2 DEF ClosedUnderIssues

LEMMA ClusterIsOfOneCategory ==
  ASSUME NEW fs, NEW i \in 1..Len(fs), NEW j \in Cluster(fs, i)
  PROVE  j \in 1..Len(fs) /\ fs[j].category = fs[i].category
<1>1. PICK S : S = Positions(fs, fs[i].category)
  OBVIOUS
<1>2. S \in SUBSET (1..Len(fs)) /\ i \in S
  BY <1>1 DEF Positions
<1>3. ClosedUnderIssues(fs, S)
  BY <1>1 DEF Positions, ClosedUnderIssues, SameIssue
<1>4. j \in S
  BY <1>2, <1>3 DEF Cluster
<1> QED
  BY <1>1, <1>4 DEF Positions

\* What stands for a cluster is determined.
LEMMA StandsUnique ==
  ASSUME NEW fs, FairList(fs), OneFile(fs), NEW S \in Clusters(fs),
         NEW f, StandsFor(f, fs, S), NEW g, StandsFor(g, fs, S)
  PROVE  f = g
<1>1. PICK x \in 1..Len(fs) : S = Cluster(fs, x)
  BY DEF Clusters
<1>2. \A j \in S : j \in 1..Len(fs) /\ fs[j].category = fs[x].category
  BY <1>1, ClusterIsOfOneCategory
<1>3. PICK i \in S : /\ \A j \in S : Outranks(fs, i, j)
                     /\ f = [fs[i] EXCEPT !.also = Origins(fs, S) \ {OriginOf[fs[i].rule]}]
  BY StandsForIs
<1>4. PICK k \in S : /\ \A j \in S : Outranks(fs, k, j)
                     /\ g = [fs[k] EXCEPT !.also = Origins(fs, S) \ {OriginOf[fs[k].rule]}]
  BY StandsForIs
<1>5. PICK a : a = fs[i]
  OBVIOUS
<1>6. PICK b : b = fs[k]
  OBVIOUS
<1>7. Fair(a) /\ Fair(b) /\ a.category = b.category /\ a.file = b.file
  BY <1>2, <1>5, <1>6 DEF FairList, OneFile
<1>8. /\ a.severity > b.severity \/ (a.severity = b.severity /\ ~Precedes(b, a))
      /\ b.severity > a.severity \/ (b.severity = a.severity /\ ~Precedes(a, b))
  BY <1>3, <1>4, <1>5, <1>6 DEF Outranks
<1>9. a.severity = b.severity /\ ~Precedes(b, a) /\ ~Precedes(a, b)
  <2>1. PICK u \in Nat : u = a.severity
    BY <1>7 DEF Fair
  <2>2. PICK v \in Nat : v = b.severity
    BY <1>7 DEF Fair
  <2>3. ~(u > v /\ v > u) /\ (u > v => ~(v = u)) /\ (v > u => ~(u = v))
    OBVIOUS
  <2> QED
    BY <1>8, <2>1, <2>2, <2>3
<1>10. Key(a) = Key(b) /\ a.end = b.end
  BY <1>7, <1>9, PrecedesOrder DEF Fair
<1>11. a.line = b.line /\ a.start = b.start /\ RuleOrder[a.rule] = RuleOrder[b.rule]
  BY <1>10 DEF Key
<1>12. a.rule = b.rule
  BY <1>7, <1>11, FindingsAssumption DEF Fair, Sited, Keyed
<1>13. a = b
  BY <1>7, <1>9, <1>10, <1>11, <1>12 DEF Fair, Sited
<1> QED
  BY <1>3, <1>4, <1>5, <1>6, <1>13

LEMMA DedupedStand ==
  ASSUME NEW fs, FairList(fs), OneFile(fs), NEW f
  PROVE  f \in Range(DedupFindings(fs)) <=> Stands(f, fs)
<1>1. PICK out : out = DedupFindings(fs)
  OBVIOUS
<1>2. Len(out) \in Nat /\ DOMAIN out = 1..Len(out)
  <2>1. PICK merged : merged = FlattenSeq(Sweeps(fs, 13))
    OBVIOUS
  <2>2. \E of : Partitions(of, fs, 1..Len(fs), merged)
    BY <2>1, SweepsPartition
  <2>3. PICK n \in Nat : n = Len(merged)
    BY <2>2, ListIs DEF Partitions
  <2>4. out = InOrder(merged)
    BY <1>1, <2>1, CategoriesAreApart DEF DedupFindings, Sweeps
  <2>5. DOMAIN out = 1..n
    BY <2>3, <2>4 DEF InOrder, Arrange
  <2>6. Len(out) = n
    BY <2>3, <2>4 DEF InOrder, Arrange
  <2> QED
    BY <2>5, <2>6
<1>3. PICK of \in Bijection(1..Len(out), Clusters(fs)) :
        \A k \in 1..Len(out) : StandsFor(out[k], fs, of[k])
  BY <1>1, DedupIsOnePerCluster DEF OnePerCluster
<1>4. /\ \A k \in 1..Len(out) : of[k] \in Clusters(fs)
      /\ \A S \in Clusters(fs) : \E k \in 1..Len(out) : of[k] = S
  BY <1>3 DEF Bijection, Injection, Surjection
<1>5. ASSUME f \in Range(out)  PROVE Stands(f, fs)
  <2>1. PICK k \in 1..Len(out) : f = out[k]
    BY <1>2, <1>5 DEF Range
  <2> QED
    BY <1>3, <1>4, <2>1 DEF Stands
<1>6. ASSUME Stands(f, fs)  PROVE f \in Range(out)
  <2>1. PICK S \in Clusters(fs) : StandsFor(f, fs, S)
    BY <1>6 DEF Stands
  <2>2. PICK k \in 1..Len(out) : of[k] = S
    BY <1>4
  <2>3. f = out[k]
    BY <1>3, <2>1, <2>2, StandsUnique
  <2> QED
    BY <1>2, <2>3 DEF Range
<1> QED
  BY <1>1, <1>5, <1>6

\* t has the items of s in another order.
Shuffles(p, n, s, t) ==
  /\ n \in Nat /\ Len(s) = n /\ Len(t) = n
  /\ \A i \in 1..n : p[i] \in 1..n /\ t[i] = s[p[i]]
  /\ \A i, j \in 1..n : p[i] = p[j] => i = j
  /\ \A i \in 1..n : \E j \in 1..n : p[j] = i

\* Clusters move with their findings.
LEMMA ClustersMove ==
  ASSUME NEW p, NEW n, NEW s, NEW t, Shuffles(p, n, s, t), NEW i \in 1..n
  PROVE  {p[j] : j \in Cluster(t, i)} = Cluster(s, p[i])
<1>1. PICK c : c = Cluster(t, i)
  OBVIOUS
<1>2. PICK d : d = {p[j] : j \in c}
  OBVIOUS
<1>3. c \subseteq 1..n /\ i \in c /\ ClosedUnderIssues(t, c)
  <2>1. i \in 1..Len(t)
    BY DEF Shuffles
  <2>2. c \subseteq 1..n
    BY <1>1 DEF Cluster, Shuffles
  <2> QED
    BY <1>1, <2>1, <2>2, ClusterIsClosed
<1>4. d \in SUBSET (1..Len(s)) /\ p[i] \in d
  <2>1. Len(s) = n /\ \A j \in 1..n : p[j] \in 1..n
    BY DEF Shuffles
  <2>2. \A j \in c : p[j] \in 1..n
    BY <1>3, <2>1
  <2>3. d \subseteq 1..n
    BY <1>2, <2>2
  <2>4. p[i] \in d
    BY <1>2, <1>3
  <2> QED
    BY <2>1, <2>3, <2>4
<1>5. \A j, k \in 1..n : SameIssue(t, j, k) <=> SameIssue(s, p[j], p[k])
  BY DEF Shuffles, SameIssue
<1>6. ASSUME NEW a \in d, NEW b \in 1..Len(s), SameIssue(s, a, b)  PROVE b \in d
  <2>1. PICK j \in c : a = p[j]
    BY <1>2
  <2>2. PICK k \in 1..n : b = p[k]
    BY DEF Shuffles
  <2>3. SameIssue(t, j, k) /\ k \in 1..Len(t)
    BY <1>3, <1>5, <1>6, <2>1, <2>2 DEF Shuffles
  <2>4. k \in c
    BY <1>3, <2>3 DEF ClosedUnderIssues
  <2> QED
    BY <1>2, <2>2, <2>4
<1>7. ASSUME NEW x \in Cluster(s, p[i])  PROVE x \in d
  BY <1>4, <1>6 DEF Cluster, ClosedUnderIssues
<1>8. ASSUME NEW x \in d  PROVE x \in Cluster(s, p[i])
  <2>1. PICK j \in c : x = p[j]
    BY <1>2
  <2>2. ASSUME NEW S \in SUBSET (1..Len(s)), p[i] \in S, ClosedUnderIssues(s, S)  PROVE x \in S
    <3>1. PICK T : T = {k \in 1..n : p[k] \in S}
      OBVIOUS
    <3>2. T \in SUBSET (1..Len(t)) /\ i \in T
      BY <2>2, <3>1 DEF Shuffles
    <3>3. ASSUME NEW a \in T, NEW b \in 1..Len(t), SameIssue(t, a, b)  PROVE b \in T
      <4>1. a \in 1..n /\ b \in 1..n /\ p[a] \in S /\ p[b] \in 1..Len(s)
        BY <3>1 DEF Shuffles
      <4>2. SameIssue(s, p[a], p[b])
        BY <1>5, <3>3, <4>1
      <4>3. p[b] \in S
        BY <2>2, <4>1, <4>2 DEF ClosedUnderIssues
      <4> QED
        BY <3>1, <4>1, <4>3
    <3>4. j \in T
      BY <1>1, <3>2, <3>3 DEF Cluster, ClosedUnderIssues
    <3> QED
      BY <2>1, <3>1, <3>4
  <2>3. x \in 1..Len(s)
    BY <1>4
  <2> QED
    BY <2>2, <2>3 DEF Cluster
<1> QED
  BY <1>1, <1>2, <1>7, <1>8

LEMMA ShuffledStand ==
  ASSUME NEW p, NEW n, NEW s, NEW t, Shuffles(p, n, s, t), NEW f, Stands(f, t)
  PROVE  Stands(f, s)
<1>1. PICK c \in Clusters(t) : StandsFor(f, t, c)
  BY DEF Stands
<1>2. PICK i \in 1..n : c = Cluster(t, i)
  BY DEF Clusters, Shuffles
<1>3. PICK d : d = {p[j] : j \in c}
  OBVIOUS
<1>4. d = Cluster(s, p[i]) /\ p[i] \in 1..Len(s)
  <2>1. p[i] \in 1..Len(s)
    BY DEF Shuffles
  <2>2. {p[j] : j \in Cluster(t, i)} = Cluster(s, p[i])
    BY ClustersMove
  <2> QED
    BY <1>2, <1>3, <2>1, <2>2
<1>5. c \subseteq 1..n /\ \A j \in 1..n : t[j] = s[p[j]]
  BY <1>2 DEF Cluster, Shuffles
<1>6. PICK k \in c : /\ \A j \in c : Outranks(t, k, j)
                     /\ f = [t[k] EXCEPT !.also = Origins(t, c) \ {OriginOf[t[k].rule]}]
  BY <1>1, StandsForIs
<1>7. Origins(t, c) = Origins(s, d)
  BY <1>3, <1>5 DEF Origins
<1>8. \A j \in c : Outranks(s, p[k], p[j])
  BY <1>5, <1>6 DEF Outranks
<1>9. p[k] \in d /\ \A j \in d : Outranks(s, p[k], j)
  BY <1>3, <1>6, <1>8
<1>10. t[k] = s[p[k]]
  BY <1>5, <1>6
<1>11. f = [s[p[k]] EXCEPT !.also = Origins(s, d) \ {OriginOf[s[p[k]].rule]}]
  BY <1>6, <1>7, <1>10
<1>12. StandsFor(f, s, d)
  BY <1>9, <1>11, StandsForIs
<1>13. d \in Clusters(s)
  BY <1>4 DEF Clusters
<1> QED
  BY <1>12, <1>13 DEF Stands

\* What survives a collision does not depend on the order in which providers
\* reported: dedup_findings leaves the same findings of a file, whichever way the
\* list is shuffled (dedup.rs: the sorts, and merge_two's tie by the canonical key).
THEOREM DedupIgnoresOrder ==
  ASSUME NEW findings, FairList(findings), OneFile(findings),
         NEW p \in Bijection(1..Len(findings), 1..Len(findings))
  PROVE  Range(DedupFindings([i \in 1..Len(findings) |-> findings[p[i]]]))
           = Range(DedupFindings(findings))
<1>1. PICK n : n = Len(findings)
  OBVIOUS
<1>2. n \in Nat
  BY <1>1, ListIs DEF FairList
<1>3. PICK t : t = [i \in 1..n |-> findings[p[i]]]
  OBVIOUS
<1>4. /\ \A i \in 1..n : p[i] \in 1..n
      /\ \A i, j \in 1..n : p[i] = p[j] => i = j
      /\ \A i \in 1..n : \E j \in 1..n : p[j] = i
  BY <1>1 DEF Bijection, Injection, Surjection, IsInjective
<1>5. List(t) /\ Len(t) = n /\ \A i \in 1..n : t[i] = findings[p[i]]
  BY <1>2, <1>3 DEF List
<1>6. Shuffles(p, n, findings, t)
  BY <1>1, <1>2, <1>4, <1>5 DEF Shuffles
<1>7. PICK q : q = [i \in 1..n |-> CHOOSE j \in 1..n : p[j] = i]
  OBVIOUS
<1>8. \A i \in 1..n : q[i] \in 1..n /\ p[q[i]] = i
  BY <1>4, <1>7
<1>9. Shuffles(q, n, t, findings)
  <2>1. \A i \in 1..n : findings[i] = t[q[i]]
    BY <1>5, <1>8
  <2>2. \A i, j \in 1..n : q[i] = q[j] => i = j
    BY <1>8
  <2>3. \A i \in 1..n : q[p[i]] = i
    BY <1>4, <1>8
  <2>4. \A i \in 1..n : \E j \in 1..n : q[j] = i
    BY <1>4, <2>3
  <2> QED
    BY <1>1, <1>2, <1>5, <1>8, <2>1, <2>2, <2>4 DEF Shuffles
<1>10. FairList(t) /\ OneFile(t)
  <2>1. \A i \in 1..n : Fair(t[i])
    BY <1>1, <1>4, <1>5 DEF FairList
  <2>2. ASSUME NEW i \in 1..n, NEW j \in 1..n  PROVE t[i].file = t[j].file
    <3>1. p[i] \in 1..Len(findings) /\ p[j] \in 1..Len(findings)
      BY <1>1, <1>4
    <3>2. findings[p[i]].file = findings[p[j]].file
      BY <3>1 DEF OneFile
    <3> QED
      BY <1>5, <3>2
  <2> QED
    BY <1>5, <2>1, <2>2 DEF FairList, OneFile
<1>11. \A f : Stands(f, t) <=> Stands(f, findings)
  BY <1>6, <1>9, ShuffledStand
<1>12. \A f : f \in Range(DedupFindings(t)) <=> f \in Range(DedupFindings(findings))
  BY <1>10, <1>11, DedupedStand
<1> QED
  BY <1>1, <1>3, <1>12
=============================================================================
