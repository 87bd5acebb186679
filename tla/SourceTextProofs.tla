-------------------------- MODULE SourceTextProofs --------------------------
(***************************************************************************)
(* Lemmas about the operators of SourceText: the ones defined with CHOOSE  *)
(* are well defined, keeping positions of a text lists and picks them in   *)
(* their order, an extraction yields well-formed records, every rewrite of *)
(* a text is a text, and an accepted rewrite keeps the author's code       *)
(* unless the range it takes for a docstring covers code.  Induction over  *)
(* positions is done by taking a least counterexample (SmallestOf).        *)
(***************************************************************************)
EXTENDS SourceText, Integers, FiniteSetTheorems, SequenceTheorems,
        WellFoundedInduction, TLAPS

\* Every nonempty set of numbers has a least one.
LEMMA SmallestOf ==
  ASSUME NEW T \in SUBSET Nat, T # {}
  PROVE  \E x \in T : \A y \in T : x <= y
<1> PICK n \in T : TRUE
  OBVIOUS
<1> DEFINE S == 0..n
           R == {0..x : x \in {y \in T : y <= n}}
<1>1. IsFiniteSet(S)
  BY FS_Interval
<1>2. R \subseteq SUBSET S /\ R # {}
  <2>1. 0..n \in R
    OBVIOUS
  <2>2. \A x \in T : x <= n => 0..x \subseteq S
    BY SMT
  <2> QED
    BY <2>1, <2>2
<1>3. IsWellFoundedOn(StrictSubsetOrdering(S), FiniteSubsetsOf(S))
  BY <1>1, FS_StrictSubsetOrderingWellFounded
<1>4. R \subseteq FiniteSubsetsOf(S)
  BY <1>1, <1>2, FS_Subset DEF FiniteSubsetsOf
<1> HIDE DEF R
<1>5. PICK r \in R : \A q \in R : ~ (<<q, r>> \in StrictSubsetOrdering(S))
  BY <1>2, <1>3, <1>4, WFMin
<1>6. \A q \in R : q \subseteq r => q = r
  BY <1>2, <1>5 DEF StrictSubsetOrdering
<1>7. PICK x \in T : x <= n /\ r = 0..x
  BY <1>5 DEF R
<1>8. ASSUME NEW y \in T, y < x
      PROVE  FALSE
  <2>1. 0..y \in R
    BY <1>7, <1>8 DEF R
  <2>2. 0..y = 0..x
    BY <2>1, <1>6, <1>7, <1>8
  <2>3. x \in 0..x /\ x \notin 0..y
    BY <1>8
  <2> QED
    BY <2>2, <2>3
<1> QED
  BY <1>8

\* A finite set of positions has, for every k up to its size, a member of rank k.
LEMMA KthOfMember ==
  ASSUME NEW n \in Nat, NEW S \in SUBSET (1..n), NEW k \in 1..Cardinality(S)
  PROVE  KthOf(S, k) \in S /\ Cardinality({j \in S : j <= KthOf(S, k)}) = k
<1> DEFINE Upto(m) == {j \in S : j <= m}
           T == {m \in Nat : k <= Cardinality(Upto(m))}
<1>1. IsFiniteSet(S) /\ Cardinality(S) \in Nat
  <2>1. IsFiniteSet(1..n)
    BY FS_Interval
  <2> QED
    BY <2>1, FS_Subset, FS_CardinalityType
<1>2. ASSUME NEW m
      PROVE  IsFiniteSet(Upto(m)) /\ Cardinality(Upto(m)) \in Nat
  <2>1. Upto(m) \in SUBSET S
    OBVIOUS
  <2> HIDE DEF Upto
  <2> QED
    BY <1>1, <2>1, FS_Subset, FS_CardinalityType
<1>3. Upto(n) = S
  <2>1. \A j \in S : j <= n
    OBVIOUS
  <2> QED
    BY <2>1
<1>4. Upto(0) = {}
  <2>1. ASSUME NEW j \in S
        PROVE  ~(j <= 0)
    OBVIOUS
  <2> QED
    BY <2>1
<1>5. ASSUME NEW m \in Nat, m # 0
      PROVE  Upto(m) = IF m \in S THEN Upto(m - 1) \cup {m} ELSE Upto(m - 1)
  <2>1. ASSUME NEW j \in S
        PROVE  j <= m <=> j <= m - 1 \/ j = m
    BY <1>5
  <2> QED
    BY <2>1
<1>6. \A m \in Nat : m \notin Upto(m - 1)
  OBVIOUS
<1> HIDE DEF Upto
<1>7. ASSUME NEW m \in Nat, m # 0
      PROVE  Cardinality(Upto(m)) = IF m \in S THEN Cardinality(Upto(m - 1)) + 1
                                               ELSE Cardinality(Upto(m - 1))
  <2>1. m \notin S => Upto(m) = Upto(m - 1)
    BY <1>5, <1>7
  <2>2. m \in S => Upto(m) = Upto(m - 1) \cup {m}
    BY <1>5, <1>7
  <2>3. IsFiniteSet(Upto(m - 1)) /\ m \notin Upto(m - 1)
    BY <1>2, <1>6
  <2>4. Cardinality(Upto(m - 1) \cup {m}) = Cardinality(Upto(m - 1)) + 1
    BY <2>3, FS_AddElement
  <2> QED
    BY <2>1, <2>2, <2>4
<1>8. Cardinality(Upto(0)) = 0
  BY <1>4, FS_EmptySet
<1>9. n \in T
  BY <1>3
<1>10. PICK m \in T : \A y \in T : m <= y
  <2> HIDE DEF T
  <2>1. T \in SUBSET Nat /\ T # {}
    BY <1>9 DEF T
  <2> QED
    BY <2>1, SmallestOf
<1>11. m \in Nat /\ m # 0 /\ k <= Cardinality(Upto(m))
  BY <1>8, <1>10
<1>12. ~(k <= Cardinality(Upto(m - 1)))
  <2>1. m - 1 \in Nat /\ m - 1 \notin T
    BY <1>10, <1>11
  <2> QED
    BY <2>1
<1>13. m \in S /\ Cardinality(Upto(m)) = k
  <2>1. Cardinality(Upto(m)) \in Nat /\ Cardinality(Upto(m - 1)) \in Nat
    BY <1>2
  <2> QED
    BY <2>1, <1>7, <1>11, <1>12
<1> QED
  BY <1>13 DEF KthOf, Upto

-----------------------------------------------------------------------------
(* Picking positions of a text.                                            *)

\* at lists the members of P, n of them, from the lowest to the highest.
Lists(at, n, P) ==
  /\ at \in [1..n -> P]
  /\ \A j, k \in 1..n : j < k => at[j] < at[k]
  /\ \A i \in P : \E k \in 1..n : at[k] = i

\* The first m listed are 1 to m.
Starts(at, m) == \A k \in 1..m : at[k] = k

\* new is src at the positions P, in their order.
Picks(new, src, P) ==
  \E at : Lists(at, Len(new), P) /\ \A k \in 1..Len(new) : new[k] = src[at[k]]

\* How many members a set has up to one of them.
Rank(P, i) == Cardinality({x \in P : x <= i})

\* No two members of a set have the same rank.
LEMMA RankUnique ==
  ASSUME NEW n \in Nat, NEW P \in SUBSET (1..n), NEW i \in P, NEW j \in P,
         Rank(P, i) = Rank(P, j)
  PROVE  i = j
<1> DEFINE U == {x \in P : x <= i}
           V == {x \in P : x <= j}
<1>1. i \in 1..n /\ j \in 1..n /\ \A x \in P : x \in 1..n
  OBVIOUS
<1>2. i \in U /\ j \in V
  BY <1>1
<1>3. U \in SUBSET V \/ V \in SUBSET U
  <2>1. i <= j => \A x \in P : x <= i => x <= j
    BY <1>1
  <2>2. j <= i => \A x \in P : x <= j => x <= i
    BY <1>1
  <2>3. i <= j \/ j <= i
    BY <1>1
  <2> QED
    BY <2>1, <2>2, <2>3
<1>4. IsFiniteSet(U) /\ IsFiniteSet(V) /\ Cardinality(U) = Cardinality(V)
  <2>1. IsFiniteSet(1..n)
    BY FS_Interval
  <2>2. U \in SUBSET (1..n) /\ V \in SUBSET (1..n)
    OBVIOUS
  <2>3. Cardinality(U) = Cardinality(V)
    BY DEF Rank
  <2> HIDE DEF U, V
  <2> QED
    BY <2>1, <2>2, <2>3, FS_Subset
<1>5. U = V
  <2> HIDE DEF U, V
  <2> QED
    BY <1>3, <1>4, FS_Subset
<1>6. i <= j /\ j <= i
  BY <1>2, <1>5
<1> QED
  BY <1>1, <1>6

\* The ranked members of a set of positions list it.
LEMMA RankedLists ==
  ASSUME NEW n \in Nat, NEW P \in SUBSET (1..n)
  PROVE  /\ IsFiniteSet(P) /\ Cardinality(P) \in Nat
         /\ Lists([k \in 1..Cardinality(P) |-> KthOf(P, k)], Cardinality(P), P)
<1> DEFINE m == Cardinality(P)
           at == [k \in 1..m |-> KthOf(P, k)]
           Upto(x) == {j \in P : j <= x}
<1>1. IsFiniteSet(P) /\ m \in Nat
  <2>1. IsFiniteSet(1..n)
    BY FS_Interval
  <2> QED
    BY <2>1, FS_Subset, FS_CardinalityType
<1>2. \A k \in 1..m : at[k] \in P /\ Cardinality(Upto(at[k])) = k
  BY KthOfMember
<1> HIDE DEF at, m
<1>3. ASSUME NEW x
      PROVE  IsFiniteSet(Upto(x)) /\ Cardinality(Upto(x)) \in Nat
  <2> DEFINE U == Upto(x)
  <2>1. U \in SUBSET P
    OBVIOUS
  <2> HIDE DEF U
  <2>2. IsFiniteSet(U) /\ Cardinality(U) \in Nat
    BY <1>1, <2>1, FS_Subset, FS_CardinalityType
  <2> QED
    BY <2>2 DEF U
<1>4. ASSUME NEW j \in 1..m, NEW k \in 1..m, j < k
      PROVE  at[j] < at[k]
  <2>1. at[j] \in 1..n /\ at[k] \in 1..n
    BY <1>2
  <2> SUFFICES ASSUME at[k] <= at[j]
               PROVE  FALSE
    BY <2>1
  <2> DEFINE U == Upto(at[j])
             V == Upto(at[k])
  <2>2. V \in SUBSET U
    <3>1. ASSUME NEW x \in P, x <= at[k]
          PROVE  x <= at[j]
      <4>1. x \in 1..n
        OBVIOUS
      <4> QED
        BY <4>1, <3>1, <2>1
    <3> QED
      BY <3>1
  <2>3. IsFiniteSet(U) /\ Cardinality(U) = j /\ Cardinality(V) = k
    BY <1>2, <1>3
  <2> HIDE DEF U, V
  <2>4. k <= j
    BY <2>2, <2>3, FS_Subset
  <2> QED
    BY <2>4, <1>4, <1>1
<1>5. ASSUME NEW i \in P
      PROVE  \E k \in 1..m : at[k] = i
  <2> DEFINE k == Cardinality(Upto(i))
  <2>1. k \in 1..m
    <3> DEFINE U == Upto(i)
    <3>1. U \in SUBSET P /\ i \in U
      OBVIOUS
    <3>2. IsFiniteSet(U) /\ k = Cardinality(U) /\ k \in Nat
      BY <1>3
    <3> HIDE DEF U, k
    <3>3. k <= Cardinality(P) /\ k # 0
      BY <1>1, <3>1, <3>2, FS_Subset, FS_EmptySet
    <3> QED
      BY <3>2, <3>3, <1>1 DEF m
  <2>2. at[k] \in P /\ Cardinality(Upto(at[k])) = k
    BY <2>1, <1>2
  <2>3. Rank(P, at[k]) = Rank(P, i)
    BY <2>2 DEF Rank
  <2>4. at[k] = i
    BY <2>2, <2>3, RankUnique
  <2> QED
    BY <2>1, <2>4
<1>6. at \in [1..m -> P]
  BY <1>2 DEF at
<1>7. Lists(at, m, P)
  BY <1>4, <1>5, <1>6 DEF Lists
<1> QED
  BY <1>1, <1>7 DEF at, m

\* Keeping positions of a text picks them.
LEMMA KeepAtPicks ==
  ASSUME NEW src \in Text, NEW P \in SUBSET (1..Len(src))
  PROVE  Picks(KeepAt(src, P), src, P)
<1> DEFINE n == Cardinality(P)
           at == [k \in 1..n |-> KthOf(P, k)]
<1>1. Len(src) \in Nat
  BY LenProperties DEF Text
<1>2. n \in Nat /\ Lists(at, n, P)
  BY <1>1, RankedLists
<1>3. KeepAt(src, P) = [k \in 1..n |-> src[KthOf(P, k)]]
  <2>1. {i \in 1..Len(src) : i \in P} = P
    OBVIOUS
  <2> QED
    BY <2>1 DEF KeepAt
<1>4. \A k \in 1..n : at[k] \in P /\ at[k] = KthOf(P, k)
  BY <1>2 DEF Lists
<1> HIDE DEF at, n
<1>5. Len(KeepAt(src, P)) = n
  <2> DEFINE new == [k \in 1..n |-> src[KthOf(P, k)]]
  <2>1. new \in Seq({src[i] : i \in 1..Len(src)})
    <3>1. \A k \in 1..n : KthOf(P, k) \in 1..Len(src)
      BY <1>4
    <3> QED
      BY <3>1, <1>2
  <2>2. DOMAIN new = 1..n
    OBVIOUS
  <2> HIDE DEF new
  <2>3. Len(new) = n
    BY <2>1, <2>2, <1>2, LenProperties
  <2> QED
    BY <1>3, <2>3 DEF new
<1>6. \A k \in 1..n : KeepAt(src, P)[k] = src[at[k]]
  BY <1>3, <1>4
<1> QED
  BY <1>2, <1>5, <1>6 DEF Picks

\* at takes the members of T, within 1..n, to those of S, within 1..l, in order.
Matches(at, n, T, l, S) ==
  /\ n \in Nat /\ T \in SUBSET (1..n)
  /\ l \in Nat /\ S \in SUBSET (1..l)
  /\ \A k \in T : at[k] \in S
  /\ \A j, k \in T : j < k => at[j] < at[k]
  /\ \A i \in S : \E k \in T : at[k] = i

LEMMA MatchesCount ==
  ASSUME NEW at, NEW n, NEW T, NEW l, NEW S, Matches(at, n, T, l, S)
  PROVE  /\ IsFiniteSet(S) /\ IsFiniteSet(T)
         /\ Cardinality(T) = Cardinality(S) /\ Cardinality(S) \in Nat
<1> DEFINE f == [k \in T |-> at[k]]
<1>1. f \in [T -> S] /\ \A i \in S : \E k \in T : f[k] = i
  BY DEF Matches
<1>2. ASSUME NEW j \in T, NEW k \in T, f[j] = f[k]
      PROVE  j = k
  <2>1. at[j] = at[k] /\ at[j] \in 1..l /\ at[k] \in 1..l /\ j \in 1..n /\ k \in 1..n
    BY <1>2 DEF Matches
  <2>2. ~(at[j] < at[k]) /\ ~(at[k] < at[j])
    BY <2>1
  <2>3. ~(j < k) /\ ~(k < j)
    BY <2>2 DEF Matches
  <2> QED
    BY <2>1, <2>3
<1> HIDE DEF f
<1>3. f \in Bijection(T, S)
  BY <1>1, <1>2 DEF Bijection, Injection, Surjection, IsInjective
<1>4. IsFiniteSet(T)
  <2>1. n \in Nat /\ T \in SUBSET (1..n)
    BY DEF Matches
  <2>2. IsFiniteSet(1..n)
    BY <2>1, FS_Interval
  <2> QED
    BY <2>1, <2>2, FS_Subset
<1> QED
  BY <1>3, <1>4, FS_Bijection, FS_CardinalityType DEF ExistsBijection

\* Matching sets have matching members of each rank.
LEMMA MatchesRank ==
  ASSUME NEW at, NEW n, NEW T, NEW l, NEW S, Matches(at, n, T, l, S)
  PROVE  \A r \in 1..Cardinality(S) : KthOf(T, r) \in T /\ KthOf(S, r) = at[KthOf(T, r)]
<1> TAKE r \in 1..Cardinality(S)
<1>n. n \in Nat
  BY DEF Matches
<1>T. T \in SUBSET (1..n)
  BY DEF Matches
<1>l. l \in Nat
  BY DEF Matches
<1>S. S \in SUBSET (1..l)
  BY DEF Matches
<1>1. Cardinality(T) = Cardinality(S) /\ Cardinality(S) \in Nat
  BY MatchesCount
<1>2. PICK t : t = KthOf(T, r)
  OBVIOUS
<1>3. PICK s : s = KthOf(S, r)
  OBVIOUS
<1>4. t \in T /\ Cardinality({j \in T : j <= t}) = r
  BY <1>n, <1>T, <1>1, <1>2, KthOfMember
<1>5. s \in S /\ Cardinality({i \in S : i <= s}) = r
  BY <1>l, <1>S, <1>1, <1>3, KthOfMember
<1>6. PICK u : u = at[t]
  OBVIOUS
<1>7. u \in S
  BY <1>4, <1>6 DEF Matches
<1> DEFINE U == {j \in T : j <= t}
           V == {i \in S : i <= u}
<1>8. Matches(at, n, U, l, V)
  <2>1. ASSUME NEW j \in T
        PROVE  at[j] \in 1..l /\ j \in 1..n /\ u \in 1..l /\ t \in 1..n
    BY <1>4, <1>7, <2>1 DEF Matches
  <2>2. ASSUME NEW j \in T
        PROVE  (j < t => at[j] < u) /\ (t < j => u < at[j]) /\ (j = t => at[j] = u)
    BY <1>4, <1>6, <2>2 DEF Matches
  <2>3. ASSUME NEW j \in T
        PROVE  j <= t <=> at[j] <= u
    BY <2>1, <2>2
  <2> QED
    BY <1>n, <1>T, <1>l, <1>S, <2>3 DEF Matches
<1> HIDE DEF U, V
<1>9. Cardinality(U) = Cardinality(V)
  BY <1>8, MatchesCount
<1>10. Rank(S, s) = Rank(S, u)
  BY <1>4, <1>5, <1>9 DEF Rank, U, V
<1>11. s = u
  BY <1>l, <1>S, <1>5, <1>7, <1>10, RankUnique
<1> QED
  BY <1>2, <1>3, <1>4, <1>6, <1>11

\* A pick of an initial segment starts with it.
LEMMA PicksInitial ==
  ASSUME NEW n \in Nat, NEW P, \A i \in P : i \in Nat /\ i # 0, NEW m \in Nat,
         \A i \in 1..m : i \in P, NEW at, Lists(at, n, P)
  PROVE  m <= n /\ Starts(at, m)
<1> USE DEF Lists
<1> DEFINE T == {k \in 1..m : ~(k \in 1..n /\ at[k] = k)}
<1>1. T = {}
  <2> SUFFICES ASSUME T # {}
               PROVE  FALSE
    OBVIOUS
  <2>1. PICK k \in T : \A y \in T : k <= y
    <3>1. T \in SUBSET Nat
      OBVIOUS
    <3> HIDE DEF T
    <3> QED
      BY <3>1, SmallestOf
  <2>2. k \in 1..m /\ k \in P
    OBVIOUS
  <2>3. PICK j \in 1..n : at[j] = k
    BY <2>2
  <2>4. CASE j < k
    <3>1. j \in 1..m /\ j \notin T
      BY <2>4, <2>1, <2>2
    <3> QED
      BY <3>1, <2>3, <2>4, <2>2
  <2>5. CASE k < j
    <3>1. k \in 1..n /\ at[k] < k /\ at[k] \in P
      BY <2>2, <2>3, <2>5
    <3>2. at[k] \in Nat
      BY <3>1
    <3>3. at[k] # 0
      BY <3>1
    <3>4. at[k] \in 1..m /\ at[k] \notin T
      BY <3>1, <3>2, <3>3, <2>1, <2>2
    <3>5. at[k] \in 1..n /\ at[at[k]] = at[k]
      BY <3>4
    <3> QED
      BY <3>5, <3>1, <3>2
  <2>6. CASE j = k
    BY <2>2, <2>3, <2>6
  <2> QED
    BY <2>2, <2>3, <2>4, <2>5, <2>6
<1>2. \A k \in 1..m : k \in 1..n /\ at[k] = k
  BY <1>1
<1>3. m <= n
  BY <1>2
<1> QED
  BY <1>2, <1>3 DEF Starts

\* Keeping some positions of a text leaves a text.
LEMMA KeepAtIsText ==
  ASSUME NEW src \in Text, NEW P
  PROVE  KeepAt(src, P) \in Text
<1> DEFINE kept == {i \in 1..Len(src) : i \in P}
<1>1. Len(src) \in Nat /\ \A i \in 1..Len(src) : src[i] \in Atom
  BY LenProperties, ElementOfSeq DEF Text
<1>2. Cardinality(kept) \in Nat
  <2>1. IsFiniteSet(1..Len(src)) /\ kept \in SUBSET (1..Len(src))
    BY <1>1, FS_Interval
  <2> QED
    BY <2>1, FS_Subset, FS_CardinalityType
<1>3. \A k \in 1..Cardinality(kept) : KthOf(kept, k) \in kept
  <2> HIDE DEF kept
  <2>1. kept \in SUBSET (1..Len(src))
    BY DEF kept
  <2> QED
    BY <1>1, <2>1, KthOfMember
<1>4. \A k \in 1..Cardinality(kept) : src[KthOf(kept, k)] \in Atom
  BY <1>1, <1>3
<1>5. KeepAt(src, P) = [k \in 1..Cardinality(kept) |-> src[KthOf(kept, k)]]
  BY DEF KeepAt
<1> HIDE DEF kept
<1> DEFINE out == [k \in 1..Cardinality(kept) |-> src[KthOf(kept, k)]]
<1>6. out \in [1..Cardinality(kept) -> Atom]
  BY <1>4
<1> HIDE DEF out
<1>7. out \in Seq(Atom)
  BY <1>2, <1>6
<1> QED
  BY <1>5, <1>7 DEF Text, out

-----------------------------------------------------------------------------

\* A comment's extent starts at its note, stays on its line and inside the file,
\* and a line comment's ends where the line does.
LEMMA LastOfInRange ==
  ASSUME NEW src \in Text, NEW i \in 1..Len(src), src[i] \in Note
  PROVE  /\ LastOf(src, i) \in i..Len(src)
         /\ \A k \in i..LastOf(src, i) : src[k] # NL
         /\ \/ ClosesItself(src[i])
            \/ LastOf(src, i) = Len(src)
            \/ src[LastOf(src, i) + 1] = NL
<1>1. Len(src) \in Nat
  BY LenProperties DEF Text
<1>2. src[i] # NL
  BY SourceAssumption DEF SourceAssumption
<1> DEFINE Ends == {j \in i..Len(src) : j = Len(src) \/ src[j + 1] = NL}
<1>3. Len(src) \in Ends
  BY <1>1
<1>4. Ends \in SUBSET Nat
  BY <1>1
<1> HIDE DEF Ends
<1>5. PICK j \in Ends : \A k \in Ends : j <= k
  BY <1>3, <1>4, SmallestOf
<1>6. j \in i..Len(src) /\ (j = Len(src) \/ src[j + 1] = NL)
  BY <1>5 DEF Ends
<1>7. ASSUME NEW k \in i..j
      PROVE  src[k] # NL
  <2>1. CASE k = i
    BY <1>2, <2>1
  <2>2. CASE k # i
    <3>1. k - 1 \in i..Len(src) /\ ~(j <= k - 1)
      BY <1>1, <1>6, <2>2
    <3>2. k - 1 \notin Ends
      BY <1>5, <3>1
    <3>3. src[(k - 1) + 1] # NL
      BY <3>1, <3>2 DEF Ends
    <3> QED
      BY <3>3
  <2> QED
    BY <2>1, <2>2
<1>8. i \in i..Len(src)
  BY <1>1
<1> QED
  BY <1>6, <1>7, <1>8 DEF LastOf

\* The line comments a block is made of.
Lines(src) == {n \in Nodes(src) : n.kind = "Line" /\ IsOwnLine(src, n.first)}

Follows(n, m) == n.first = m.last + 2

\* A maximal run of adjacent line comments, from a to b.
IsRun(src, a, b) ==
  /\ a \in Lines(src) /\ b \in Lines(src) /\ a.first <= b.first
  /\ \A m \in Lines(src) : a.first <= m.first /\ m.first < b.first
                             => \E n \in Lines(src) : Follows(n, m)
  /\ \A m \in Lines(src) : ~Follows(a, m) /\ ~Follows(m, b)

RunRecord(a, b) ==
  [first |-> a.first, last |-> b.last, kind |-> IF a = b THEN "Line" ELSE "Block"]

LEMMA NodeExtent ==
  ASSUME NEW src \in Text, NEW n \in Nodes(src)
  PROVE  /\ n.first \in 1..Len(src) /\ src[n.first] \in Note
         /\ ~Swallowed(src, n.first)
         /\ n.last \in n.first..Len(src) /\ n.last = LastOf(src, n.first)
         /\ n.kind = Classify(src, n.first)
         /\ \A k \in n.first..n.last : src[k] # NL
         /\ \/ ClosesItself(src[n.first])
            \/ n.last = Len(src)
            \/ src[n.last + 1] = NL
<1>1. PICK i \in 1..Len(src) :
        /\ src[i] \in Note /\ ~Swallowed(src, i)
        /\ n = [first |-> i, last |-> LastOf(src, i), kind |-> Classify(src, i)]
  BY DEF Nodes
<1>2. n.first = i /\ n.last = LastOf(src, i) /\ n.kind = Classify(src, i)
  BY <1>1
<1> QED
  BY <1>1, <1>2, LastOfInRange

\* An extracted record is a node that is no line comment standing on its own, or
\* a run of those.
LEMMA NodeOrRun ==
  ASSUME NEW src, NEW r \in Extract(src)
  PROVE  \/ r \in Nodes(src) /\ r \notin Lines(src)
         \/ \E a, b : IsRun(src, a, b) /\ r = RunRecord(a, b)
<1> SUFFICES ASSUME ~(r \in Nodes(src) /\ r \notin Lines(src))
             PROVE  \E a, b : IsRun(src, a, b) /\ r = RunRecord(a, b)
  OBVIOUS
<1> DEFINE lines == Lines(src)
           follows(n, m) == n.first = m.last + 2
           chain(a, b) ==
             /\ a.first <= b.first
             /\ \A m \in lines : a.first <= m.first /\ m.first < b.first
                                   => \E n \in lines : follows(n, m)
           runs == {q \in lines \X lines :
                      /\ chain(q[1], q[2])
                      /\ \A m \in lines : ~follows(q[1], m) /\ ~follows(m, q[2])}
<1>1. Extract(src) = (Nodes(src) \ lines) \cup
        {[first |-> q[1].first, last |-> q[2].last,
          kind |-> IF q[1] = q[2] THEN "Line" ELSE "Block"] : q \in runs}
  BY DEF Extract, Coalesce, Lines
<1> HIDE DEF runs, lines
<1>2. PICK q \in runs : r = RunRecord(q[1], q[2])
  BY <1>1 DEF RunRecord, lines
<1>3. IsRun(src, q[1], q[2])
  <2>1. q \in runs
    OBVIOUS
  <2> QED
    BY <2>1 DEF runs, lines, IsRun, Follows
<1> QED
  BY <1>2, <1>3

\* Every comment node is a well-formed record, coalesced or not.
LEMMA ExtractIsRecords ==
  ASSUME NEW src \in Text
  PROVE  Extract(src) \in SUBSET Record
<1>1. Len(src) \in Nat
  BY LenProperties DEF Text
<1>2. ASSUME NEW i \in 1..Len(src), src[i] \in Note
      PROVE  /\ Classify(src, i) \in Kind
             /\ LastOf(src, i) \in Nat /\ i <= LastOf(src, i)
  <2>1. ClassOf[src[i]] \in Kind
    BY <1>2, SourceAssumption DEF SourceAssumption
  <2>2. Classify(src, i) \in Kind
    BY <2>1 DEF Classify, Kind
  <2>3. LastOf(src, i) \in i..Len(src)
    BY <1>2, LastOfInRange
  <2> QED
    BY <1>1, <2>2, <2>3
<1>3. Nodes(src) \in SUBSET Record
  <2>1. SUFFICES ASSUME NEW n \in Nodes(src)
                 PROVE  n \in Record
    OBVIOUS
  <2>2. PICK i \in 1..Len(src) :
          /\ src[i] \in Note
          /\ n = [first |-> i, last |-> LastOf(src, i), kind |-> Classify(src, i)]
    BY DEF Nodes
  <2>3. i \in Nat \ {0}
    BY <1>1
  <2> QED
    BY <1>2, <2>2, <2>3 DEF Record
<1>4. ASSUME NEW nodes \in SUBSET Record
      PROVE  Coalesce(src, nodes) \in SUBSET Record
  <2> SUFFICES ASSUME NEW r \in Coalesce(src, nodes)
               PROVE  r \in Record
    OBVIOUS
  <2>1. CASE r \in nodes
    BY <2>1
  <2>2. CASE r \notin nodes
    <3>1. PICK a \in nodes, b \in nodes :
            /\ a.first <= b.first
            /\ r = [first |-> a.first, last |-> b.last,
                    kind |-> IF a = b THEN "Line" ELSE "Block"]
      BY <2>2, Zenon DEF Coalesce
    <3>2. a.first \in Nat \ {0} /\ b.first \in Nat /\ b.last \in Nat /\ b.first <= b.last
      BY DEF Record
    <3> QED
      BY <3>1, <3>2 DEF Record, Kind
  <2> QED
    BY <2>1, <2>2
<1> QED
  BY <1>3, <1>4 DEF Extract

\* Splicing an in-bounds record out of a text, and a text in, leaves a text.
LEMMA SpliceIsText ==
  ASSUME NEW src \in Text, NEW rec \in Record, NEW text \in Text,
         rec.last <= Len(src)
  PROVE  Splice(src, rec, text) \in Text
<1>1. Len(src) \in Nat /\ \A i \in 1..Len(src) : src[i] \in Atom
  BY LenProperties, ElementOfSeq DEF Text
<1>2. /\ rec.first \in Nat \ {0} /\ rec.last \in Nat
      /\ rec.first <= rec.last
  BY DEF Record
<1>3. SubSeq(src, 1, rec.first - 1) \in Seq(Atom)
  <2>1. \A i \in 1..(rec.first - 1) : src[i] \in Atom
    BY <1>1, <1>2
  <2>2. rec.first - 1 \in Int
    BY <1>2
  <2> QED
    BY <2>1, <2>2, SubSeqProperties
<1>4. SubSeq(src, rec.last + 1, Len(src)) \in Seq(Atom)
  <2>1. \A i \in (rec.last + 1)..Len(src) : src[i] \in Atom
    BY <1>1, <1>2
  <2>2. rec.last + 1 \in Int /\ Len(src) \in Int
    BY <1>1, <1>2
  <2> QED
    BY <2>1, <2>2, SubSeqProperties
<1>5. SubSeq(src, 1, rec.first - 1) \o text \in Seq(Atom)
  BY <1>3, ConcatProperties DEF Text
<1> QED
  BY <1>4, <1>5, ConcatProperties DEF Splice, Text

\* The sites of a batch are offsets: never negative.
LEMMA PointsAreNumbers ==
  ASSUME NEW recs \in SUBSET Record
  PROVE  PointsOf(recs) \in SUBSET Nat
<1> SUFFICES ASSUME NEW r \in recs
             PROVE  r.first - 1 - Cardinality({i \in Covered(recs) : i < r.first}) \in Nat
  BY DEF PointsOf
<1> DEFINE below == {i \in Covered(recs) : i < r.first}
<1>1. r.first \in Nat \ {0}
  BY DEF Record
<1>2. below \in SUBSET (1..(r.first - 1))
  <2> SUFFICES ASSUME NEW i \in Covered(recs), i < r.first
               PROVE  i \in 1..(r.first - 1)
    OBVIOUS
  <2>1. PICK s \in recs : i \in s.first..s.last
    BY DEF Covered, Span
  <2>2. s.first \in Nat \ {0} /\ s.last \in Nat
    BY DEF Record
  <2> QED
    BY <1>1, <2>1, <2>2
<1>3. IsFiniteSet(1..(r.first - 1)) /\ Cardinality(1..(r.first - 1)) = r.first - 1
  <2>1. r.first - 1 \in Int /\ r.first - 1 >= 0
    BY <1>1
  <2> DEFINE m == r.first - 1
  <2> HIDE DEF m, below
  <2>2. IsFiniteSet(1..m) /\ Cardinality(1..m) = IF 1 > m THEN 0 ELSE m - 1 + 1
    BY <2>1, FS_Interval DEF m
  <2>3. m = r.first - 1
    BY DEF m
  <2> QED
    BY <2>1, <2>2, <2>3
<1> HIDE DEF below
<1>4. Cardinality(below) \in Nat /\ Cardinality(below) <= r.first - 1
  BY <1>2, <1>3, FS_Subset, FS_CardinalityType
<1> QED
  BY <1>1, <1>4 DEF below

LEMMA TidyIsText ==
  ASSUME NEW src \in Text, NEW points
  PROVE  Tidy(src, points) \in Text
BY KeepAtIsText DEF Tidy

-----------------------------------------------------------------------------

\* Tidying never changes the stream of code leaves.
LEMMA TidyKeepsCode ==
  ASSUME NEW src, NEW points
  PROVE  CodeOf(Tidy(src, points)) = CodeOf(src)
BY DEF Tidy

\* The entries of a stream of leaves that are code, and no docstring.
Codes(sig) ==
  LET T == {k \in DOMAIN sig : sig[k].token \in Code}
  IN  [r \in 1..Cardinality(T) |-> sig[KthOf(T, r)]]

\* Whatever docstrings a stream was taken without, the author's code is what
\* code it has.
LEMMA CodeIsAuthorCode ==
  ASSUME NEW src \in Text, NEW X, \A i \in 1..Len(src) : i \in X => src[i] \notin Code
  PROVE  AuthorCode(src) = Codes(CodeSignature(src, X))
<1> DEFINE doc == {i \in 1..Len(src) : IsDocstringAt(src, i)}
           leaf(i) == [token |-> src[i], bare |-> BareSuite(src, i)]
           L == {i \in 1..Len(src) : IsLeaf(src, i) /\ i \notin X}
           S == {i \in 1..Len(src) : IsLeaf(src, i) /\ i \notin doc}
           at == [k \in 1..Cardinality(L) |-> KthOf(L, k)]
           T == {k \in 1..Cardinality(L) : src[at[k]] \in Code}
           sig == CodeSignature(src, X)
<1>1. S = {i \in L : src[i] \in Code}
  <2>1. ASSUME NEW i \in 1..Len(src), IsLeaf(src, i), ~IsDocstringAt(src, i)
        PROVE  src[i] \in Code /\ i \notin X
    BY <2>1 DEF IsLeaf
  <2>2. ASSUME NEW i \in 1..Len(src), src[i] \in Code
        PROVE  ~IsDocstringAt(src, i)
    BY <2>2, SourceAssumption DEF IsDocstringAt, SourceAssumption
  <2> QED
    BY <2>1, <2>2
<1>2. Len(src) \in Nat
  BY LenProperties DEF Text
<1>3. L \in SUBSET (1..Len(src)) /\ S \in SUBSET (1..Len(src))
  OBVIOUS
<1>4. sig = [k \in 1..Cardinality(L) |-> leaf(KthOf(L, k))]
  BY DEF CodeSignature
<1>5. AuthorCode(src) = [r \in 1..Cardinality(S) |-> leaf(KthOf(S, r))]
  BY DEF AuthorCode, CodeSignature
<1> HIDE DEF L, S, sig
<1>6. Cardinality(L) \in Nat /\ Lists(at, Cardinality(L), L)
  BY <1>2, <1>3, RankedLists
<1>7. \A k \in 1..Cardinality(L) : sig[k] = leaf(at[k])
  BY <1>4
<1>8. T = {k \in DOMAIN sig : sig[k].token \in Code}
  <2>1. DOMAIN sig = 1..Cardinality(L)
    BY <1>4
  <2>2. \A i : leaf(i).token = src[i]
    BY Zenon
  <2>3. \A k \in 1..Cardinality(L) : sig[k].token = src[at[k]]
    BY <1>7, <2>2, Zenon
  <2> QED
    BY <2>1, <2>3
<1>9. T \in SUBSET (1..Cardinality(L))
  OBVIOUS
<1> HIDE DEF at
<1>10. Matches(at, Cardinality(L), T, Len(src), S)
  BY <1>1, <1>2, <1>3, <1>6, <1>9 DEF Lists, Matches
<1> HIDE DEF T
<1>11. Codes(sig) = [r \in 1..Cardinality(T) |-> sig[KthOf(T, r)]]
  BY <1>8 DEF Codes
<1>12. Cardinality(T) = Cardinality(S)
  BY <1>10, MatchesCount
<1>13. \A r \in 1..Cardinality(S) : KthOf(T, r) \in T /\ KthOf(S, r) = at[KthOf(T, r)]
  BY <1>10, MatchesRank
<1>14. ASSUME NEW r \in 1..Cardinality(S)
       PROVE  leaf(KthOf(S, r)) = sig[KthOf(T, r)]
  BY <1>7, <1>9, <1>13
<1> QED
  BY <1>5, <1>11, <1>12, <1>14 DEF sig

\* Two texts with the same stream, docstrings left out or not, have the same code.
LEMMA SameCode ==
  ASSUME NEW src \in Text, NEW X, \A i \in 1..Len(src) : i \in X => src[i] \notin Code,
         NEW new \in Text, NEW Y, \A i \in 1..Len(new) : i \in Y => new[i] \notin Code,
         CodeSignature(src, X) = CodeSignature(new, Y)
  PROVE  AuthorCode(src) = AuthorCode(new)
BY CodeIsAuthorCode

LEMMA TidyKeepsAuthorCode ==
  ASSUME NEW src \in Text, NEW points
  PROVE  AuthorCode(Tidy(src, points)) = AuthorCode(src)
<1>1. Tidy(src, points) \in Text
  BY TidyIsText
<1>2. CodeSignature(Tidy(src, points), {}) = CodeSignature(src, {})
  BY TidyKeepsCode DEF CodeOf
<1> HIDE DEF Tidy
<1> QED
  BY <1>1, <1>2, SameCode

\* An edit the applier accepts keeps the author's code, unless the range it has
\* for a docstring covers code by now.
LEMMA EditKeepsCode ==
  ASSUME NEW src \in Text, NEW rec \in Record, NEW text \in Text,
         CommentEditOk(src, rec, text),
         IsCodeNode(rec) => \A i \in Span(rec) : src[i] \notin Code
  PROVE  AuthorCode(Splice(src, rec, text)) = AuthorCode(src)
<1> DEFINE new == Splice(src, rec, text)
           old == IF IsCodeNode(rec) THEN Span(rec) ELSE {}
           kept == IF IsCodeNode(rec) THEN DocstringAt(new, rec.first) ELSE {}
<1>1. new \in Text
  BY SpliceIsText DEF CommentEditOk
<1>2. CodeSignature(src, old) = CodeSignature(new, kept)
  BY DEF CommentEditOk
<1>3. \A i \in 1..Len(src) : i \in old => src[i] \notin Code
  OBVIOUS
<1> HIDE DEF new
<1>4. \A i \in 1..Len(new) : i \in kept => new[i] \notin Code
  BY SourceAssumption DEF DocstringAt, IsDocstringAt, SourceAssumption
<1> HIDE DEF old, kept
<1>5. AuthorCode(src) = AuthorCode(new)
  BY <1>1, <1>2, <1>3, <1>4, SameCode
<1> QED
  BY <1>5 DEF new

\* A docstring an extraction finds is one note.
LEMMA DocstringIsNote ==
  ASSUME NEW src \in Text, NEW r \in Extract(src), r.kind = "Docstring"
  PROVE  r.first = r.last /\ src[r.first] \in Note
<1>1. r \in Nodes(src)
  BY NodeOrRun DEF RunRecord
<1>2. Classify(src, r.first) = "Docstring" /\ r.last = LastOf(src, r.first)
  BY <1>1, NodeExtent
<1>3. ClosesItself(src[r.first])
  BY <1>2 DEF Classify, ClosesItself
<1> QED
  BY <1>1, <1>2, <1>3, NodeExtent DEF LastOf

\* A batch of removals that verifies keeps the author's code.
LEMMA BatchKeepsCode ==
  ASSUME NEW src \in Text, NEW recs, recs \subseteq Extract(src), BatchOk(src, recs)
  PROVE  AuthorCode(BatchText(src, recs)) = AuthorCode(src)
<1> DEFINE spans == Covered({r \in recs : IsCodeNode(r)})
           new == BatchText(src, recs)
<1>1. new \in Text
  BY KeepAtIsText DEF BatchText
<1>2. CodeSignature(src, spans) = CodeSignature(new, {})
  BY DEF BatchOk, CodeOf
<1>3. ASSUME NEW i \in 1..Len(src), i \in spans
      PROVE  src[i] \notin Code
  <2>1. PICK r \in recs : IsCodeNode(r) /\ i \in Span(r)
    BY <1>3 DEF Covered
  <2>2. r.first = r.last /\ src[r.first] \in Note
    BY <2>1, DocstringIsNote DEF IsCodeNode
  <2>3. r \in Record
    BY ExtractIsRecords
  <2>4. i = r.first
    BY <2>1, <2>2, <2>3 DEF Span, Record
  <2> QED
    BY <2>2, <2>4, SourceAssumption DEF SourceAssumption
<1> HIDE DEF spans, new
<1>4. AuthorCode(src) = AuthorCode(new)
  BY <1>1, <1>2, <1>3, SameCode
<1> QED
  BY <1>4 DEF new
=============================================================================
