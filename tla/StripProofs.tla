---------------------------- MODULE StripProofs ----------------------------
(***************************************************************************)
(* TLAPS proofs about what the deleting side of SafeApply leaves in a      *)
(* file, for every text, policy and number of clients: a strip pass keeps  *)
(* each comment its policy protects (StripKeepsProtected), neither a       *)
(* removal nor a strip pass takes a behavior-bearing comment out of effect *)
(* (RemovalKeepsBearing), and where only strip passes write, a file keeps  *)
(* its code in every language (CodeKept).                                  *)
(*                                                                         *)
(* Everything a pass plans is the source at some of its positions, so a    *)
(* plan is described by the positions it picks.  Three facts about         *)
(* extraction carry the proofs: records never overlap, a record that holds *)
(* a newline starts a line, and a line comment ends where its line does.   *)
(***************************************************************************)
EXTENDS SafeApplyProofs

\* Whoever drops a newline and keeps something before it keeps, or has, an
\* earlier newline after that.
EndsLines(src, P) ==
  \A p \in (1..Len(src)) \ P, q \in P :
    src[p] = NL /\ q < p => \E e \in q..(p - 1) : src[e] = NL

-----------------------------------------------------------------------------
(* What else a pick keeps.                                                 *)

LEMMA LargestOf ==
  ASSUME NEW n \in Nat, NEW T \in SUBSET (0..n), T # {}
  PROVE  \E x \in T : \A y \in T : y <= x
<1> DEFINE U == {m \in 0..n : n - m \in T}
<1>1. U \in SUBSET Nat
  OBVIOUS
<1>2. U # {}
  <2>1. PICK y \in T : TRUE
    OBVIOUS
  <2>2. n - y \in 0..n /\ n - (n - y) = y
    OBVIOUS
  <2> QED
    BY <2>1, <2>2
<1>3. PICK m \in U : \A k \in U : m <= k
  <2> HIDE DEF U
  <2> QED
    BY <1>1, <1>2, SmallestOf
<1>4. ASSUME NEW y \in T
      PROVE  y <= n - m
  <2>1. n - y \in 0..n /\ n - (n - y) = y
    OBVIOUS
  <2>2. m <= n - y
    BY <2>1, <1>3
  <2> QED
    BY <2>2, <1>3
<1> QED
  BY <1>3, <1>4

LEMMA WholePicks ==
  ASSUME NEW src \in Text
  PROVE  Picks(src, src, 1..Len(src))
<1> DEFINE at == [k \in 1..Len(src) |-> k]
<1>1. at \in [1..Len(src) -> 1..Len(src)] /\ \A k \in 1..Len(src) : at[k] = k
  OBVIOUS
<1> HIDE DEF at
<1> QED
  BY <1>1 DEF Picks, Lists

\* A pick has as many of a note as the positions it picks.
LEMMA PicksCount ==
  ASSUME NEW src \in Text, NEW new \in Text, NEW P \in SUBSET (1..Len(src)),
         Picks(new, src, P), NEW n
  PROVE  Times(n, new, Nat) = Times(n, src, P)
<1>1. Len(src) \in Nat /\ Len(new) \in Nat
  BY LenProperties DEF Text
<1>2. PICK at \in [1..Len(new) -> P] :
        /\ \A j, k \in 1..Len(new) : j < k => at[j] < at[k]
        /\ \A i \in P : \E k \in 1..Len(new) : at[k] = i
        /\ \A k \in 1..Len(new) : new[k] = src[at[k]]
  BY DEF Picks, Lists
<1> DEFINE S == {k \in (1..Len(new)) \cap Nat : new[k] = n}
           T == {i \in (1..Len(src)) \cap P : src[i] = n}
           f == [k \in S |-> at[k]]
<1>3. \A k \in S : k \in 1..Len(new) /\ at[k] \in T
  BY <1>2
<1>4. \A i \in T : \E k \in S : f[k] = i
  BY <1>2
<1>5. \A j, k \in S : f[j] = f[k] => j = k
  <2> SUFFICES ASSUME NEW j \in S, NEW k \in S, at[j] = at[k], j # k
               PROVE  FALSE
    OBVIOUS
  <2>1. at[j] \in 1..Len(src) /\ at[k] \in 1..Len(src) /\ j \in 1..Len(new) /\ k \in 1..Len(new)
    BY <1>3
  <2>2. j < k \/ k < j
    BY <2>1, <1>1
  <2>3. at[j] < at[k] \/ at[k] < at[j]
    BY <2>1, <2>2, <1>2
  <2> QED
    BY <2>1, <2>3, <1>1
<1>6. f \in Bijection(S, T)
  <2>1. f \in [S -> T]
    BY <1>3
  <2> HIDE DEF f, S, T
  <2> QED
    BY <2>1, <1>4, <1>5 DEF Bijection, Injection, Surjection, IsInjective
<1>7. IsFiniteSet(S)
  <2>1. IsFiniteSet(1..Len(new)) /\ S \in SUBSET (1..Len(new))
    BY <1>1, FS_Interval
  <2> HIDE DEF S
  <2> QED
    BY <2>1, FS_Subset
<1> HIDE DEF S, T, f
<1>8. Cardinality(S) = Cardinality(T)
  BY <1>6, <1>7, FS_Bijection DEF ExistsBijection
<1> QED
  BY <1>8 DEF Times, S, T

\* Deleting a range none of whose positions, or those before, was dropped.
LEMMA SplicePicks ==
  ASSUME NEW src \in Text, NEW x \in Text, NEW P \in SUBSET (1..Len(src)),
         Picks(x, src, P), NEW r \in Record, 1..r.last \subseteq P
  PROVE  /\ r.last <= Len(x)
         /\ Picks(Splice(x, r, <<>>), src, P \ Span(r))
<1> DEFINE a == r.first
           b == r.last
           w == b - a + 1
           y == Splice(x, r, <<>>)
<1>1. Len(src) \in Nat /\ Len(x) \in Nat /\ x \in Seq(Atom)
  BY LenProperties DEF Text
<1>2. /\ a \in Nat /\ b \in Nat /\ 1 <= a /\ a <= b /\ Span(r) = a..b
      /\ w \in Nat /\ w = b - a + 1
  BY DEF Record, Span
<1>14. \A i \in 1..b : i \in P
  OBVIOUS
<1>15. y = SubSeq(x, 1, a - 1) \o <<>> \o SubSeq(x, b + 1, Len(x))
  BY DEF Splice
<1> HIDE DEF a, b, w, y
<1>16. PICK at : Lists(at, Len(x), P) /\ \A k \in 1..Len(x) : x[k] = src[at[k]]
  BY DEF Picks
<1>3. /\ at \in [1..Len(x) -> P]
      /\ \A j, k \in 1..Len(x) : j < k => at[j] < at[k]
      /\ \A i \in P : \E k \in 1..Len(x) : at[k] = i
      /\ \A k \in 1..Len(x) : x[k] = src[at[k]]
  BY <1>16 DEF Lists
<1>4. b <= Len(x) /\ \A k \in 1..b : at[k] = k
  <2>1. \A i \in P : i \in Nat /\ i # 0
    OBVIOUS
  <2>2. Len(x) \in Nat /\ b \in Nat
    BY <1>1, <1>2
  <2>3. Lists(at, Len(x), P)
    BY <1>16
  <2>4. PICK n : n = Len(x)
    OBVIOUS
  <2>5. n \in Nat /\ Lists(at, n, P)
    BY <2>2, <2>3, <2>4
  <2>6. b <= n /\ Starts(at, b)
    BY <2>1, <2>2, <2>5, <1>14, PicksInitial
  <2> QED
    BY <2>4, <2>6 DEF Starts
<1>5. /\ Len(y) = Len(x) - w /\ Len(y) \in Nat
      /\ \A k \in 1..Len(y) : y[k] = IF k < a THEN x[k] ELSE x[k + w]
  <2> DEFINE s == SubSeq(x, 1, a - 1)
             t == SubSeq(x, b + 1, Len(x))
  <2>1. /\ s \in Seq(Atom) /\ Len(s) = a - 1
        /\ \A k \in 1..(a - 1) : s[k] = x[k]
    <3>1. \A i \in 1..(a - 1) : x[i] \in Atom
      BY <1>1, <1>2, <1>4, ElementOfSeq
    <3> QED
      BY <3>1, <1>2, SubSeqProperties
  <2>2. /\ t \in Seq(Atom) /\ Len(t) = Len(x) - b
        /\ \A k \in 1..(Len(x) - b) : t[k] = x[b + k]
    <3>1. \A i \in (b + 1)..Len(x) : x[i] \in Atom
      BY <1>1, <1>2, <1>4, ElementOfSeq
    <3>2. /\ t \in Seq(Atom)
          /\ Len(t) = IF b + 1 <= Len(x) THEN Len(x) - (b + 1) + 1 ELSE 0
          /\ \A k \in 1..(Len(x) - (b + 1) + 1) : t[k] = x[(b + 1) + k - 1]
      BY <3>1, <1>1, <1>2, SubSeqProperties
    <3>3. \A k \in 1..(Len(x) - b) : (b + 1) + k - 1 = b + k
      BY <1>1, <1>2
    <3>4. Len(x) - (b + 1) + 1 = Len(x) - b
      BY <1>1, <1>2
    <3>5. Len(t) = Len(x) - b
      <4>1. b + 1 <= Len(x) \/ Len(x) = b
        BY <1>1, <1>2, <1>4
      <4>2. CASE b + 1 <= Len(x)
        BY <4>2, <3>2, <3>4
      <4>3. CASE Len(x) = b
        <5>1. Len(t) = 0
          BY <4>3, <3>2, <1>2
        <5> QED
          BY <4>3, <5>1, <1>2
      <4> QED
        BY <4>1, <4>2, <4>3
    <3>6. ASSUME NEW k \in 1..(Len(x) - b)
          PROVE  t[k] = x[b + k]
      <4>1. t[k] = x[(b + 1) + k - 1]
        BY <3>2, <3>4
      <4> QED
        BY <4>1, <3>3
    <3> QED
      BY <3>2, <3>5, <3>6
  <2>3. y = s \o <<>> \o t
    BY <1>15
  <2> HIDE DEF s, t
  <2>4. s \o <<>> = s
    BY <2>1, ConcatEmptySeq
  <2>8. y = s \o t
    BY <2>3, <2>4
  <2>5. /\ Len(y) = Len(s) + Len(t)
        /\ \A k \in 1..(Len(s) + Len(t)) : y[k] = IF k <= Len(s) THEN s[k] ELSE t[k - Len(s)]
    BY <2>1, <2>2, <2>8, ConcatProperties
  <2>6. Len(y) = Len(x) - w /\ Len(y) \in Nat
    BY <2>1, <2>2, <2>5, <1>1, <1>2, <1>4
  <2>7. ASSUME NEW k \in 1..Len(y)
        PROVE  y[k] = IF k < a THEN x[k] ELSE x[k + w]
    <3>1. CASE k < a
      <4>1. k \in 1..(a - 1) /\ k <= Len(s)
        BY <3>1, <2>1, <2>6, <1>1, <1>2
      <4> QED
        BY <3>1, <4>1, <2>1, <2>5
    <3>2. CASE ~(k < a)
      <4>0. k \in Nat /\ a <= k /\ k <= Len(x) - w /\ Len(s) = a - 1
        BY <3>2, <2>1, <2>6, <1>1, <1>2
      <4>1. k - Len(s) \in 1..(Len(x) - b) /\ ~(k <= Len(s)) /\ b + (k - Len(s)) = k + w
        BY <4>0, <1>1, <1>2
      <4>2. y[k] = t[k - Len(s)]
        BY <4>1, <2>5
      <4> QED
        BY <3>2, <4>1, <4>2, <2>2
    <3> QED
      BY <3>1, <3>2
  <2> QED
    BY <2>6, <2>7
<1> DEFINE bt == [k \in 1..Len(y) |-> IF k < a THEN at[k] ELSE at[k + w]]
<1>6. ASSUME NEW k \in 1..Len(y)
      PROVE  /\ k < a => k \in 1..Len(x) /\ k \in 1..b /\ at[k] = k
             /\ ~(k < a) => k + w \in 1..Len(x) /\ b < k + w
  BY <1>1, <1>2, <1>4, <1>5
<1>7. b \in 1..Len(x) /\ at[b] = b
  BY <1>1, <1>2, <1>4
<1>8. ASSUME NEW k \in 1..Len(y)
      PROVE  bt[k] \in P \ Span(r)
  <2>1. CASE k < a
    BY <2>1, <1>2, <1>3, <1>6
  <2>2. CASE ~(k < a)
    <3>1. b < at[k + w] /\ at[k + w] \in P
      BY <2>2, <1>3, <1>6, <1>7
    <3> QED
      BY <2>2, <3>1, <1>1, <1>2
  <2> QED
    BY <2>1, <2>2
<1>9. ASSUME NEW j \in 1..Len(y), NEW k \in 1..Len(y), j < k
      PROVE  bt[j] < bt[k]
  <2>1. CASE k < a
    BY <2>1, <1>2, <1>3, <1>5, <1>6, <1>9
  <2>2. CASE j < a /\ ~(k < a)
    <3>1. at[j] = j /\ b < at[k + w] /\ at[k + w] \in P
      BY <2>2, <1>3, <1>6, <1>7
    <3>2. at[k + w] \in 1..Len(src) /\ j \in Nat /\ j < a
      <4>1. j \in Nat
        BY <1>5
      <4> QED
        BY <2>2, <3>1, <4>1
    <3>3. j < at[k + w]
      BY <3>1, <3>2, <1>1, <1>2
    <3>4. bt[j] = j /\ bt[k] = at[k + w]
      BY <2>2, <3>1
    <3> QED
      BY <3>3, <3>4
  <2>3. CASE ~(j < a)
    <3>1. j + w < k + w /\ ~(k < a)
      BY <2>3, <1>2, <1>5, <1>9
    <3>2. at[j + w] < at[k + w]
      BY <2>3, <3>1, <1>3, <1>6
    <3> QED
      BY <2>3, <3>1, <3>2
  <2> QED
    BY <2>1, <2>2, <2>3
<1>10. ASSUME NEW i \in P \ Span(r)
       PROVE  \E k \in 1..Len(y) : bt[k] = i
  <2>1. PICK k \in 1..Len(x) : at[k] = i
    BY <1>3
  <2>2. i \in 1..Len(src)
    OBVIOUS
  <2>3. k < a \/ b < k
    <3>1. k \in 1..b => k = i
      BY <2>1, <1>4
    <3> QED
      BY <3>1, <2>1, <1>1, <1>2
  <2>4. CASE k < a
    <3>1. k \in 1..Len(y)
      BY <2>4, <2>1, <1>1, <1>2, <1>4, <1>5
    <3> QED
      BY <2>1, <2>4, <3>1
  <2>5. CASE b < k
    <3>1. k - w \in 1..Len(y) /\ ~(k - w < a) /\ (k - w) + w = k
      BY <2>5, <2>1, <1>1, <1>2, <1>4, <1>5
    <3>2. bt[k - w] = at[(k - w) + w]
      BY <3>1
    <3> QED
      BY <2>1, <3>1, <3>2
  <2> QED
    BY <2>3, <2>4, <2>5
<1>11. ASSUME NEW k \in 1..Len(y)
       PROVE  y[k] = src[bt[k]]
  BY <1>3, <1>5, <1>6
<1>12. bt \in [1..Len(y) -> P \ Span(r)]
  BY <1>8
<1> HIDE DEF bt
<1>13. Picks(y, src, P \ Span(r))
  BY <1>9, <1>10, <1>11, <1>12 DEF Picks, Lists
<1> QED
  BY <1>4, <1>13 DEF b, y


-----------------------------------------------------------------------------
(* What an extraction's records cover.                                     *)

\* A node is known by where it starts.
LEMMA SameNode ==
  ASSUME NEW src \in Text, NEW n \in Nodes(src), NEW m \in Nodes(src), n.first = m.first
  PROVE  n = m
<1>1. PICK i \in 1..Len(src) :
        n = [first |-> i, last |-> LastOf(src, i), kind |-> Classify(src, i)]
  BY DEF Nodes
<1>2. PICK j \in 1..Len(src) :
        m = [first |-> j, last |-> LastOf(src, j), kind |-> Classify(src, j)]
  BY DEF Nodes
<1>3. i = j
  BY <1>1, <1>2
<1> QED
  BY <1>1, <1>2, <1>3

\* A node ends before the next one starts.
LEMMA NodesInOrder ==
  ASSUME NEW src \in Text, NEW n \in Nodes(src), NEW m \in Nodes(src), n.first < m.first
  PROVE  n.last < m.first
<1> SUFFICES ASSUME m.first <= n.last
             PROVE  FALSE
  <2>1. n.last \in Int /\ m.first \in Int
    BY NodeExtent
  <2> QED
    BY <2>1
<1>1. /\ n.first \in 1..Len(src) /\ m.first \in 1..Len(src)
      /\ src[n.first] \in Note /\ ~Swallowed(src, m.first)
      /\ n.last \in n.first..Len(src) /\ n.last = LastOf(src, n.first)
      /\ \A k \in n.first..n.last : src[k] # NL
  BY NodeExtent
<1>2. ~ClosesItself(src[n.first])
  <2> SUFFICES ASSUME ClosesItself(src[n.first])
               PROVE  FALSE
    OBVIOUS
  <2>1. n.last = n.first
    BY <1>1 DEF LastOf
  <2> QED
    BY <1>1, <2>1
<1>3. n.first \in 1..(m.first - 1) /\ \A k \in n.first..m.first : src[k] # NL
  BY <1>1
<1> QED
  BY <1>1, <1>2, <1>3 DEF Swallowed

LEMMA NodesApart ==
  ASSUME NEW src \in Text, NEW n \in Nodes(src), NEW m \in Nodes(src),
         NEW p \in Span(n), p \in Span(m)
  PROVE  n = m
<1>1. n.first \in Nat /\ n.last \in Nat /\ m.first \in Nat /\ m.last \in Nat
  <2>1. Len(src) \in Nat
    BY LenProperties DEF Text
  <2> QED
    BY <2>1, NodeExtent
<1>2. p \in n.first..n.last /\ p \in m.first..m.last
  BY DEF Span
<1>3. ~(n.first < m.first) /\ ~(m.first < n.first)
  BY <1>1, <1>2, NodesInOrder
<1> QED
  BY <1>1, <1>3, SameNode

\* A line comment ends where its line does.
LEMMA LineEnds ==
  ASSUME NEW src \in Text, NEW n \in Lines(src)
  PROVE  n.last = Len(src) \/ src[n.last + 1] = NL
<1>1. n \in Nodes(src) /\ n.kind = "Line" /\ src[n.first] \in Note
  BY NodeExtent DEF Lines
<1>2. Classify(src, n.first) = "Line"
  BY <1>1, NodeExtent
<1>3. ~ClosesItself(src[n.first])
  BY <1>2 DEF Classify, ClosesItself
<1> QED
  BY <1>1, <1>3, NodeExtent

\* A position inside a run of line comments is in one of them or ends one.
LEMMA RunCovers ==
  ASSUME NEW src \in Text, NEW a, NEW b, IsRun(src, a, b), NEW p \in a.first..b.last
  PROVE  \E m \in Lines(src) : /\ a.first <= m.first /\ m.first <= p
                               /\ p \in Span(m) \/ (p = m.last + 1 /\ src[p] = NL)
<1>1. Len(src) \in Nat
  BY LenProperties DEF Text
<1>2. /\ a \in Lines(src) /\ b \in Lines(src) /\ a.first <= b.first
      /\ Lines(src) \subseteq Nodes(src)
  BY DEF IsRun, Lines
<1>3. \A m \in Lines(src) : m.first \in 1..Len(src) /\ m.last \in m.first..Len(src)
  BY <1>2, NodeExtent
<1>4. a.first \in Nat /\ b.first \in Nat /\ b.last \in Nat /\ b.last <= Len(src) /\ p \in Nat
  BY <1>1, <1>2, <1>3
<1> DEFINE T == {m.first : m \in {n \in Lines(src) : n.first <= p}}
<1>5. PICK x \in T : \A y \in T : y <= x
  <2>1. a.first \in T
    BY <1>2, <1>4
  <2>2. T \in SUBSET (0..Len(src))
    BY <1>1, <1>3
  <2> HIDE DEF T
  <2> QED
    BY <1>1, <2>1, <2>2, LargestOf
<1>6. PICK m \in Lines(src) : m.first <= p /\ m.first = x
  OBVIOUS
<1>7. a.first <= m.first
  BY <1>2, <1>4, <1>5, <1>6
<1>8. CASE p <= m.last
  BY <1>3, <1>4, <1>6, <1>7, <1>8 DEF Span
<1>9. CASE m.last < p
  <2>1. m.first < b.first
    <3> SUFFICES ASSUME b.first <= m.first
                 PROVE  FALSE
      BY <1>3, <1>4, <1>6
    <3>1. b.first = m.first
      <4>1. b.first < m.first => b.last < m.first
        BY <1>2, NodesInOrder
      <4> QED
        BY <4>1, <1>3, <1>4, <1>6
    <3>2. b = m
      BY <1>2, <3>1, SameNode
    <3> QED
      BY <3>2, <1>9, <1>4
  <2>2. PICK n \in Lines(src) : Follows(n, m)
    BY <1>7, <2>1 DEF IsRun
  <2>3. ~(n.first <= p)
    <3> SUFFICES ASSUME n.first <= p
                 PROVE  FALSE
      OBVIOUS
    <3>1. n.first <= m.first
      BY <1>5, <1>6
    <3> QED
      BY <3>1, <2>2, <1>1, <1>3 DEF Follows
  <2>4. p = m.last + 1 /\ m.last # Len(src)
    BY <2>2, <2>3, <1>1, <1>3, <1>4, <1>9 DEF Follows
  <2>5. src[p] = NL
    BY <2>4, LineEnds
  <2> QED
    BY <1>6, <1>7, <2>4, <2>5
<1> QED
  BY <1>3, <1>4, <1>8, <1>9


\* A record ends inside the file.
LEMMA ExtractInRange ==
  ASSUME NEW src \in Text, NEW r \in Extract(src)
  PROVE  r.last \in 1..Len(src)
<1>1. Len(src) \in Nat
  BY LenProperties DEF Text
<1>2. ASSUME NEW n \in Nodes(src)
      PROVE  n.last \in 1..Len(src)
  BY <1>1, NodeExtent
<1>3. ASSUME NEW a, NEW b, IsRun(src, a, b)
      PROVE  RunRecord(a, b).last \in 1..Len(src)
  BY <1>2, <1>3 DEF IsRun, Lines, RunRecord
<1> QED
  BY <1>2, <1>3, NodeOrRun

\* A run starts where every run that meets it does.
LEMMA RunsStartTogether ==
  ASSUME NEW src \in Text, NEW a, NEW b, NEW c, NEW d,
         IsRun(src, a, b), IsRun(src, c, d),
         NEW p, p \in a.first..b.last, p \in c.first..d.last
  PROVE  c.first <= a.first
<1>1. Len(src) \in Nat
  BY LenProperties DEF Text
<1>2. /\ a \in Lines(src) /\ b \in Lines(src) /\ c \in Lines(src)
      /\ Lines(src) \subseteq Nodes(src)
  BY DEF IsRun, Lines
<1>3. \A m \in Lines(src) : m.first \in 1..Len(src) /\ m.last \in m.first..Len(src)
  BY <1>2, NodeExtent
<1> SUFFICES ASSUME a.first < c.first
             PROVE  FALSE
  BY <1>1, <1>2, <1>3
<1>4. c.first <= b.first
  <2> SUFFICES ASSUME b.first < c.first
               PROVE  FALSE
    BY <1>1, <1>2, <1>3
  <2>1. b.last < c.first
    BY <1>2, NodesInOrder
  <2>2. b.last \in Nat /\ c.first \in Nat
    BY <1>1, <1>2, <1>3
  <2> QED
    BY <2>1, <2>2
<1> DEFINE T == {m.first : m \in {n \in Lines(src) : n.first < c.first}}
<1>5. PICK x \in T : \A y \in T : y <= x
  <2>1. a.first \in T
    BY <1>2
  <2>2. T \in SUBSET (0..Len(src))
    BY <1>1, <1>3
  <2> HIDE DEF T
  <2> QED
    BY <1>1, <2>1, <2>2, LargestOf
<1>6. PICK m \in Lines(src) : m.first < c.first /\ m.first = x
  OBVIOUS
<1>7. a.first <= m.first /\ m.first < b.first
  <2>1. a.first <= m.first
    BY <1>2, <1>5, <1>6
  <2> QED
    BY <2>1, <1>1, <1>2, <1>3, <1>4, <1>6
<1>8. PICK n \in Lines(src) : Follows(n, m)
  BY <1>7 DEF IsRun
<1>9. ~(n.first < c.first)
  <2> SUFFICES ASSUME n.first < c.first
               PROVE  FALSE
    OBVIOUS
  <2>1. n.first <= m.first
    BY <1>5, <1>6
  <2> QED
    BY <2>1, <1>8, <1>1, <1>3 DEF Follows
<1>10. m.last < c.first
  BY <1>2, <1>6, NodesInOrder
<1>11. c.first # m.last + 1
  <2> SUFFICES ASSUME c.first = m.last + 1
               PROVE  FALSE
    OBVIOUS
  <2>1. m.last # Len(src)
    BY <1>1, <1>2, <1>3
  <2>2. src[c.first] = NL
    BY <2>1, LineEnds
  <2>3. src[c.first] # NL
    <3>1. c.first \in c.first..c.last
      BY <1>1, <1>2, <1>3
    <3> QED
      BY <3>1, <1>2, NodeExtent
  <2> QED
    BY <2>2, <2>3
<1>12. Follows(c, m)
  <2>1. c.first \in 1..Len(src) /\ m.last \in m.first..Len(src) /\ m.first \in 1..Len(src)
    BY <1>2, <1>3
  <2>2. n.first = m.last + 2
    BY <1>8 DEF Follows
  <2>3. c.first = m.last + 2
    BY <1>1, <1>9, <1>10, <1>11, <2>1, <2>2
  <2> QED
    BY <2>3 DEF Follows
<1> QED
  BY <1>12 DEF IsRun

\* Records of an extraction do not overlap.
LEMMA ExtractApart ==
  ASSUME NEW src \in Text, NEW r \in Extract(src), NEW s \in Extract(src),
         NEW p \in Span(r), p \in Span(s)
  PROVE  r = s
<1>1. Len(src) \in Nat
  BY LenProperties DEF Text
<1>2. ASSUME NEW n \in Nodes(src), n \notin Lines(src), p \in Span(n),
             NEW a, NEW b, IsRun(src, a, b), p \in a.first..b.last
      PROVE  FALSE
  <2>1. PICK m \in Lines(src) : p \in Span(m) \/ src[p] = NL
    BY <1>2, RunCovers
  <2>2. src[p] # NL
    BY <1>2, NodeExtent DEF Span
  <2>3. m = n
    BY <1>2, <2>1, <2>2, NodesApart DEF Lines
  <2> QED
    BY <1>2, <2>3
<1>3. ASSUME NEW a, NEW b, NEW c, NEW d, IsRun(src, a, b), IsRun(src, c, d),
             p \in a.first..b.last, p \in c.first..d.last
      PROVE  a = c /\ b = d
  <2>1. /\ a \in Lines(src) /\ b \in Lines(src) /\ c \in Lines(src) /\ d \in Lines(src)
        /\ a.first <= b.first /\ c.first <= d.first
        /\ Lines(src) \subseteq Nodes(src)
    BY <1>3 DEF IsRun, Lines
  <2>2. /\ a.first \in Nat /\ b.first \in Nat /\ c.first \in Nat /\ d.first \in Nat
        /\ b.last \in Nat /\ d.last \in Nat
    BY <2>1, <1>1, NodeExtent
  <2>3. c.first <= a.first /\ a.first <= c.first
    BY <1>3, RunsStartTogether
  <2>4. a = c
    BY <2>1, <2>2, <2>3, SameNode
  <2>5. ~(b.first < d.first)
    BY <1>3, <2>1, <2>2, <2>4 DEF IsRun
  <2>6. ~(d.first < b.first)
    BY <1>3, <2>1, <2>2, <2>4 DEF IsRun
  <2> QED
    BY <2>1, <2>2, <2>4, <2>5, <2>6, SameNode
<1>4. CASE r \in Nodes(src) /\ r \notin Lines(src)
  <2>1. CASE s \in Nodes(src) /\ s \notin Lines(src)
    BY <1>4, <2>1, NodesApart
  <2>2. CASE ~(s \in Nodes(src) /\ s \notin Lines(src))
    <3>1. PICK a, b : IsRun(src, a, b) /\ s = RunRecord(a, b)
      BY <2>2, NodeOrRun
    <3>2. p \in a.first..b.last
      BY <3>1 DEF Span, RunRecord
    <3> QED
      BY <1>2, <1>4, <3>1, <3>2
  <2> QED
    BY <2>1, <2>2
<1>5. CASE ~(r \in Nodes(src) /\ r \notin Lines(src))
  <2>1. PICK a, b : IsRun(src, a, b) /\ r = RunRecord(a, b)
    BY <1>5, NodeOrRun
  <2>2. p \in a.first..b.last
    BY <2>1 DEF Span, RunRecord
  <2>3. CASE s \in Nodes(src) /\ s \notin Lines(src)
    BY <1>2, <2>1, <2>2, <2>3
  <2>4. CASE ~(s \in Nodes(src) /\ s \notin Lines(src))
    <3>1. PICK c, d : IsRun(src, c, d) /\ s = RunRecord(c, d)
      BY <2>4, NodeOrRun
    <3>2. p \in c.first..d.last
      BY <3>1 DEF Span, RunRecord
    <3> QED
      BY <1>3, <2>1, <2>2, <3>1, <3>2
  <2> QED
    BY <2>3, <2>4
<1> QED
  BY <1>4, <1>5


-----------------------------------------------------------------------------
(* What deleting extracted records, and tidying, leaves in effect.         *)

\* Only a run holds a newline, and a run starts a line.
LEMMA DeletionEndsLines ==
  ASSUME NEW src \in Text, NEW D, D \subseteq Extract(src)
  PROVE  EndsLines(src, (1..Len(src)) \ Covered(D))
<1> DEFINE P == (1..Len(src)) \ Covered(D)
<1> SUFFICES ASSUME NEW p \in (1..Len(src)) \ P, NEW q \in P, src[p] = NL, q < p
             PROVE  \E e \in q..(p - 1) : src[e] = NL
  BY DEF EndsLines
<1>1. Len(src) \in Nat
  BY LenProperties DEF Text
<1>2. PICK d \in Extract(src) : d \in D /\ p \in Span(d)
  BY DEF Covered
<1>3. PICK a, b : IsRun(src, a, b) /\ d = RunRecord(a, b)
  <2>1. ASSUME d \in Nodes(src)
        PROVE  FALSE
    BY <1>2, <2>1, NodeExtent DEF Span
  <2> QED
    BY <2>1, NodeOrRun
<1>4. Span(d) = a.first..b.last /\ a \in Lines(src) /\ a \in Nodes(src)
  BY <1>3 DEF Span, RunRecord, IsRun, Lines
<1>5. a.first \in 1..Len(src)
  BY <1>4, NodeExtent
<1>6. b \in Nodes(src) /\ b.last \in Nat
  <2>1. b \in Nodes(src)
    BY <1>3 DEF IsRun, Lines
  <2> QED
    BY <2>1, <1>1, NodeExtent
<1>7. q < a.first
  <2>1. q \notin a.first..b.last
    BY <1>2, <1>4 DEF Covered
  <2> QED
    BY <2>1, <1>1, <1>2, <1>4, <1>5, <1>6
<1>8. src[a.first - 1] = NL
  BY <1>1, <1>4, <1>5, <1>7 DEF Lines, IsOwnLine
<1>9. a.first - 1 \in q..(p - 1)
  BY <1>1, <1>2, <1>4, <1>5, <1>6, <1>7
<1> QED
  BY <1>8, <1>9

\* Tidying drops newlines that follow a newline or start the file.
LEMMA TidyingEndsLines ==
  ASSUME NEW src \in Text, NEW Q, \A i \in Q : src[i] = NL /\ IsOwnLine(src, i)
  PROVE  EndsLines(src, (1..Len(src)) \ Q)
<1> SUFFICES ASSUME NEW p \in 1..Len(src), NEW q \in 1..Len(src), p \in Q,
                    src[p] = NL, q < p
             PROVE  \E e \in q..(p - 1) : src[e] = NL
  BY DEF EndsLines
<1>1. Len(src) \in Nat
  BY LenProperties DEF Text
<1>2. src[p - 1] = NL
  BY <1>1 DEF IsOwnLine
<1>3. p - 1 \in q..(p - 1)
  BY <1>1
<1> QED
  BY <1>2, <1>3

\* A line of a pick is no further down than it was.
LEMMA PicksRise ==
  ASSUME NEW src \in Text, NEW new \in Text, NEW P \in SUBSET (1..Len(src)),
         NEW at, Lists(at, Len(new), P), \A k \in 1..Len(new) : new[k] = src[at[k]],
         NEW k \in 1..Len(new)
  PROVE  /\ NewlinesUpTo(new, k) \in Nat /\ NewlinesUpTo(src, at[k]) \in Nat
         /\ NewlinesUpTo(new, k) <= NewlinesUpTo(src, at[k])
<1>1. Len(src) \in Nat /\ Len(new) \in Nat
  BY LenProperties DEF Text
<1> DEFINE S == {j \in 1..k : new[j] = NL}
           T == {j \in 1..at[k] : src[j] = NL}
           f == [j \in S |-> at[j]]
<1>2. at \in [1..Len(new) -> P] /\ \A i, j \in 1..Len(new) : i < j => at[i] < at[j]
  BY DEF Lists
<1>3. \A j \in 1..Len(new) : at[j] \in 1..Len(src)
  BY <1>2
<1>4. \A j \in S : j \in 1..Len(new) /\ at[j] \in T
  <2> SUFFICES ASSUME NEW j \in S
               PROVE  j \in 1..Len(new) /\ at[j] \in T
    OBVIOUS
  <2>1. j \in 1..Len(new) /\ (j < k \/ j = k)
    BY <1>1
  <2>2. at[j] \in 1..at[k]
    BY <2>1, <1>1, <1>2, <1>3
  <2> QED
    BY <2>1, <2>2
<1>5. \A i, j \in S : f[i] = f[j] => i = j
  <2> SUFFICES ASSUME NEW i \in S, NEW j \in S, at[i] = at[j], i # j
               PROVE  FALSE
    OBVIOUS
  <2>1. i \in 1..Len(new) /\ j \in 1..Len(new)
    BY <1>4
  <2>2. i < j \/ j < i
    BY <2>1, <1>1
  <2>3. at[i] < at[j] \/ at[j] < at[i]
    BY <2>1, <2>2, <1>2
  <2> QED
    BY <2>1, <2>3, <1>1, <1>3
<1>6. f \in [S -> T]
  BY <1>4
<1>7. IsFiniteSet(S) /\ IsFiniteSet(T)
  <2>1. at[k] \in Int /\ k \in Int
    BY <1>1, <1>3
  <2>2. IsFiniteSet(1..k) /\ S \in SUBSET (1..k)
    BY <2>1, FS_Interval
  <2>3. IsFiniteSet(1..at[k]) /\ T \in SUBSET (1..at[k])
    BY <2>1, FS_Interval
  <2> HIDE DEF S, T
  <2> QED
    BY <2>2, <2>3, FS_Subset
<1> HIDE DEF f, S, T
<1>8. f \in Injection(S, T)
  BY <1>5, <1>6 DEF Injection, IsInjective
<1>9. Cardinality(S) <= Cardinality(T) /\ Cardinality(S) \in Nat /\ Cardinality(T) \in Nat
  BY <1>7, <1>8, FS_Injection, FS_CardinalityType
<1> QED
  BY <1>9 DEF NewlinesUpTo, S, T

\* The kinds that bear behavior depend on the line only through an upper bound.
LEMMA BearingRises ==
  ASSUME NEW src, NEW i, NEW new, NEW k, new[k] = src[i],
         NewlinesUpTo(new, k) \in Nat, NewlinesUpTo(src, i) \in Nat,
         NewlinesUpTo(new, k) <= NewlinesUpTo(src, i),
         BehaviorBearing(Classify(src, i))
  PROVE  BehaviorBearing(Classify(new, k))
<1>1. PICK c : c = ClassOf[src[i]]
  OBVIOUS
<1>2. PICK u : u = NewlinesUpTo(src, i)
  OBVIOUS
<1>3. PICK v : v = NewlinesUpTo(new, k)
  OBVIOUS
<1>4. u \in Nat /\ v \in Nat /\ v <= u
  BY <1>2, <1>3
<1>5. Classify(src, i) = CASE c = "Shebang" /\ u + 1 # 1 -> "Line"
                           [] c = "EncodingDecl" /\ (u + 1 > 2 \/ ~Python) -> "Line"
                           [] OTHER -> c
  BY <1>1, <1>2 DEF Classify
<1>6. Classify(new, k) = CASE c = "Shebang" /\ v + 1 # 1 -> "Line"
                           [] c = "EncodingDecl" /\ (v + 1 > 2 \/ ~Python) -> "Line"
                           [] OTHER -> c
  BY <1>1, <1>3 DEF Classify
<1>7. c = "Shebang" => u + 1 = 1
  BY <1>5 DEF BehaviorBearing
<1>8. c = "EncodingDecl" => ~(u + 1 > 2) /\ Python
  BY <1>5 DEF BehaviorBearing
<1>9. c = "Shebang" => v + 1 = 1
  BY <1>4, <1>7
<1>10. c = "EncodingDecl" => ~(v + 1 > 2) /\ Python
  BY <1>4, <1>8
<1>11. Classify(src, i) = c /\ Classify(new, k) = c
  BY <1>5, <1>6, <1>7, <1>8, <1>9, <1>10
<1> QED
  BY <1>11

\* What no line comment reached in the source, none reaches in such a pick.
LEMMA PicksUnswallowed ==
  ASSUME NEW src \in Text, NEW new \in Text, NEW P \in SUBSET (1..Len(src)),
         NEW at, Lists(at, Len(new), P), \A k \in 1..Len(new) : new[k] = src[at[k]],
         EndsLines(src, P), NEW k \in 1..Len(new), ~Swallowed(src, at[k]),
         src[at[k]] # NL
  PROVE  ~Swallowed(new, k)
<1>1. Len(src) \in Nat /\ Len(new) \in Nat
  BY LenProperties DEF Text
<1>2. /\ at \in [1..Len(new) -> P]
      /\ \A i, j \in 1..Len(new) : i < j => at[i] < at[j]
      /\ \A i \in P : \E l \in 1..Len(new) : at[l] = i
  BY DEF Lists
<1> SUFFICES ASSUME NEW j \in 1..(k - 1), new[j] \in Note, ~ClosesItself(new[j]),
                    \A l \in j..k : new[l] # NL
             PROVE  FALSE
  BY DEF Swallowed
<1>3. j \in 1..Len(new) /\ j < k
  BY <1>1
<1> DEFINE q == at[j]
           i == at[k]
<1>4. q \in P /\ q \in 1..Len(src) /\ q < i /\ src[q] = new[j] /\ i \in 1..Len(src)
  BY <1>2, <1>3
<1> DEFINE E == {e \in q..i : src[e] = NL}
<1>5. E # {}
  <2>1. q \in 1..(at[k] - 1) /\ src[q] \in Note /\ ~ClosesItself(src[q])
    BY <1>1, <1>4
  <2>2. PICK e \in q..at[k] : src[e] = NL
    BY <2>1 DEF Swallowed
  <2> QED
    BY <2>2
<1>6. PICK p \in E : \A e \in E : p <= e
  <2>1. E \in SUBSET Nat
    BY <1>1, <1>4
  <2> HIDE DEF E
  <2> QED
    BY <2>1, <1>5, SmallestOf
<1>7. q # p /\ i # p
  BY <1>4, SourceAssumption DEF SourceAssumption
<1>8. p \in 1..Len(src) /\ src[p] = NL /\ q < p /\ p < i
  BY <1>1, <1>4, <1>6, <1>7
<1>9. CASE p \in P
  <2>1. PICK l \in 1..Len(new) : at[l] = p
    BY <1>2, <1>9
  <2>2. l \in j..k
    <3>1. ~(l < j) /\ ~(k < l)
      BY <2>1, <1>1, <1>2, <1>3, <1>4, <1>8
    <3> QED
      BY <3>1, <1>1, <1>3
  <2> QED
    BY <2>1, <2>2, <1>8
<1>10. CASE p \notin P
  <2>1. PICK e \in q..(p - 1) : src[e] = NL
    BY <1>4, <1>8, <1>10 DEF EndsLines
  <2>2. e \in E /\ e < p
    BY <2>1, <1>1, <1>4, <1>8
  <2> QED
    BY <2>2, <1>6, <1>8, <1>1
<1> QED
  BY <1>9, <1>10

\* A pick that holds on to the behavior-bearing notes, and to the newlines that
\* keep line comments off them, keeps them in effect.
LEMMA BearingSurvives ==
  ASSUME NEW src \in Text, NEW new \in Text, NEW P \in SUBSET (1..Len(src)),
         Picks(new, src, P), EndsLines(src, P),
         \A m \in Nodes(src) : BehaviorBearing(m.kind) => m.first \in P
  PROVE  Bearing(src) \subseteq Bearing(new)
<1> SUFFICES ASSUME NEW m \in Nodes(src), BehaviorBearing(m.kind)
             PROVE  src[m.first] \in Bearing(new)
  BY DEF Bearing
<1>1. Len(src) \in Nat /\ Len(new) \in Nat
  BY LenProperties DEF Text
<1>2. PICK at : Lists(at, Len(new), P) /\ \A k \in 1..Len(new) : new[k] = src[at[k]]
  BY DEF Picks
<1>3. /\ at \in [1..Len(new) -> P]
      /\ \A i, j \in 1..Len(new) : i < j => at[i] < at[j]
      /\ \A i \in P : \E k \in 1..Len(new) : at[k] = i
  BY <1>2 DEF Lists
<1>4. PICK k \in 1..Len(new) : at[k] = m.first
  BY <1>3
<1>5. /\ src[m.first] \in Note /\ ~Swallowed(src, m.first)
      /\ m.kind = Classify(src, m.first) /\ m.first \in 1..Len(src)
  BY NodeExtent
<1>6. new[k] = src[m.first]
  BY <1>2, <1>4
<1>7. BehaviorBearing(Classify(new, k))
  <2>1. /\ NewlinesUpTo(new, k) \in Nat /\ NewlinesUpTo(src, at[k]) \in Nat
        /\ NewlinesUpTo(new, k) <= NewlinesUpTo(src, at[k])
    BY <1>2, PicksRise
  <2> QED
    BY <2>1, <1>4, <1>5, <1>6, BearingRises
<1>8. ~Swallowed(new, k)
  <2>1. src[at[k]] # NL /\ ~Swallowed(src, at[k])
    BY <1>4, <1>5, SourceAssumption DEF SourceAssumption
  <2> QED
    BY <1>2, <2>1, PicksUnswallowed
<1>9. [first |-> k, last |-> LastOf(new, k), kind |-> Classify(new, k)] \in Nodes(new)
  BY <1>5, <1>6, <1>8 DEF Nodes
<1> QED
  BY <1>6, <1>7, <1>9 DEF Bearing


\* What is left of src when the records of D are deleted.
Left(src, D) == (1..Len(src)) \ Covered(D)

\* Deleting comments that bear no behavior takes none that does out of effect.
LEMMA DeletionKeepsBearing ==
  ASSUME NEW src \in Text, NEW new \in Text, NEW D, D \subseteq Extract(src),
         \A d \in D : ~BehaviorBearing(d.kind), Picks(new, src, Left(src, D))
  PROVE  Bearing(src) \subseteq Bearing(new)
<1> DEFINE P == (1..Len(src)) \ Covered(D)
<1>1. P \in SUBSET (1..Len(src)) /\ Picks(new, src, P) /\ EndsLines(src, P)
  BY DeletionEndsLines DEF Left
<1>2. ASSUME NEW m \in Nodes(src), BehaviorBearing(m.kind)
      PROVE  m.first \in P
  <2>1. m \in Extract(src)
    BY <1>2 DEF Extract, Coalesce, BehaviorBearing
  <2>2. m.first \in 1..Len(src) /\ m.first \in Span(m)
    <3>1. Len(src) \in Nat
      BY LenProperties DEF Text
    <3> QED
      BY <3>1, NodeExtent DEF Span
  <2>3. ASSUME NEW d \in D, m.first \in Span(d)
        PROVE  FALSE
    BY <2>1, <2>2, <2>3, <1>2, ExtractApart
  <2> QED
    BY <2>2, <2>3 DEF Covered
<1> HIDE DEF P
<1> QED
  BY <1>1, <1>2, BearingSurvives

\* Deleting some records keeps every note of the others.
LEMMA DeletionKeepsOthers ==
  ASSUME NEW src \in Text, NEW new \in Text, NEW D, NEW K,
         D \subseteq Extract(src), K \subseteq Extract(src), D \cap K = {},
         Picks(new, src, Left(src, D)), NEW n
  PROVE  Times(n, src, Covered(K)) <= Times(n, new, Nat)
<1>1. Len(src) \in Nat
  BY LenProperties DEF Text
<1> DEFINE S == {i \in (1..Len(src)) \cap Covered(K) : src[i] = n}
           T == {i \in (1..Len(src)) \cap Left(src, D) : src[i] = n}
<1>2. ASSUME NEW i \in 1..Len(src), i \in Covered(K)
      PROVE  i \in Left(src, D)
  <2> SUFFICES ASSUME i \in Covered(D)
               PROVE  FALSE
    BY DEF Left
  <2>1. PICK d \in D, k \in K : i \in Span(d) /\ i \in Span(k)
    BY <1>2 DEF Covered
  <2> QED
    BY <2>1, ExtractApart
<1>3. S \in SUBSET T /\ T \in SUBSET (1..Len(src))
  BY <1>2
<1> HIDE DEF S, T
<1>4. IsFiniteSet(T)
  <2>1. IsFiniteSet(1..Len(src))
    BY <1>1, FS_Interval
  <2> QED
    BY <2>1, <1>3, FS_Subset
<1>5. Cardinality(S) <= Cardinality(T)
  BY <1>3, <1>4, FS_Subset
<1>6. Times(n, new, Nat) = Times(n, src, Left(src, D))
  BY PicksCount DEF Left
<1> QED
  BY <1>5, <1>6 DEF Times, S, T

\* Tidying drops newlines only, and no line comment gains by it.
LEMMA TidyKeepsNotes ==
  ASSUME NEW src \in Text, NEW points
  PROVE  /\ Bearing(src) \subseteq Bearing(Tidy(src, points))
         /\ \A n \in Note : Times(n, Tidy(src, points), Nat) = Times(n, src, Nat)
<1> DEFINE out == Tidy(src, points)
<1>1. CASE out = src
  BY <1>1
<1>2. CASE out # src
  <2>1. PICK Q : /\ out = KeepAt(src, (1..Len(src)) \ Q)
                 /\ \A i \in Q : src[i] = NL /\ IsOwnLine(src, i)
    <3> DEFINE lineOf(p) == IF p = Len(src) /\ Len(src) > 0 /\ src[Len(src)] = NL
                            THEN NewlinesUpTo(src, p) - 1
                            ELSE NewlinesUpTo(src, p)
               Q == {q \in 1..Len(src) :
                       /\ src[q] = NL
                       /\ IsOwnLine(src, q)
                       /\ \E p \in points : lineOf(p) = NewlinesUpTo(src, q - 1)}
    <3>1. out = KeepAt(src, (1..Len(src)) \ Q)
      BY <1>2 DEF Tidy
    <3>2. \A i \in Q : src[i] = NL /\ IsOwnLine(src, i)
      OBVIOUS
    <3> HIDE DEF Q
    <3> QED
      BY <3>1, <3>2
  <2> DEFINE P == (1..Len(src)) \ Q
  <2>2. P \in SUBSET (1..Len(src)) /\ EndsLines(src, P)
    BY <2>1, TidyingEndsLines
  <2>3. out \in Text /\ Picks(out, src, P)
    <3>1. out = KeepAt(src, P)
      BY <2>1
    <3> HIDE DEF P, out
    <3> QED
      BY <3>1, <2>2, KeepAtIsText, KeepAtPicks
  <2>4. ASSUME NEW i \in 1..Len(src), src[i] \in Note
        PROVE  i \in P
    BY <2>1, <2>4, SourceAssumption DEF SourceAssumption
  <2>5. ASSUME NEW m \in Nodes(src)
        PROVE  m.first \in P
    <3>1. m.first \in 1..Len(src) /\ src[m.first] \in Note
      BY NodeExtent
    <3> HIDE DEF P
    <3> QED
      BY <3>1, <2>4
  <2>6. ASSUME NEW n \in Note
        PROVE  Times(n, out, Nat) = Times(n, src, Nat)
    <3>1. {i \in (1..Len(src)) \cap P : src[i] = n}
            = {i \in (1..Len(src)) \cap Nat : src[i] = n}
      <4>1. Len(src) \in Nat
        BY LenProperties DEF Text
      <4>2. \A i \in 1..Len(src) : i \in Nat
        BY <4>1
      <4> HIDE DEF P
      <4> QED
        BY <2>4, <4>2
    <3> HIDE DEF P, out
    <3>2. Times(n, out, Nat) = Times(n, src, P)
      BY <2>2, <2>3, PicksCount
    <3> QED
      BY <3>1, <3>2 DEF Times
  <2> HIDE DEF P, out
  <2>7. Bearing(src) \subseteq Bearing(out)
    BY <2>2, <2>3, <2>5, BearingSurvives
  <2> QED
    BY <2>6, <2>7 DEF out
<1> QED
  BY <1>1, <1>2


-----------------------------------------------------------------------------
(* Deleting extracted records leaves the code leaves alone (outside Python). *)

\* A note that opens a line comment swallows what its node covers.
LEMMA NodeSwallows ==
  ASSUME NEW src \in Text, NEW n \in Nodes(src), NEW i \in Span(n), src[i] \in Code
  PROVE  Swallowed(src, i)
<1>1. Len(src) \in Nat
  BY LenProperties DEF Text
<1>2. /\ n.first \in 1..Len(src) /\ src[n.first] \in Note
      /\ n.last \in n.first..Len(src) /\ n.last = LastOf(src, n.first)
      /\ \A k \in n.first..n.last : src[k] # NL
  BY NodeExtent
<1>3. i # n.first
  BY <1>2, SourceAssumption DEF SourceAssumption
<1>4. i \in n.first..n.last /\ n.first \in 1..(i - 1)
  BY <1>1, <1>2, <1>3 DEF Span
<1>5. ~ClosesItself(src[n.first])
  <2> SUFFICES ASSUME ClosesItself(src[n.first])
               PROVE  FALSE
    OBVIOUS
  <2>1. n.last = n.first
    BY <1>2 DEF LastOf
  <2> QED
    BY <1>1, <1>2, <1>4, <2>1
<1>6. \A k \in n.first..i : src[k] # NL
  BY <1>1, <1>2, <1>4
<1> QED
  BY <1>2, <1>4, <1>5, <1>6 DEF Swallowed

\* A note inside a record starts a node that lies inside that record.
LEMMA NodeWithin ==
  ASSUME NEW src \in Text, NEW r \in Extract(src), NEW i \in Span(r), src[i] # NL
  PROVE  \E m \in Nodes(src) : i \in Span(m) /\ Span(m) \subseteq Span(r)
<1>1. Len(src) \in Nat
  BY LenProperties DEF Text
<1>2. CASE r \in Nodes(src)
  BY <1>2
<1>3. CASE r \notin Nodes(src)
  <2>1. PICK a, b : IsRun(src, a, b) /\ r = RunRecord(a, b)
    BY <1>3, NodeOrRun
  <2>2. Span(r) = a.first..b.last /\ b \in Nodes(src) /\ a \in Nodes(src)
    BY <2>1 DEF Span, RunRecord, IsRun, Lines
  <2>3. PICK m \in Lines(src) : a.first <= m.first /\ i \in Span(m)
    BY <2>1, <2>2, RunCovers
  <2>4. m \in Nodes(src)
    BY DEF Lines
  <2>5. /\ a.first \in Nat /\ b.first \in Nat /\ b.last \in Nat /\ m.first \in Nat
        /\ m.last \in Nat /\ b.first <= b.last /\ m.first <= m.last
    BY <1>1, <2>2, <2>4, NodeExtent
  <2>6. i \in m.first..m.last /\ i \in a.first..b.last
    BY <2>2, <2>3 DEF Span
  <2>7. m.last <= b.last
    <3>1. m.first < b.first => m.last < b.first
      BY <2>2, <2>4, NodesInOrder
    <3>2. b.first < m.first => b.last < m.first
      BY <2>2, <2>4, NodesInOrder
    <3>3. m.first = b.first => m = b
      BY <2>2, <2>4, SameNode
    <3> QED
      BY <3>1, <3>2, <3>3, <2>5, <2>6
  <2>8. Span(m) \subseteq a.first..b.last
    BY <2>3, <2>5, <2>7 DEF Span
  <2> QED
    BY <2>2, <2>3, <2>4, <2>8
<1> QED
  BY <1>2, <1>3

\* What a line comment swallows stays swallowed: a deletion takes a line comment
\* with everything on its line after it, or not at all.
LEMMA DeletionStillSwallows ==
  ASSUME NEW src \in Text, NEW new \in Text, NEW D, D \subseteq Extract(src),
         NEW P, P = Left(src, D),
         NEW at, Lists(at, Len(new), P), \A k \in 1..Len(new) : new[k] = src[at[k]],
         NEW k \in 1..Len(new), Swallowed(src, at[k])
  PROVE  Swallowed(new, k)
<1>1. Len(src) \in Nat /\ Len(new) \in Nat
  BY LenProperties DEF Text
<1>2. /\ at \in [1..Len(new) -> P] /\ P \subseteq 1..Len(src)
      /\ \A i, j \in 1..Len(new) : i < j => at[i] < at[j]
      /\ \A i \in P : \E l \in 1..Len(new) : at[l] = i
  BY DEF Lists, Left
<1>3. PICK i : i = at[k]
  OBVIOUS
<1>4. i \in P /\ i \in 1..Len(src)
  BY <1>2, <1>3
<1>5. PICK j \in 1..(i - 1) : /\ src[j] \in Note /\ ~ClosesItself(src[j])
                              /\ \A l \in j..i : src[l] # NL
  BY <1>3 DEF Swallowed
<1>6. j \in 1..Len(src) /\ j < i
  BY <1>1, <1>4
<1>7. j \in P
  <2> SUFFICES ASSUME j \notin P
               PROVE  FALSE
    OBVIOUS
  <2>1. PICK d \in D : j \in Span(d)
    BY <1>6 DEF Left, Covered
  <2>2. src[j] # NL
    BY <1>5, SourceAssumption DEF SourceAssumption
  <2>3. PICK m \in Nodes(src) : j \in Span(m) /\ Span(m) \subseteq Span(d)
    BY <2>1, <2>2, NodeWithin
  <2>4. /\ m.first \in 1..Len(src) /\ m.last \in m.first..Len(src)
        /\ m.last = LastOf(src, m.first)
        /\ \/ ClosesItself(src[m.first])
           \/ m.last = Len(src)
           \/ src[m.last + 1] = NL
    BY NodeExtent
  <2>5. j \in m.first..m.last
    BY <2>3 DEF Span
  <2>6. ~ClosesItself(src[m.first])
    <3> SUFFICES ASSUME ClosesItself(src[m.first])
                 PROVE  FALSE
      OBVIOUS
    <3>1. m.last = m.first
      BY <2>4 DEF LastOf
    <3>2. j = m.first
      BY <1>1, <2>4, <2>5, <3>1
    <3> QED
      BY <1>5, <3>2
  <2>7. i <= m.last
    <3> SUFFICES ASSUME m.last < i
                 PROVE  FALSE
      BY <1>1, <1>4, <2>4
    <3>1. m.last + 1 \in j..i /\ m.last # Len(src)
      BY <1>1, <1>4, <1>6, <2>4, <2>5
    <3> QED
      BY <1>5, <2>4, <2>6, <3>1
  <2>8. i \in Span(m)
    BY <1>1, <1>4, <1>6, <2>4, <2>5, <2>7 DEF Span
  <2>9. i \in Covered(D)
    BY <2>1, <2>3, <2>8 DEF Covered
  <2> QED
    BY <2>9, <1>4 DEF Left
<1>8. PICK l \in 1..Len(new) : at[l] = j
  BY <1>2, <1>7
<1>9. l \in 1..(k - 1)
  <2>1. ~(k < l) /\ k # l
    BY <1>1, <1>2, <1>3, <1>4, <1>6, <1>8
  <2> QED
    BY <2>1, <1>1
<1>10. ASSUME NEW h \in l..k
       PROVE  new[h] # NL
  <2>1. h \in 1..Len(new)
    BY <1>1, <1>9
  <2>2. at[h] \in 1..Len(src)
    BY <1>2, <2>1
  <2>3. (l < h \/ l = h) /\ (h < k \/ h = k)
    BY <1>1, <1>9
  <2>4. at[h] \in j..i
    BY <1>1, <1>2, <1>3, <1>4, <1>6, <1>8, <2>1, <2>2, <2>3
  <2> QED
    BY <1>5, <2>1, <2>4
<1>11. new[l] \in Note /\ ~ClosesItself(new[l])
  BY <1>5, <1>8
<1> QED
  BY <1>9, <1>10, <1>11 DEF Swallowed

\* The stream of code is the one of a pick that keeps every leaf a leaf.
LEMMA SignatureKept ==
  ASSUME ~Python, NEW src \in Text, NEW new \in Text, NEW P \in SUBSET (1..Len(src)),
         NEW at, Lists(at, Len(new), P), \A k \in 1..Len(new) : new[k] = src[at[k]],
         \A k \in 1..Len(new) : IsLeaf(new, k) <=> IsLeaf(src, at[k]),
         \A i \in 1..Len(src) : IsLeaf(src, i) => i \in P
  PROVE  CodeOf(src) = CodeOf(new)
<1>1. Len(src) \in Nat /\ Len(new) \in Nat
  BY LenProperties DEF Text
<1> DEFINE S == {i \in 1..Len(src) : IsLeaf(src, i) /\ i \notin {}}
           T == {k \in 1..Len(new) : IsLeaf(new, k) /\ k \notin {}}
<1>2. S \in SUBSET (1..Len(src)) /\ T \in SUBSET (1..Len(new))
  OBVIOUS
<1>3. Matches(at, Len(new), T, Len(src), S)
  BY <1>1 DEF Matches, Lists
<1>4. \A k \in T : new[k] = src[at[k]]
  OBVIOUS
<1>5. CodeOf(src) = [k \in 1..Cardinality(S) |->
                       [token |-> src[KthOf(S, k)], bare |-> BareSuite(src, KthOf(S, k))]]
  BY DEF CodeOf, CodeSignature
<1>6. CodeOf(new) = [k \in 1..Cardinality(T) |->
                       [token |-> new[KthOf(T, k)], bare |-> BareSuite(new, KthOf(T, k))]]
  BY DEF CodeOf, CodeSignature
<1> HIDE DEF S, T
<1>7. Cardinality(T) = Cardinality(S)
  BY <1>3, MatchesCount
<1>8. ASSUME NEW r \in 1..Cardinality(S)
      PROVE  /\ src[KthOf(S, r)] = new[KthOf(T, r)]
             /\ BareSuite(src, KthOf(S, r)) = BareSuite(new, KthOf(T, r))
  <2>1. KthOf(T, r) \in T /\ KthOf(S, r) = at[KthOf(T, r)]
    BY <1>3, MatchesRank
  <2>2. src[KthOf(S, r)] = new[KthOf(T, r)]
    BY <1>4, <2>1
  <2>3. BareSuite(src, KthOf(S, r)) = FALSE /\ BareSuite(new, KthOf(T, r)) = FALSE
    BY DEF BareSuite
  <2> QED
    BY <2>2, <2>3
<1> QED
  BY <1>5, <1>6, <1>7, <1>8

\* Outside Python no deletion of comments touches the code, so the batch of a
\* strip pass is never refused.
LEMMA BatchAccepted ==
  ASSUME ~Python, NEW src \in Text, NEW D, D \subseteq Extract(src)
  PROVE  BatchOk(src, D)
<1>1. PICK P : P = Left(src, D)
  OBVIOUS
<1>2. PICK new : new = BatchText(src, D)
  OBVIOUS
<1>3. P \in SUBSET (1..Len(src)) /\ EndsLines(src, P)
  BY <1>1, DeletionEndsLines DEF Left
<1>4. new \in Text /\ Picks(new, src, P)
  <2>1. new = KeepAt(src, P)
    BY <1>1, <1>2 DEF BatchText, Left
  <2> QED
    BY <1>3, <2>1, KeepAtIsText, KeepAtPicks
<1>5. PICK at : Lists(at, Len(new), P) /\ \A k \in 1..Len(new) : new[k] = src[at[k]]
  BY <1>4 DEF Picks
<1>6. \A s, i : IsLeaf(s, i) <=> s[i] \in Code /\ ~Swallowed(s, i)
  BY DEF IsLeaf
<1>7. ASSUME NEW k \in 1..Len(new)
      PROVE  IsLeaf(new, k) <=> IsLeaf(src, at[k])
  <2>1. ASSUME new[k] \in Code
        PROVE  Swallowed(src, at[k]) <=> Swallowed(new, k)
    <3>1. src[at[k]] # NL
      BY <1>5, <2>1, SourceAssumption DEF SourceAssumption
    <3>2. ~Swallowed(src, at[k]) => ~Swallowed(new, k)
      BY <1>3, <1>4, <1>5, <3>1, PicksUnswallowed
    <3>3. Swallowed(src, at[k]) => Swallowed(new, k)
      BY <1>1, <1>4, <1>5, DeletionStillSwallows
    <3> QED
      BY <3>2, <3>3
  <2>2. new[k] = src[at[k]]
    BY <1>5
  <2> QED
    BY <1>6, <2>1, <2>2
<1>8. ASSUME NEW i \in 1..Len(src), IsLeaf(src, i)
      PROVE  i \in P
  <2> SUFFICES ASSUME NEW d \in D, i \in Span(d)
               PROVE  FALSE
    BY <1>1 DEF Left, Covered
  <2>1. src[i] \in Code /\ ~Swallowed(src, i) /\ src[i] # NL
    BY <1>6, <1>8, SourceAssumption DEF SourceAssumption
  <2>2. PICK m \in Nodes(src) : i \in Span(m)
    BY <2>1, NodeWithin
  <2> QED
    BY <2>1, <2>2, NodeSwallows
<1>9. CodeOf(src) = CodeOf(new)
  BY <1>3, <1>4, <1>5, <1>7, <1>8, SignatureKept
<1>10. Covered({d \in D : IsCodeNode(d)}) = {}
  BY DEF Covered, IsCodeNode
<1> QED
  BY <1>2, <1>9, <1>10 DEF BatchOk, CodeOf

-----------------------------------------------------------------------------
(* What a client plans, step by step.                                      *)

Pending(me) == me.phase \in {"ready", "writing"}

\* Which phases an operation goes through, and what it never changes.
Route(me) ==
  /\ me.op = "edit" => me.todo = {} /\ me.phase \notin {"walking", "isolating"}
  /\ me.op = "strip" => /\ me.phase # "resolved"
                        /\ me.text = <<>> /\ me.ack = me.policy.significant

\* A pending edit was verified against the source it was read from.
Edited(me) ==
  me.op = "edit" /\ Pending(me) =>
    ApplyOk(me.src, me.rec, me.text, me.ack) /\ me.new = Splice(me.src, me.rec, me.text)

\* x is the source without the records of D, all of them given up by the policy.
Stripped(me, D, x) ==
  D \subseteq Targets(me.src, me.policy) /\ Picks(x, me.src, Left(me.src, D))

\* One by one, from the end of the file: what remains to be tried is untouched.
\* Only a Python file is gone through like this.
Isolated(me) ==
  me.phase = "isolating" =>
    /\ Python
    /\ me.targets \subseteq Targets(me.src, me.policy)
    /\ \E D : Stripped(me, D, me.new) /\ \A d \in D, r \in me.targets : r.last < d.first

\* A pending rewrite of a strip pass is such a text, tidied or not, and outside
\* Python it lacks every record the policy gives up.
Batched(me) ==
  me.op = "strip" /\ Pending(me) =>
    \E D, x : /\ x \in Text /\ Stripped(me, D, x)
              /\ ~Python => D = Targets(me.src, me.policy)
              /\ me.new = x \/ \E points : me.new = Tidy(x, points)

Sane(me) == Route(me) /\ Edited(me) /\ Isolated(me) /\ Batched(me)

Plans == \A c \in Clients : Sane(client[c])

LEMMA BecomeSane ==
  ASSUME TypeOK, Plans, NEW c \in Clients, NEW v, Sane(v), Become(c, v)
  PROVE  Plans'
<1>1. client' = [client EXCEPT ![c] = v] /\ DOMAIN client = Clients
  BY DEF TypeOK, Become
<1>2. ASSUME NEW d \in Clients
      PROVE  Sane(client'[d])
  <2>1. PICK w : w = client'[d]
    OBVIOUS
  <2>2. w = v \/ w = client[d]
    BY <1>1, <2>1
  <2>3. Sane(w)
    BY <2>2 DEF Plans
  <2> QED
    BY <2>1, <2>3
<1> QED
  BY <1>2 DEF Plans, Sane, Route, Edited, Isolated, Batched, Stripped, Pending

LEMMA IdleSane == Sane(Idle)
<1>1. Idle.op = "edit" /\ Idle.phase = "idle" /\ Idle.todo = {}
  BY DEF Idle
<1> QED
  BY <1>1 DEF Sane, Route, Edited, Isolated, Batched, Pending

LEMMA NextFileSane ==
  ASSUME NEW me \in ClientState, Route(me)
  PROVE  Sane(NextFile(me))
<1>1. CASE me.todo = {}
  BY <1>1, IdleSane DEF NextFile
<1>2. CASE me.todo # {}
  <2>1. PICK v : v = [me EXCEPT !.phase = "walking", !.src = <<>>, !.new = <<>>,
                                !.targets = {}, !.points = {}]
    OBVIOUS
  <2>2. NextFile(me) = v
    BY <1>2, <2>1 DEF NextFile
  <2>3. /\ v.phase = "walking" /\ v.op = me.op /\ v.todo = me.todo /\ v.text = me.text
        /\ v.ack = me.ack /\ v.policy = me.policy
    BY <2>1 DEF ClientState
  <2>4. me.op = "strip"
    BY <1>2 DEF Route, ClientState
  <2> QED
    BY <2>2, <2>3, <2>4 DEF Sane, Route, Edited, Isolated, Batched, Pending
<1> QED
  BY <1>1, <1>2

LEMMA ResolveSane ==
  ASSUME TypeOK, Plans, NEW c \in Clients, Resolve(c)
  PROVE  Plans'
<1>1. PICK f \in Files : \E r \in index[f], text \in Texts, ack \in BOOLEAN :
        Become(c, [Idle EXCEPT !.phase = "resolved", !.file = f, !.rec = r,
                               !.text = text, !.ack = ack])
  BY DEF Resolve
<1>2. PICK r \in index[f], text \in Texts, ack \in BOOLEAN :
        Become(c, [Idle EXCEPT !.phase = "resolved", !.file = f, !.rec = r,
                               !.text = text, !.ack = ack])
  BY <1>1
<1>3. PICK v : v = [Idle EXCEPT !.phase = "resolved", !.file = f, !.rec = r,
                                !.text = text, !.ack = ack]
  OBVIOUS
<1>4. v.op = "edit" /\ v.phase = "resolved" /\ v.todo = {}
  BY <1>3 DEF Idle
<1>5. Sane(v)
  BY <1>4 DEF Sane, Route, Edited, Isolated, Batched, Pending
<1> QED
  BY <1>2, <1>3, <1>5, BecomeSane

LEMMA ReadAndVerifySane ==
  ASSUME TypeOK, Plans, NEW c \in Clients, ReadAndVerify(c)
  PROVE  Plans'
<1> DEFINE me == client[c]
<1>1. PICK s \in Views(me.file) :
        IF ApplyOk(s, me.rec, me.text, me.ack)
        THEN Become(c, [me EXCEPT !.phase = "ready", !.src = s,
                                  !.new = Splice(s, me.rec, me.text)])
        ELSE Become(c, Idle)
  BY DEF ReadAndVerify
<1>2. me \in ClientState /\ me.phase = "resolved" /\ Route(me)
  BY ClientFields DEF ReadAndVerify, Plans, Sane
<1>3. me.op = "edit" /\ me.todo = {}
  BY <1>2 DEF Route, ClientState
<1>4. CASE ~ApplyOk(s, me.rec, me.text, me.ack)
  BY <1>1, <1>4, IdleSane, BecomeSane
<1>5. CASE ApplyOk(s, me.rec, me.text, me.ack)
  <2>1. PICK v : v = [me EXCEPT !.phase = "ready", !.src = s,
                                !.new = Splice(s, me.rec, me.text)]
    OBVIOUS
  <2>2. /\ v.phase = "ready" /\ v.src = s /\ v.new = Splice(s, me.rec, me.text)
        /\ v.op = "edit" /\ v.todo = {} /\ v.rec = me.rec /\ v.text = me.text
        /\ v.ack = me.ack
    BY <1>2, <1>3, <2>1 DEF ClientState
  <2>3. Sane(v)
    BY <1>5, <2>2 DEF Sane, Route, Edited, Isolated, Batched, Pending
  <2> QED
    BY <1>1, <1>5, <2>1, <2>3, BecomeSane
<1> QED
  BY <1>4, <1>5

LEMMA StartStripSane ==
  ASSUME TypeOK, Plans, NEW c \in Clients, StartStrip(c)
  PROVE  Plans'
<1>1. PICK policy \in Policies, dry \in BOOLEAN :
        Become(c, [Idle EXCEPT !.phase = "walking", !.op = "strip",
                               !.policy = policy, !.dry = dry, !.todo = Files,
                               !.ack = policy.significant])
  BY DEF StartStrip
<1>2. PICK v : v = [Idle EXCEPT !.phase = "walking", !.op = "strip",
                                !.policy = policy, !.dry = dry, !.todo = Files,
                                !.ack = policy.significant]
  OBVIOUS
<1>3. /\ v.op = "strip" /\ v.phase = "walking" /\ v.text = <<>>
      /\ v.ack = v.policy.significant
  BY <1>2 DEF Idle
<1>4. Sane(v)
  BY <1>3 DEF Sane, Route, Edited, Isolated, Batched, Pending
<1> QED
  BY <1>1, <1>2, <1>4, BecomeSane

LEMMA SkipFileSane ==
  ASSUME TypeOK, Plans, NEW c \in Clients, SkipFile(c)
  PROVE  Plans'
<1> DEFINE me == client[c]
<1>1. PICK f \in me.todo : Become(c, NextFile([me EXCEPT !.file = f, !.todo = @ \ {f}]))
  BY DEF SkipFile
<1>2. PICK v : v = [me EXCEPT !.file = f, !.todo = @ \ {f}]
  OBVIOUS
<1>3. me \in ClientState /\ me.phase = "walking" /\ Route(me) /\ f \in Files
  BY ClientFields DEF SkipFile, Plans, Sane
<1>4. v \in ClientState
  BY <1>2, <1>3, ClientFields DEF ClientState
<1>5. me.op = "strip"
  BY <1>3 DEF Route, ClientState
<1>6. /\ v.op = me.op /\ v.phase = me.phase /\ v.text = me.text /\ v.ack = me.ack
      /\ v.policy = me.policy
  BY <1>2, <1>3 DEF ClientState
<1>7. Route(v)
  BY <1>3, <1>5, <1>6 DEF Route
<1> QED
  BY <1>1, <1>2, <1>4, <1>7, NextFileSane, BecomeSane


\* Deleting nothing leaves everything.
LEMMA NothingStripped ==
  ASSUME NEW me, me.src \in Text
  PROVE  Stripped(me, {}, me.src)
<1>1. PICK s : s = me.src
  OBVIOUS
<1>2. Left(s, {}) = 1..Len(s)
  BY DEF Left, Covered
<1>3. Picks(s, s, Left(s, {}))
  BY <1>1, <1>2, WholePicks
<1> QED
  BY <1>1, <1>3 DEF Stripped

LEMMA StripFileSane ==
  ASSUME TypeOK, Plans, NEW c \in Clients, StripFile(c)
  PROVE  Plans'
<1> DEFINE me == client[c]
<1>1. PICK f \in me.todo : \E s \in Views(f) :
        LET targets == Targets(s, me.policy)
            took == [me EXCEPT !.file = f, !.todo = @ \ {f}, !.src = s]
        IN  CASE targets = {} -> Become(c, NextFile(took))
              [] targets # {} /\ BatchOk(s, targets) ->
                   Become(c, [took EXCEPT
                     !.phase = "ready",
                     !.new = TidyIfAsked(me.policy, BatchText(s, targets),
                                         PointsOf(targets))])
              [] OTHER ->
                   Become(c, [took EXCEPT !.phase = "isolating", !.new = s,
                                          !.targets = targets])
  BY DEF StripFile
<1>2. PICK s \in Views(f) :
        LET targets == Targets(s, me.policy)
            took == [me EXCEPT !.file = f, !.todo = @ \ {f}, !.src = s]
        IN  \/ Become(c, NextFile(took))
            \/ Become(c, [took EXCEPT
                 !.phase = "ready",
                 !.new = TidyIfAsked(me.policy, BatchText(s, targets),
                                     PointsOf(targets))])
            \/ /\ ~BatchOk(s, targets)
               /\ Become(c, [took EXCEPT !.phase = "isolating", !.new = s,
                                         !.targets = targets])
  BY <1>1
<1>3. f \in Files /\ s \in Text
  BY ClientFields, ViewsAreTexts
<1>4. me \in ClientState /\ me.phase = "walking" /\ Route(me) /\ me.op = "strip"
  <2>1. me \in ClientState /\ me.phase = "walking" /\ Route(me)
    BY ClientFields DEF StripFile, Plans, Sane
  <2> QED
    BY <2>1 DEF Route, ClientState
<1>5. PICK targets : targets = Targets(s, me.policy)
  OBVIOUS
<1>6. PICK took : took = [me EXCEPT !.file = f, !.todo = @ \ {f}, !.src = s]
  OBVIOUS
<1>7. /\ took \in ClientState
      /\ took.phase = "walking" /\ took.op = "strip" /\ took.text = me.text
      /\ took.ack = me.ack /\ took.policy = me.policy /\ took.src = s
  BY <1>3, <1>4, <1>6 DEF ClientState
<1>8. Route(took)
  BY <1>4, <1>7 DEF Route
<1>9. CASE Become(c, NextFile(took))
  BY <1>7, <1>8, <1>9, NextFileSane, BecomeSane
<1>10. CASE Become(c, [took EXCEPT
              !.phase = "ready",
              !.new = TidyIfAsked(me.policy, BatchText(s, targets), PointsOf(targets))])
  <2>1. PICK x : x = BatchText(s, targets)
    OBVIOUS
  <2>2. PICK t : t = TidyIfAsked(me.policy, x, PointsOf(targets))
    OBVIOUS
  <2>3. PICK v : v = [took EXCEPT !.phase = "ready", !.new = t]
    OBVIOUS
  <2>4. /\ v.phase = "ready" /\ v.new = t /\ v.op = "strip" /\ v.text = me.text
        /\ v.ack = me.ack /\ v.policy = me.policy /\ v.src = s
    BY <1>7, <2>3 DEF ClientState
  <2>5. x \in Text /\ Picks(x, s, Left(s, targets))
    <3>1. x = KeepAt(s, Left(s, targets)) /\ Left(s, targets) \in SUBSET (1..Len(s))
      BY <2>1 DEF BatchText, Left
    <3> QED
      BY <3>1, <1>3, KeepAtIsText, KeepAtPicks
  <2>6. Stripped(v, targets, x)
    BY <1>5, <2>4, <2>5 DEF Stripped
  <2>7. t = x \/ \E points : t = Tidy(x, points)
    BY <2>2 DEF TidyIfAsked
  <2>8. Sane(v)
    BY <1>4, <1>5, <2>4, <2>5, <2>6, <2>7 DEF Sane, Route, Edited, Isolated, Batched, Pending
  <2> QED
    BY <1>10, <2>1, <2>2, <2>3, <2>8, BecomeSane
<1>11. CASE /\ ~BatchOk(s, targets)
            /\ Become(c, [took EXCEPT !.phase = "isolating", !.new = s, !.targets = targets])
  <2>1. PICK v : v = [took EXCEPT !.phase = "isolating", !.new = s, !.targets = targets]
    OBVIOUS
  <2>2. /\ v.phase = "isolating" /\ v.new = s /\ v.targets = targets /\ v.op = "strip"
        /\ v.text = me.text /\ v.ack = me.ack /\ v.policy = me.policy /\ v.src = s
    BY <1>7, <2>1 DEF ClientState
  <2>3. Stripped(v, {}, v.new)
    BY <1>3, <2>2, NothingStripped
  <2>6. Python
    <3>1. targets \subseteq Extract(s)
      BY <1>5 DEF Targets
    <3> QED
      BY <1>3, <1>11, <3>1, BatchAccepted
  <2>4. Isolated(v)
    BY <1>5, <2>2, <2>3, <2>6 DEF Isolated
  <2>5. Sane(v)
    BY <1>4, <2>2, <2>4 DEF Sane, Route, Edited, Batched, Pending
  <2> QED
    BY <1>11, <2>1, <2>5, BecomeSane
<1> QED
  BY <1>2, <1>5, <1>6, <1>9, <1>10, <1>11

\* Deleting records leaves everything up to a record before them.
LEMMA UntouchedBefore ==
  ASSUME NEW s \in Text, NEW D, D \subseteq Extract(s), NEW r \in Extract(s),
         \A d \in D : r.last < d.first
  PROVE  \A i \in 1..r.last : i \in Left(s, D)
<1>1. Len(s) \in Nat
  BY LenProperties DEF Text
<1>2. r \in Record /\ \A d \in D : d \in Record
  BY ExtractIsRecords
<1>3. r.last \in 1..Len(s)
  BY ExtractInRange
<1> SUFFICES ASSUME NEW i \in 1..r.last, NEW d \in D, i \in Span(d)
             PROVE  FALSE
  BY <1>1, <1>3 DEF Left, Covered
<1>4. d.first \in Nat /\ d.last \in Nat /\ r.last \in Nat /\ r.last < d.first
  BY <1>2 DEF Record
<1> QED
  BY <1>4 DEF Span

\* Taking one more record out, when all that were taken lie above it.
LEMMA OneMoreStripped ==
  ASSUME NEW me, me.src \in Text, me.new \in Text, NEW D, Stripped(me, D, me.new),
         NEW r \in Targets(me.src, me.policy), \A d \in D : r.last < d.first
  PROVE  Stripped(me, D \cup {r}, Splice(me.new, r, <<>>))
<1>1. PICK s : s = me.src
  OBVIOUS
<1>2. PICK x : x = me.new
  OBVIOUS
<1>3. PICK P : P = Left(s, D)
  OBVIOUS
<1>4. s \in Text /\ x \in Text /\ Len(s) \in Nat
  BY <1>1, <1>2, LenProperties DEF Text
<1>5. /\ D \subseteq Targets(s, me.policy) /\ Picks(x, s, P)
      /\ Targets(s, me.policy) \subseteq Extract(s)
      /\ r \in Extract(s)
  BY <1>1, <1>2, <1>3 DEF Stripped, Targets
<1>6. r \in Record /\ \A d \in D : d \in Record
  BY <1>4, <1>5, ExtractIsRecords
<1>8. \A i \in 1..r.last : i \in P
  BY <1>3, <1>4, <1>5, UntouchedBefore
<1>9. Picks(Splice(x, r, <<>>), s, P \ Span(r))
  <2>1. P \in SUBSET (1..Len(s)) /\ 1..r.last \subseteq P
    BY <1>3, <1>8 DEF Left
  <2> QED
    BY <1>4, <1>5, <1>6, <2>1, SplicePicks
<1>10. P \ Span(r) = Left(s, D \cup {r})
  BY <1>3 DEF Left, Covered
<1> QED
  BY <1>1, <1>2, <1>5, <1>9, <1>10 DEF Stripped

LEMMA IsolateOneSane ==
  ASSUME TypeOK, Plans, NEW c \in Clients, IsolateOne(c)
  PROVE  Plans'
<1> DEFINE me == client[c]
<1>1. PICK r \in me.targets :
        /\ \A other \in me.targets : other.first <= r.first
        /\ Become(c,
             IF ApplyOk(me.new, r, <<>>, me.policy.significant)
             THEN [me EXCEPT
                     !.new = Splice(@, r, <<>>),
                     !.targets = @ \ {r},
                     !.points = {SlideDown(p, r) : p \in @} \cup {r.first - 1}]
             ELSE [me EXCEPT !.targets = @ \ {r}])
  BY DEF IsolateOne
<1>2. /\ me \in ClientState /\ me.phase = "isolating" /\ me.src \in Text /\ me.new \in Text
      /\ Route(me) /\ Isolated(me)
  BY ClientFields DEF IsolateOne, Plans, Sane
<1>3. me.op = "strip"
  BY <1>2 DEF Route, ClientState
<1>4. /\ Python
      /\ me.targets \subseteq Targets(me.src, me.policy)
      /\ me.targets \subseteq Extract(me.src)
  BY <1>2 DEF Isolated, Targets
<1>5. PICK D : Stripped(me, D, me.new) /\ \A d \in D, t \in me.targets : t.last < d.first
  BY <1>2 DEF Isolated
<1>6. ASSUME NEW t \in me.targets \ {r}
      PROVE  t.last < r.first
  <2>1. t \in Record /\ r \in Record
    BY <1>2, <1>4, ExtractIsRecords
  <2>2. /\ t.first \in Nat /\ t.last \in Nat /\ r.first \in Nat /\ r.last \in Nat
        /\ t.first <= t.last /\ r.first <= r.last /\ t.first <= r.first
    BY <1>1, <2>1 DEF Record
  <2>3. ~(r.first \in Span(t) /\ r.first \in Span(r))
    BY <1>2, <1>4, <1>6, ExtractApart
  <2> QED
    BY <2>2, <2>3 DEF Span
<1>7. CASE ApplyOk(me.new, r, <<>>, me.policy.significant)
  <2>1. PICK x : x = Splice(me.new, r, <<>>)
    OBVIOUS
  <2>2. PICK points : points = {SlideDown(p, r) : p \in me.points} \cup {r.first - 1}
    OBVIOUS
  <2>3. PICK v : v = [me EXCEPT !.new = x, !.targets = @ \ {r}, !.points = points]
    OBVIOUS
  <2>4. Become(c, v)
    BY <1>1, <1>7, <2>1, <2>2, <2>3
  <2>5. /\ v.new = x /\ v.targets = me.targets \ {r} /\ v.phase = "isolating"
        /\ v.op = "strip" /\ v.text = me.text /\ v.ack = me.ack /\ v.policy = me.policy
        /\ v.src = me.src
    BY <1>2, <1>3, <2>3 DEF ClientState
  <2>6. Stripped(me, D \cup {r}, x)
    BY <1>2, <1>4, <1>5, <2>1, OneMoreStripped
  <2>7. Stripped(v, D \cup {r}, v.new)
    BY <2>5, <2>6 DEF Stripped
  <2>8. \A d \in D \cup {r}, t \in v.targets : t.last < d.first
    BY <1>5, <1>6, <2>5
  <2>9. Isolated(v)
    BY <1>4, <2>5, <2>7, <2>8 DEF Isolated
  <2>10. Sane(v)
    BY <1>2, <1>3, <2>5, <2>9 DEF Sane, Route, Edited, Batched, Pending
  <2> QED
    BY <2>4, <2>10, BecomeSane
<1>8. CASE ~ApplyOk(me.new, r, <<>>, me.policy.significant)
  <2>1. PICK v : v = [me EXCEPT !.targets = @ \ {r}]
    OBVIOUS
  <2>2. /\ v.new = me.new /\ v.targets = me.targets \ {r} /\ v.phase = "isolating"
        /\ v.op = "strip" /\ v.text = me.text /\ v.ack = me.ack /\ v.policy = me.policy
        /\ v.src = me.src
    BY <1>2, <1>3, <2>1 DEF ClientState
  <2>3. Stripped(v, D, v.new)
    BY <1>5, <2>2 DEF Stripped
  <2>4. Isolated(v)
    BY <1>4, <1>5, <2>2, <2>3 DEF Isolated
  <2>5. Sane(v)
    BY <1>2, <1>3, <2>2, <2>4 DEF Sane, Route, Edited, Batched, Pending
  <2> QED
    BY <1>1, <1>8, <2>1, <2>5, BecomeSane
<1> QED
  BY <1>7, <1>8


LEMMA IsolateDoneSane ==
  ASSUME TypeOK, Plans, NEW c \in Clients, IsolateDone(c)
  PROVE  Plans'
<1> DEFINE me == client[c]
<1>1. Become(c, IF me.points = {} THEN NextFile(me)
                ELSE [me EXCEPT !.phase = "ready",
                                !.new = TidyIfAsked(me.policy, @, me.points)])
  BY DEF IsolateDone
<1>2. /\ me \in ClientState /\ me.phase = "isolating" /\ me.new \in Text
      /\ Route(me) /\ Isolated(me)
  BY ClientFields DEF IsolateDone, Plans, Sane
<1>3. me.op = "strip"
  BY <1>2 DEF Route, ClientState
<1>4. CASE me.points = {}
  BY <1>1, <1>2, <1>4, NextFileSane, BecomeSane
<1>5. CASE me.points # {}
  <2>1. PICK t : t = TidyIfAsked(me.policy, me.new, me.points)
    OBVIOUS
  <2>2. PICK v : v = [me EXCEPT !.phase = "ready", !.new = t]
    OBVIOUS
  <2>3. Become(c, v)
    BY <1>1, <1>5, <2>1, <2>2
  <2>4. /\ v.new = t /\ v.phase = "ready" /\ v.op = "strip" /\ v.text = me.text
        /\ v.ack = me.ack /\ v.policy = me.policy /\ v.src = me.src
    BY <1>2, <1>3, <2>2 DEF ClientState
  <2>5. PICK D : Stripped(me, D, me.new)
    BY <1>2 DEF Isolated
  <2>6. Stripped(v, D, me.new)
    BY <2>4, <2>5 DEF Stripped
  <2>7. t = me.new \/ \E points : t = Tidy(me.new, points)
    BY <2>1 DEF TidyIfAsked
  <2>8. Sane(v)
    BY <1>2, <1>3, <2>4, <2>6, <2>7 DEF Sane, Route, Edited, Isolated, Batched, Pending
  <2> QED
    BY <2>3, <2>8, BecomeSane
<1> QED
  BY <1>4, <1>5

LEMMA TruncateSane ==
  ASSUME TypeOK, Plans, NEW c \in Clients, Truncate(c)
  PROVE  Plans'
<1> DEFINE me == client[c]
<1>1. me \in ClientState /\ me.phase = "ready" /\ Sane(me)
  BY ClientFields DEF Truncate, Plans
<1>2. PICK v : v = [me EXCEPT !.phase = "writing"]
  OBVIOUS
<1>3. /\ v.phase = "writing" /\ v.op = me.op /\ v.todo = me.todo /\ v.text = me.text
      /\ v.ack = me.ack /\ v.policy = me.policy /\ v.src = me.src /\ v.new = me.new
      /\ v.rec = me.rec
  BY <1>1, <1>2 DEF ClientState
<1>4. Sane(v)
  BY <1>1, <1>3 DEF Sane, Route, Edited, Isolated, Batched, Stripped, Pending
<1> QED
  BY <1>2, <1>4, BecomeSane DEF Truncate

LEMMA NextFileSteps ==
  ASSUME TypeOK, Plans, NEW c \in Clients, SkipWrite(c) \/ Fill(c)
  PROVE  Plans'
<1>1. client[c] \in ClientState /\ Route(client[c])
  BY ClientFields DEF Plans, Sane
<1>2. Become(c, NextFile(client[c]))
  BY DEF SkipWrite, Fill
<1> QED
  BY <1>1, <1>2, NextFileSane, BecomeSane

LEMMA IdleSteps ==
  ASSUME TypeOK, Plans, NEW c \in Clients, Tear(c) \/ Abandon(c)
  PROVE  Plans'
<1>1. Become(c, Idle)
  BY DEF Tear, Abandon
<1> QED
  BY <1>1, IdleSane, BecomeSane

LEMMA SaneStep ==
  ASSUME TypeOK, Plans, [Next]_vars
  PROVE  Plans'
<1>1. ASSUME UNCHANGED client
      PROVE  Plans'
  BY <1>1 DEF Plans, Sane, Route, Edited, Isolated, Batched, Stripped, Pending
<1>2. ASSUME NEW c \in Clients, EditStep(c)
      PROVE  Plans'
  BY <1>2, ResolveSane, ReadAndVerifySane DEF EditStep
<1>3. ASSUME NEW c \in Clients, StripStep(c)
      PROVE  Plans'
  BY <1>3, StartStripSane, StripFileSane, SkipFileSane, IsolateOneSane, IsolateDoneSane,
     NextFileSteps DEF StripStep
<1>4. ASSUME NEW c \in Clients, WriteStep(c)
      PROVE  Plans'
  BY <1>4, TruncateSane, NextFileSteps, IdleSteps DEF WriteStep
<1>5. World \/ UNCHANGED vars => UNCHANGED client
  BY DEF World, Check, AuthorSave, vars
<1> QED
  BY <1>1, <1>2, <1>3, <1>4, <1>5 DEF Next

\* Whatever is planned or pending anywhere was derived from the source it was
\* read from: an edit as verified, a strip pass by deleting what its policy
\* gives up.
THEOREM PlansHold == Spec => []Plans
<1>1. Init => Plans
  BY IdleSane DEF Init, Plans
<1>2. TypeOK /\ Plans /\ [Next]_vars => Plans'
  BY SaneStep
<1> QED
  BY <1>1, <1>2, TypeCorrect, PTL DEF Spec

-----------------------------------------------------------------------------
(* The code of a file only strip passes write.                             *)

\* What a pass has still to try stands where it stood in the source, so no code
\* has come to stand where a docstring was found.
LEMMA PlansSpareCode ==
  ASSUME TypeOK, Plans
  PROVE  DocstringsStand
<1> SUFFICES ASSUME NEW c \in Clients, client[c].phase = "isolating",
                    NEW r \in client[c].targets, IsCodeNode(r), NEW i \in Span(r)
             PROVE  client[c].new[i] \notin Code
  BY DEF DocstringsStand
<1> DEFINE me == client[c]
<1>1. PICK s : s = me.src
  OBVIOUS
<1>2. PICK x : x = me.new
  OBVIOUS
<1>3. s \in Text /\ x \in Text /\ Isolated(me)
  BY <1>1, <1>2, ClientFields DEF Plans, Sane
<1>4. PICK D : Stripped(me, D, me.new) /\ \A d \in D : r.last < d.first
  BY <1>3 DEF Isolated
<1>5. /\ r \in Extract(s) /\ D \subseteq Extract(s)
      /\ Picks(x, s, Left(s, D))
  BY <1>1, <1>2, <1>3, <1>4 DEF Isolated, Stripped, Targets
<1>6. r.first = r.last /\ s[r.first] \in Note /\ r \in Record
  BY <1>3, <1>5, DocstringIsNote, ExtractIsRecords DEF IsCodeNode
<1>7. i = r.last /\ r.last \in Nat /\ 1 <= r.last
  BY <1>6 DEF Span, Record
<1>8. \A j \in 1..r.last : j \in Left(s, D)
  BY <1>3, <1>4, <1>5, UntouchedBefore
<1>9. PICK at : Lists(at, Len(x), Left(s, D)) /\ \A k \in 1..Len(x) : x[k] = s[at[k]]
  BY <1>5 DEF Picks
<1>10. r.last <= Len(x) /\ Starts(at, r.last)
  <2>1. \A j \in Left(s, D) : j \in Nat /\ j # 0
    BY DEF Left
  <2>2. Len(x) \in Nat
    BY <1>3, LenProperties DEF Text
  <2> QED
    BY <2>1, <2>2, <1>7, <1>8, <1>9, PicksInitial
<1>11. i \in 1..Len(x) /\ at[i] = i
  <2>1. Len(x) \in Nat
    BY <1>3, LenProperties DEF Text
  <2> QED
    BY <2>1, <1>7, <1>10 DEF Starts
<1>12. x[i] = s[i]
  BY <1>9, <1>11
<1> QED
  BY <1>2, <1>6, <1>7, <1>12, SourceAssumption DEF SourceAssumption

\* Parse-invariance of strip passes in every language, Python's docstrings
\* included: however passes, saves and re-checks interleave, a file whose writes
\* were not overlapped or torn has the code its author saved.
THEOREM StripKeepsCode == StripSpec => []CodeKept
<1>1. [StripNext]_vars => [Next]_vars
  BY DEF StripNext, Next
<1>2. StripSpec => Spec
  BY <1>1, PTL DEF StripSpec, Spec
<1>3. Init => Sound
  BY InitSound
<1>4. TypeOK /\ Plans /\ Sound /\ [StripNext]_vars => Sound'
  BY PlansSpareCode, StripSound
<1>5. Sound => CodeKept
  BY DEF Sound, DiskCode, CodeKept
<1> QED
  BY <1>2, <1>3, <1>4, <1>5, TypeCorrect, PlansHold, PTL DEF StripSpec

-----------------------------------------------------------------------------
(* What is kept.                                                           *)

LEMMA StripKeeps ==
  ASSUME TypeOK, Plans
  PROVE  StripKeepsProtected
<1> SUFFICES ASSUME NEW c \in Clients, Planned(client[c]), NEW n \in Note
             PROVE  Times(n, client[c].src,
                          Covered({r \in Extract(client[c].src) :
                                     Protection(client[c].policy, r.kind)}))
                      <= Times(n, client[c].new, Nat)
  BY DEF StripKeepsProtected
<1> DEFINE me == client[c]
           kept == {r \in Extract(me.src) : Protection(me.policy, r.kind)}
<1>1. me.src \in Text /\ Batched(me) /\ me.op = "strip" /\ Pending(me)
  BY ClientFields DEF Plans, Sane, Planned, Pending
<1>2. PICK D, x : /\ x \in Text /\ Stripped(me, D, x)
                  /\ me.new = x \/ \E points : me.new = Tidy(x, points)
  BY <1>1 DEF Batched
<1>3. D \subseteq Extract(me.src) /\ kept \subseteq Extract(me.src) /\ D \cap kept = {}
  BY <1>2 DEF Stripped, Targets
<1> HIDE DEF kept
<1>4. Times(n, me.src, Covered(kept)) <= Times(n, x, Nat)
  BY <1>1, <1>2, <1>3, DeletionKeepsOthers DEF Stripped
<1>5. Times(n, me.new, Nat) = Times(n, x, Nat)
  BY <1>2, TidyKeepsNotes
<1> QED
  BY <1>4, <1>5 DEF kept

LEMMA RemovalKeeps ==
  ASSUME TypeOK, Plans
  PROVE  RemovalKeepsBearing
<1> SUFFICES ASSUME NEW c \in Clients, Unacked(client[c]), Current(client[c]),
                    client[c].text = <<>>
             PROVE  Bearing(client[c].src) \subseteq Bearing(client[c].new)
  BY DEF RemovalKeepsBearing
<1> DEFINE me == client[c]
<1>1. /\ me \in ClientState /\ me.src \in Text /\ me.new \in Text /\ me.rec \in Record
      /\ Pending(me) /\ ~me.ack /\ Route(me) /\ Edited(me) /\ Batched(me)
  BY ClientFields DEF Plans, Sane, Unacked, Pending
<1>2. CASE me.op = "edit"
  <2>1. /\ ApplyOk(me.src, me.rec, <<>>, me.ack) /\ me.new = Splice(me.src, me.rec, <<>>)
        /\ me.rec \in Extract(me.src)
    BY <1>1, <1>2 DEF Edited, Current
  <2>2. ~BehaviorBearing(me.rec.kind) /\ me.rec.last <= Len(me.src)
    BY <1>1, <2>1 DEF ApplyOk, WriteProtected, CommentEditOk
  <2>3. Picks(me.new, me.src, Left(me.src, {me.rec}))
    <3>1. PICK s : s = me.src
      OBVIOUS
    <3>2. PICK r : r = me.rec
      OBVIOUS
    <3>3. s \in Text /\ r \in Record /\ r.last <= Len(s) /\ Len(s) \in Nat
      BY <1>1, <2>2, <3>1, <3>2, LenProperties DEF Text
    <3>4. 1..r.last \subseteq 1..Len(s)
      BY <3>3 DEF Record
    <3>5. Picks(Splice(s, r, <<>>), s, (1..Len(s)) \ Span(r))
      BY <3>3, <3>4, WholePicks, SplicePicks
    <3>6. (1..Len(s)) \ Span(r) = Left(s, {r})
      BY DEF Left, Covered
    <3> QED
      BY <2>1, <3>1, <3>2, <3>5, <3>6
  <2> QED
    BY <1>1, <2>1, <2>2, <2>3, DeletionKeepsBearing
<1>3. CASE me.op = "strip"
  <2>1. ~me.policy.significant
    BY <1>1, <1>3 DEF Route
  <2>2. PICK D, x : /\ x \in Text /\ Stripped(me, D, x)
                    /\ me.new = x \/ \E points : me.new = Tidy(x, points)
    BY <1>1, <1>3 DEF Batched
  <2>3. D \subseteq Extract(me.src) /\ \A d \in D : ~BehaviorBearing(d.kind)
    BY <2>1, <2>2 DEF Stripped, Targets, Protection
  <2>4. Bearing(me.src) \subseteq Bearing(x)
    BY <1>1, <2>2, <2>3, DeletionKeepsBearing DEF Stripped
  <2>5. Bearing(x) \subseteq Bearing(me.new)
    BY <2>2, TidyKeepsNotes
  <2> QED
    BY <2>4, <2>5
<1> QED
  BY <1>1, <1>2, <1>3 DEF ClientState

LEMMA StripTakes ==
  ASSUME ~Python, TypeOK, Plans
  PROVE  StripTakesTheRest
<1> SUFFICES ASSUME NEW c \in Clients, Planned(client[c]), NEW n \in Note
             PROVE  Times(n, client[c].new, Nat)
                      <= Times(n, client[c].src,
                               (1..Len(client[c].src))
                                 \ Covered(Targets(client[c].src, client[c].policy)))
  BY DEF StripTakesTheRest
<1> DEFINE me == client[c]
           D == Targets(me.src, me.policy)
<1>1. me.src \in Text /\ Batched(me) /\ me.op = "strip" /\ Pending(me)
  BY ClientFields DEF Plans, Sane, Planned, Pending
<1>2. PICK x : /\ x \in Text /\ Stripped(me, D, x)
               /\ me.new = x \/ \E points : me.new = Tidy(x, points)
  BY <1>1 DEF Batched
<1>3. PICK P : P = (1..Len(me.src)) \ Covered(D)
  OBVIOUS
<1>4. P \in SUBSET (1..Len(me.src)) /\ Picks(x, me.src, P)
  BY <1>2, <1>3 DEF Stripped, Left
<1>5. Times(n, x, Nat) = Times(n, me.src, P)
  BY <1>1, <1>2, <1>4, PicksCount
<1>6. Times(n, me.new, Nat) = Times(n, x, Nat)
  BY <1>2, TidyKeepsNotes
<1>7. Times(n, me.src, P) \in Nat
  <2> DEFINE S == {i \in (1..Len(me.src)) \cap P : me.src[i] = n}
  <2>1. IsFiniteSet(1..Len(me.src))
    <3>1. Len(me.src) \in Nat
      BY <1>1, LenProperties DEF Text
    <3> QED
      BY <3>1, FS_Interval
  <2>2. S \in SUBSET (1..Len(me.src))
    OBVIOUS
  <2> HIDE DEF S
  <2>3. Cardinality(S) \in Nat
    BY <2>1, <2>2, FS_Subset, FS_CardinalityType
  <2> QED
    BY <2>3 DEF Times, S
<1> QED
  BY <1>3, <1>5, <1>6, <1>7

\* A strip pass takes only what its policy gives up, in every file, whatever the
\* text, the policy and the other clients: each comment that was protected when
\* the file was read is still there, by the batch, one by one, and tidied.
THEOREM ProtectedIsKept == Spec => []StripKeepsProtected
BY StripKeeps, PlansHold, TypeCorrect, PTL

\* Write-protection for deletions: removing a comment the index still describes,
\* or stripping without an acknowledgment, takes no behavior-bearing comment out
\* of effect, neither by deleting it nor by moving or swallowing it.
THEOREM BearingIsKept == Spec => []RemovalKeepsBearing
BY RemovalKeeps, PlansHold, TypeCorrect, PTL

\* A strip pass is complete outside Python: nothing the policy gives up is left,
\* since no batch of removals is ever refused.
THEOREM RestIsTaken == ~Python => (Spec => []StripTakesTheRest)
<1>1. ASSUME ~Python
      PROVE  Spec => []StripTakesTheRest
  <2>1. TypeOK /\ Plans => StripTakesTheRest
    BY <1>1, StripTakes
  <2> QED
    BY <2>1, PlansHold, TypeCorrect, PTL
<1> QED
  BY <1>1
=============================================================================
