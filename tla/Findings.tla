------------------------------- MODULE Findings -------------------------------
(***************************************************************************)
(* Findings: how what a tool reports becomes a finding of a comment.       *)
(*                                                                         *)
(* A rule is an origin-qualified rule id; its origin, its bare id and the  *)
(* category its manifest maps it to are constants.  Positions are byte     *)
(* offsets of one file.  A provider reports a point, so its findings have  *)
(* an empty range; the native detectors report a span.                     *)
(***************************************************************************)
EXTENDS Naturals, Sequences, SequencesExt

CONSTANTS
  Rules,        \* provider_rule_ids
  RuleOrder,    \* [Rules -> Nat], their order as strings
  OriginOf,     \* [Rules -> the provider that reports it]
  CanonOf,      \* [Rules -> the bare rule id]
  CategoryMap,  \* [Rules -> Categories \cup {Unmapped}], [category_map] and its default
  Curated       \* the origins whose manifest says keep_only_mapped

Unmapped == "unmapped"

\* In the order of their declaration.
CategoryOrder ==
  <<"doc_missing", "doc_drift", "doc_style", "commented_code", "secret", "todo_format",
    "marker_stale", "comment_style", "shebang", "directive", "rot_candidate",
    "reference_stale", "path_missing">>

Categories == {CategoryOrder[i] : i \in 1..Len(CategoryOrder)}

Info == 0
Warning == 1
Error == 2
Critical == 3
Severities == Info..Critical

ASSUME FindingsAssumption ==
  /\ RuleOrder \in [Rules -> Nat]
  /\ \A r, s \in Rules : RuleOrder[r] = RuleOrder[s] => r = s
  /\ CategoryMap \in [Rules -> Categories \cup {Unmapped}]

FailsCi(severity, failOn) == severity >= failOn

\* The severity a category anchors to.
CanonicalSeverity(category) ==
  CASE category = "secret" -> Critical
    [] category \in {"doc_drift", "directive"} -> Error
    [] category \in {"doc_style", "todo_format", "comment_style", "rot_candidate"} -> Info
    [] OTHER -> Warning

\* [severity] overrides, the most specific key first; else the anchor.
ResolveSeverity(category, rule, over) ==
  LET keys == <<rule, CanonOf[rule], category, OriginOf[rule]>>
      hits == {i \in 1..4 : keys[i] \in DOMAIN over}
  IN  IF hits = {} THEN CanonicalSeverity(category)
      ELSE over[keys[CHOOSE i \in hits : \A j \in hits : i <= j]]

-----------------------------------------------------------------------------
(* One provider's output.                                                   *)

\* The canonical sort key (file, start_line, start_byte, provider_rule_id), for
\* findings of one file.
Key(f) == <<f.line, f.start, RuleOrder[f.rule]>>

KeyLess(a, b) == \E i \in 1..3 : a[i] < b[i] /\ \A j \in 1..(i - 1) : a[j] = b[j]

\* How many come before it, and itself; those with the same key stay as they were.
Place(findings, i) ==
  Cardinality({j \in 1..Len(findings) :
    \/ KeyLess(Key(findings[j]), Key(findings[i]))
    \/ ~KeyLess(Key(findings[i]), Key(findings[j])) /\ j <= i})

\* The items of a sequence at the places a sort gives them.
Arrange(s, place) ==
  [k \in 1..Len(s) |-> s[CHOOSE i \in 1..Len(s) : place[i] = k]]

InOrder(findings) == Arrange(findings, [i \in 1..Len(findings) |-> Place(findings, i)])

\* The items of a sequence that are in a set, in their order.
Keep(s, set) == FlattenSeq([i \in 1..Len(s) |-> IF s[i] \in set THEN <<s[i]>> ELSE <<>>])

\* The points a tool reports of a file, under their category and severity; a
\* curated manifest drops what it does not map.
Normalize(file, reported, over) ==
  LET kept == Keep(reported, {e \in Range(reported) : CategoryMap[e.rule] # Unmapped
                                                        \/ OriginOf[e.rule] \notin Curated})
      Finding(e) ==
        LET category == IF CategoryMap[e.rule] = Unmapped THEN "comment_style"
                        ELSE CategoryMap[e.rule]
        IN  [file |-> file, start |-> e.at, end |-> e.at, line |-> e.line,
             rule |-> e.rule, category |-> category,
             severity |-> ResolveSeverity(category, e.rule, over), also |-> {}]
  IN  InOrder([i \in 1..Len(kept) |-> Finding(kept[i])])

RunStates == {"SUCCESS", "EMPTY", "PARTIAL", "SKIPPED"}

Ran(findings) == [state |-> IF findings = <<>> THEN "EMPTY" ELSE "SUCCESS", findings |-> findings]
Skipped == [state |-> "SKIPPED", findings |-> <<>>]
Partial == [state |-> "PARTIAL", findings |-> <<>>]

-----------------------------------------------------------------------------
(* Attachment to comments.                                                  *)

Overlaps(r, s) == r.start < s.end /\ s.start < r.end

ContainsByte(r, byte) == r.start <= byte /\ byte < r.end

\* The point of a finding, or a part of its span, lies in the comment.
WithinCommentSpan(comment, f) ==
  comment.file = f.file /\ (ContainsByte(comment, f.start) \/ Overlaps(comment, f))

\* A provider's finding names its file as the symbol, which no comment is bound
\* to, so that it attaches by its place alone.
AttachesTo(comment, f) == WithinCommentSpan(comment, f)

\* Each finding goes to the first comment that takes it, or to none.
AttachFindings(comments, findings) ==
  [n \in 1..Len(comments) |->
     [comments[n] EXCEPT !.findings =
        @ \o Keep(findings, {f \in Range(findings) :
               AttachesTo(comments[n], f) /\ \A m \in 1..(n - 1) : ~AttachesTo(comments[m], f)})]]

Unattached(comments, findings) ==
  Keep(findings, {f \in Range(findings) : \A n \in 1..Len(comments) : ~AttachesTo(comments[n], f)})

-----------------------------------------------------------------------------
(* One issue seen twice becomes one finding.                                *)

\* Bug: the first of two stands for both, however mild it is.
MergeFirst(a, b) ==
  [a EXCEPT !.also = (@ \cup {OriginOf[b.rule]} \cup b.also) \ {OriginOf[a.rule]}]

\* The more severe of two stands for both; the other leaves its origin.
MergeTwo(a, b) ==
  LET first == \/ a.severity > b.severity
               \/ (a.severity = b.severity /\ ~KeyLess(Key(b), Key(a)))
      rep == IF first THEN a ELSE b
      other == IF first THEN b ELSE a
  IN  [rep EXCEPT !.also = (@ \cup {OriginOf[other.rule]} \cup other.also) \ {OriginOf[rep.rule]}]

SpanLess(f, g) == f.start < g.start \/ (f.start = g.start /\ f.end < g.end)

SpanPlace(findings, i) ==
  Cardinality({j \in 1..Len(findings) :
    \/ SpanLess(findings[j], findings[i])
    \/ ~SpanLess(findings[i], findings[j]) /\ j <= i})

BySpan(findings) == Arrange(findings, [i \in 1..Len(findings) |-> SpanPlace(findings, i)])

\* Bug: a finding is compared with the last one only.
JoinLast(acc, f) ==
  IF acc.out # <<>> /\ f.start < acc.end
  THEN [out |-> [acc.out EXCEPT ![Len(acc.out)] = MergeTwo(@, f)], end |-> f.end]
  ELSE [out |-> Append(acc.out, f), end |-> f.end]

\* A finding that starts before the running cluster ends joins it; another one
\* starts a cluster of its own.
Join(acc, f) ==
  IF acc.out # <<>> /\ f.start < acc.end
  THEN [out |-> [acc.out EXCEPT ![Len(acc.out)] = MergeTwo(@, f)],
        end |-> IF f.end > acc.end THEN f.end ELSE acc.end]
  ELSE [out |-> Append(acc.out, f), end |-> f.end]

\* One sweep over the findings of one category, in the order of their spans.
Sweep(findings) ==
  LET spans == BySpan(findings)
      swept[n \in 0..Len(spans)] ==
        IF n = 0 THEN [out |-> <<>>, end |-> 0] ELSE Join(swept[n - 1], spans[n])
  IN  swept[Len(spans)].out

InCategory(findings, category) == Keep(findings, {f \in Range(findings) : f.category = category})

DedupFindings(findings) ==
  InOrder(FlattenSeq([i \in 1..Len(CategoryOrder) |->
    Sweep(InCategory(findings, CategoryOrder[i]))]))

-----------------------------------------------------------------------------
(* The verdict.                                                             *)

\* The verdict of a CI report over the findings no baseline covers.
Verdict(new, failOn, anyPartial) ==
  IF anyPartial THEN "degraded"
  ELSE IF \E i \in 1..Len(new) : FailsCi(new[i].severity, failOn) THEN "fail" ELSE "pass"

-----------------------------------------------------------------------------
(* Properties                                                               *)

\* Two reports of one issue.
SameIssue(findings, i, j) ==
  findings[i].category = findings[j].category /\ Overlaps(findings[i], findings[j])

ClosedUnderIssues(findings, S) ==
  \A i \in S, j \in 1..Len(findings) : SameIssue(findings, i, j) => j \in S

\* What hangs together with the i-th, over any number of others.
Cluster(findings, i) ==
  {j \in 1..Len(findings) :
     \A S \in SUBSET (1..Len(findings)) : i \in S /\ ClosedUnderIssues(findings, S) => j \in S}

Clusters(findings) == {Cluster(findings, i) : i \in 1..Len(findings)}

\* By its key, then by its end.
Precedes(f, g) == KeyLess(Key(f), Key(g)) \/ (Key(f) = Key(g) /\ f.end < g.end)

\* f is the worst of S as it was reported, of equals the first, with the names of
\* the other tools that saw it.
StandsFor(f, findings, S) ==
  \E i \in S :
    /\ \A j \in S : \/ findings[i].severity > findings[j].severity
                    \/ /\ findings[i].severity = findings[j].severity
                       /\ ~Precedes(findings[j], findings[i])
    /\ f = [findings[i] EXCEPT
              !.also = {OriginOf[findings[j].rule] : j \in S} \ {OriginOf[findings[i].rule]}]

\* out has one finding for each cluster of overlapping findings of a category, in
\* the canonical order.
OnePerCluster(out, findings) ==
  /\ \E of \in Bijection(1..Len(out), Clusters(findings)) :
       \A k \in 1..Len(out) : StandsFor(out[k], findings, of[k])
  /\ \A k, l \in 1..Len(out) : k < l => ~KeyLess(Key(out[l]), Key(out[k]))
=============================================================================
