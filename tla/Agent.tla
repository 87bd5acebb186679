-------------------------------- MODULE Agent --------------------------------
(***************************************************************************)
(* What an agent is given: search results, and findings in bounded pages.  *)
(*                                                                         *)
(* A comment has findings (each a severity and an origin), markers, and    *)
(* git, the time of its last commit or None.  Scores are exact fractions.  *)
(***************************************************************************)
EXTENDS Naturals, Sequences, SequencesExt, FiniteSetsExt

Smaller(a, b) == Min({a, b})

CONSTANTS None

-----------------------------------------------------------------------------
(* Hybrid search                                                            *)

\* Bug: no damping, so that one signal's favourite beats what both find.
Undamped == 0

RrfK == 60

CandidateFactor == 5

\* The sum of 1 / (K + rank) over the lists an id is in, as <<n, d>>.
Score(id, lists) ==
  FoldLeft(LAMBDA s, list :
             IF id \notin ToSet(list) THEN s
             ELSE LET d == RrfK + CHOOSE p \in 1..Len(list) : list[p] = id
                  IN  <<s[1] * d + s[2], s[2] * d>>,
           <<0, 1>>, lists)

\* Higher scores first, then smaller ids; at most limit of them.
ReciprocalRankFusion(lists, limit) ==
  LET ids == UNION {ToSet(lists[i]) : i \in 1..Len(lists)}
      score == [id \in ids |-> Score(id, lists)]
      Before(a, b) ==
        LET s == score[a]  t == score[b]
        IN  s[1] * t[2] > t[1] * s[2] \/ (s[1] * t[2] = t[1] * s[2] /\ a < b)
      rank == [id \in ids |-> Cardinality({x \in ids : Before(x, id)}) + 1]
  IN  [n \in 1..Smaller(limit, Cardinality(ids)) |-> CHOOSE id \in ids : rank[id] = n]

\* keyword and semantic are all there is to find, best first.
HybridQuery(keyword, semantic, limit) ==
  LET Pool(list) == SubSeq(list, 1, Smaller(limit * CandidateFactor, Len(list)))
  IN  ReciprocalRankFusion(<<Pool(keyword), Pool(semantic)>>, limit)

-----------------------------------------------------------------------------
(* Ranking and paging                                                       *)

\* Bug: an item that does not fit is left for the next page, even alone.
FitsStrictly(n, costs, limit, maxTokens) ==
  /\ limit = None \/ n <= limit
  /\ maxTokens = None \/ FoldLeft(LAMBDA t, c : t + c, 0, SubSeq(costs, 1, n)) <= maxTokens

\* Whether the first n items fit; one item always fits the tokens.
Fits(n, costs, limit, maxTokens) ==
  /\ limit = None \/ n <= limit
  /\ \/ maxTokens = None \/ n <= 1
     \/ FoldLeft(LAMBDA t, c : t + c, 0, SubSeq(costs, 1, n)) <= maxTokens

\* The view of a ranked list from offset on; costs are those of its items.
Bound(items, costs, limit, maxTokens, offset) ==
  LET start == Smaller(offset, Len(items))
      rest == SubSeq(costs, start + 1, Len(items))
      n == Max({k \in 0..Len(rest) : \A j \in 0..k : Fits(j, rest, limit, maxTokens)})
      truncated == start + n < Len(items)
  IN  [items |-> SubSeq(items, start + 1, start + n), total |-> Len(items),
       truncated |-> truncated, cursor |-> IF truncated THEN start + n ELSE None]

\* The age that is compared is the time of the last commit; none counts as zero.
BlameAge(comment) == IF comment.git = None THEN 0 ELSE comment.git

Priority(comment, f) == <<f.severity, BlameAge(comment), Len(comment.markers)>>

Above(p, q) == \E i \in 1..3 : p[i] > q[i] /\ \A j \in 1..(i - 1) : p[j] = q[j]

\* rank_by: the findings <<n, i>> of comments, all or the native ones, the highest
\* priority first; a stable sort.
Ranked(comments, nativeOnly) ==
  LET all == {p \in UNION {{n} \X (1..Len(comments[n].findings)) : n \in 1..Len(comments)} :
                nativeOnly => comments[p[1]].findings[p[2]].origin = "native"}
      Of(p) == Priority(comments[p[1]], comments[p[1]].findings[p[2]])
      Earlier(p, q) == p[1] < q[1] \/ (p[1] = q[1] /\ p[2] < q[2])
  IN  SetToSortSeq(all, LAMBDA p, q : Above(Of(p), Of(q)) \/ (Of(p) = Of(q) /\ Earlier(p, q)))

OneEach(items) == [i \in 1..Len(items) |-> 1]

\* How many findings there are of each severity.
SeverityHistogram(comments) ==
  [s \in 0..3 |-> Cardinality({p \in UNION {{n} \X (1..Len(comments[n].findings)) :
                                             n \in 1..Len(comments)} :
                                 comments[p[1]].findings[p[2]].severity = s})]

\* The check tool: all findings, in pages.
CheckTool(comments, limit, cursor) ==
  LET ranked == Ranked(comments, FALSE)
  IN  Bound(ranked, OneEach(ranked), limit, None, cursor)

\* The candidates tool: the native findings; its view has a cursor, its
\* arguments have not.
CandidatesTool(comments, limit) ==
  LET ranked == Ranked(comments, TRUE)
  IN  Bound(ranked, OneEach(ranked), limit, None, 0)

\* The files a strip touched, the largest removals first, one page of them.
StripTool(removed, limit) ==
  LET paths == SetToSortSeq(DOMAIN removed,
                 LAMBDA a, b : removed[a] > removed[b] \/ (removed[a] = removed[b] /\ a < b))
  IN  Bound(paths, OneEach(paths), limit, None, 0)
=============================================================================
