----------------------------- MODULE Suppression -----------------------------
(***************************************************************************)
(* Which findings are hidden: inline directives, and the committed         *)
(* baseline of accepted identities.                                        *)
(*                                                                         *)
(* A comment has its file, span and start line, the symbol it is bound to, *)
(* its cosmetic fingerprint, its findings, and a directive or None.        *)
(***************************************************************************)
EXTENDS Findings

CONSTANTS None

-----------------------------------------------------------------------------
(* Directives                                                               *)

DirectiveKinds == {"disable-line", "disable-next-line", "disable", "enable", "disable-file"}

\* The directives of a check: those of every comment of every file, in the
\* order of the comments, each with the line its comment starts on.
DirectivesOf(comments) ==
  LET marked == SelectSeq(comments, LAMBDA c : c.directive # None)
  IN  [i \in 1..Len(marked) |->
         [kind |-> marked[i].directive.kind, targets |-> marked[i].directive.targets,
          line |-> marked[i].line, file |-> marked[i].file]]

\* A target may be a rule, a bare id, a category or an origin; no target is all.
TargetMatches(f, d) ==
  \/ d.targets = {}
  \/ d.targets \cap {f.rule, CanonOf[f.rule], f.category, OriginOf[f.rule]} # {}

\* An enable closes the region of a disable before the line.
ReenabledBetween(disable, line, all) ==
  \E i \in 1..Len(all) :
    /\ all[i].kind = "enable"
    /\ all[i].line > disable.line
    /\ all[i].line <= line
    /\ \/ all[i].targets = {} \/ disable.targets = {}
       \/ all[i].targets \cap disable.targets # {}

ScopeCovers(d, line, all) ==
  CASE d.kind = "disable-file" -> TRUE
    [] d.kind = "disable-line" -> d.line = line
    [] d.kind = "disable-next-line" -> d.line + 1 = line
    [] d.kind = "disable" -> d.line <= line /\ ~ReenabledBetween(d, line, all)
    [] OTHER -> FALSE

\* What one directive of all hides.
HidesFinding(d, f, all) == TargetMatches(f, d) /\ ScopeCovers(d, f.line, all)

SuppressedByDirective(f, all) == \E i \in 1..Len(all) : HidesFinding(all[i], f, all)

-----------------------------------------------------------------------------
(* The baseline: a set of (symbol, fingerprint, rule)                       *)

Entry(comment, rule) == [symbol |-> comment.symbol, print |-> comment.print, rule |-> rule]

\* What is identified of each finding: its provider's rule.
CurrentIdentities(comments) ==
  UNION {{Entry(comments[n], comments[n].findings[i].rule) : i \in 1..Len(comments[n].findings)} :
           n \in 1..Len(comments)}

\* An entry may name the provider's rule or the bare id.
Baselined(baseline, comment, f) ==
  Entry(comment, f.rule) \in baseline \/ Entry(comment, CanonOf[f.rule]) \in baseline

\* Bug: one entry for each comment.
AcceptFirst(comments) ==
  {Entry(comments[n], comments[n].findings[1].rule) :
     n \in {m \in 1..Len(comments) : comments[m].findings # <<>>}}

Accept(comments) == CurrentIdentities(comments)

\* Bug: the entries that still occur are the ones that go.
PruneCurrent(baseline, comments) == baseline \ CurrentIdentities(comments)

\* The entries whose identity still occurs.
Prune(baseline, comments) == baseline \cap CurrentIdentities(comments)

-----------------------------------------------------------------------------
\* One pass over both: (n, i) for the i-th finding of the n-th comment.
Suppressed(comments, baseline) ==
  LET all == DirectivesOf(comments)
  IN  {p \in UNION {{n} \X (1..Len(comments[n].findings)) : n \in 1..Len(comments)} :
         LET f == comments[p[1]].findings[p[2]]
         IN  SuppressedByDirective(f, all) \/ Baselined(baseline, comments[p[1]], f)}

\* The comments with the findings that are shown.
LiveComments(comments, baseline) ==
  LET hidden == Suppressed(comments, baseline)
      Shown(n) == LET fs == comments[n].findings
                      left == {i \in 1..Len(fs) : <<n, i>> \notin hidden}
                  IN  [k \in 1..Cardinality(left) |->
                         fs[CHOOSE i \in left : Cardinality({j \in left : j <= i}) = k]]
  IN  [n \in 1..Len(comments) |-> [comments[n] EXCEPT !.findings = Shown(n)]]

\* What a CI diff calls new: what the baseline does not cover.
NewFindings(comments, baseline) ==
  FlattenSeq([n \in 1..Len(comments) |->
    SelectSeq(comments[n].findings, LAMBDA f : ~Baselined(baseline, comments[n], f))])
=============================================================================
