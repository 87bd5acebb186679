-------------------------------- MODULE Export --------------------------------
(***************************************************************************)
(* Suppressions as the tools' own directives, written into the sources.    *)
(*                                                                         *)
(* A source is [language, lines], a line [id, open, shut, marks]: what its *)
(* start and its end lie in ("code", a "string", a "block" comment; the    *)
(* end also in a "line" comment), and the directives it carries, a set of  *)
(* [origin, rules, live].  A string stands for whatever no comment begins  *)
(* in.  A suppressed finding is [file, line, origin, rule], its line being *)
(* an index into the lines as the check read them.                         *)
(***************************************************************************)
EXTENDS Naturals, Sequences, SequencesExt, FiniteSetsExt

CONSTANTS None

\* The origins with a directive, in their order, and where it goes.
Exported == <<"ruff", "eslint", "shellcheck", "gitleaks">>

DirectiveMarker(origin) == IF origin \in ToSet(Exported) THEN origin ELSE None

Placement(origin) == IF origin \in {"eslint", "shellcheck"} THEN "line above" ELSE "trailing"

\* One directive for all rules of a line; that of gitleaks names none.
MergedDirective(origin, rules) ==
  [origin |-> origin, rules |-> IF origin = "gitleaks" THEN {} ELSE rules, live |-> TRUE]

SlashComments(language) == language \in {"javascript", "typescript"}

\* Whether text there is, or begins, a comment; eslint's begins with slashes, the
\* others' with a hash, in whatever language.
TakenAsComment(where, origin, language) ==
  CASE where = "code" -> SlashComments(language) = (origin = "eslint")
    [] where = "string" -> FALSE
    [] OTHER -> TRUE

Carries(line, origin) == \E d \in line.marks : d.origin = origin

\* insert_comment: refused unless the text is a comment where it stands. A line of
\* its own within a block comment is one, but no tool looks for a directive there.
\* An insertion is [at, origin, rules, place].
InsertComment(source, ins) ==
  LET line == source.lines[ins.at]
      directive == MergedDirective(ins.origin, ins.rules)
      Taken(where) == TakenAsComment(where, ins.origin, source.language)
      Inside(where) == IF where = "code" THEN "line" ELSE where
      above == [id |-> None, open |-> line.open, shut |-> Inside(line.open),
                marks |-> {[directive EXCEPT !.live = line.open # "block"]}]
  IN  CASE ins.place = "trailing" /\ Taken(line.shut) ->
             [source EXCEPT !.lines[ins.at].marks = @ \cup {directive},
                            !.lines[ins.at].shut = Inside(@)]
        [] ins.place = "line above" /\ Taken(line.open) ->
             [source EXCEPT !.lines = InsertAt(@, ins.at, above)]
        [] OTHER -> None

\* Bug: the line itself is looked at, wherever the directive goes.
OnTheLine(lines, at, origin) == Carries(lines[at], origin)

\* Whether a directive of the origin, for whatever rules, is there.
AlreadyPresent(lines, at, origin) ==
  IF Placement(origin) = "trailing" THEN Carries(lines[at], origin)
  ELSE at > 1 /\ Carries(lines[at - 1], origin)

\* One insertion for each line and origin, the highest place first: the end of a
\* line comes after its start, and of two at one place the lower origin is first.
Plan(lines, found) ==
  LET groups == {<<f.line, f.origin>> : f \in {g \in found : DirectiveMarker(g.origin) # None}}
      new == {g \in groups : ~AlreadyPresent(lines, g[1], g[2])}
      Insertion(g) == [at |-> g[1], origin |-> g[2], place |-> Placement(g[2]),
                       rules |-> {f.rule : f \in {h \in found : h.line = g[1] /\ h.origin = g[2]}}]
      Rank(origin) == CHOOSE i \in 1..Len(Exported) : Exported[i] = origin
      Place(i) == 2 * i.at + (IF i.place = "trailing" THEN 1 ELSE 0)
      Before(i, j) == Place(i) > Place(j) \/ (Place(i) = Place(j) /\ Rank(i.origin) < Rank(j.origin))
  IN  SetToSortSeq({Insertion(g) : g \in new}, Before)

\* One file, in memory: the new source, or None when an insertion is refused.
ExportFile(source, found) ==
  FoldLeft(LAMBDA s, ins : IF s = None THEN None ELSE InsertComment(s, ins),
           source, Plan(source.lines, found))

\* The files in their order; the first refusal ends it, with what is written so
\* far.
ExportSuppressions(sources, suppressed) ==
  FoldLeft(LAMBDA acc, n :
             LET source == acc.sources[n]
                 out == ExportFile(source, {f \in suppressed : f.file = n})
             IN  IF acc.failed THEN acc
                 ELSE IF out = None THEN [acc EXCEPT !.failed = TRUE]
                 ELSE [acc EXCEPT !.sources[n] = out,
                                  !.files = IF out = source THEN @ ELSE @ \cup {n}],
           [sources |-> sources, files |-> {}, failed |-> FALSE],
           [n \in 1..Len(sources) |-> n])
=============================================================================
