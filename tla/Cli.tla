---------------------------------- MODULE Cli ----------------------------------
(***************************************************************************)
(* The verbs of the command line: what a caller is shown, on which         *)
(* stream, and with which exit code.                                       *)
(*                                                                         *)
(* A check's result is [comments, states, unattached, suppressed]: the     *)
(* comments with findings [severity, origin, rule] and markers, the state  *)
(* of every provider that was asked, findings without a comment, and the   *)
(* places <<n, i>> of suppressed findings.  What a verb answers is         *)
(* [out, err, code]; None is an error, which ends the process with 2.      *)
(***************************************************************************)
EXTENDS Agent, Render

EXIT_OK == 0
EXIT_FINDINGS == 1
EXIT_ERROR == 2

Formats == {"terminal", "jsonl", "sarif", "markdown", "csv"}

Answer(out, err, code) == [out |-> out, err |-> err, code |-> code]

\* main: an error, or the verb's own code.
ExitCode(answer) == IF answer = None THEN EXIT_ERROR ELSE answer.code

-----------------------------------------------------------------------------
(* check                                                                    *)

\* Bug: the findings are counted off by their place among those still shown.
DropOneByOne(result) ==
  [n \in 1..Len(result.comments) |->
    [result.comments[n] EXCEPT !.findings =
       FoldLeft(LAMBDA fs, i : IF <<n, i>> \in result.suppressed /\ i <= Len(fs)
                               THEN RemoveAt(fs, i) ELSE fs,
                @, [i \in 1..Len(@) |-> i])]]

\* The comments without what is suppressed; the places are those of the result.
LiveComments(result) ==
  [n \in 1..Len(result.comments) |->
    LET fs == result.comments[n].findings
        shown == SetToSortSeq({i \in 1..Len(fs) : <<n, i>> \notin result.suppressed}, <)
    IN  [result.comments[n] EXCEPT !.findings = [k \in 1..Len(shown) |-> fs[shown[k]]]]]

AlwaysFailMarkers == {"DO_NOT_MERGE"}

CiExitCode(comments, failOn) ==
  IF \E n \in 1..Len(comments) :
       \/ \E i \in 1..Len(comments[n].findings) : comments[n].findings[i].severity >= failOn
       \/ comments[n].markers \cap AlwaysFailMarkers # {}
  THEN EXIT_FINDINGS ELSE EXIT_OK

\* Bug: a provider that is not there is silent.
OnlyPartial(result) ==
  {<<"partial", t>> : t \in {u \in DOMAIN result.states : result.states[u] = "PARTIAL"}}

\* The lines on standard error: providers without results, and how many findings
\* have no comment.
Diagnostics(result) ==
  {<<"partial", t>> : t \in {u \in DOMAIN result.states : result.states[u] = "PARTIAL"}}
    \cup {<<"skipped", t>> : t \in {u \in DOMAIN result.states : result.states[u] = "SKIPPED"}}
    \cup (IF result.unattached = <<>> THEN {} ELSE {<<"unattached", Len(result.unattached)>>})

SuppressionNote(result) ==
  IF result.suppressed = {} THEN {} ELSE {<<"suppressed", Cardinality(result.suppressed)>>}

\* The findings are printed and reported before they are indexed.  result is None
\* when the check fails.
RunCheck(result, format, failOn, strict, showSuppressed, indexed) ==
  IF result = None \/ ~indexed THEN None
  ELSE LET live == LiveComments(result)
       IN  Answer(Rendered(IF showSuppressed THEN result.comments ELSE live, format),
                  Diagnostics(result) \cup SuppressionNote(result),
                  CiExitCode(live, IF strict THEN 0 ELSE failOn))

-----------------------------------------------------------------------------
(* The other readers                                                        *)

\* The worklist of a check without providers: no suppression hides from it.
RunCandidates(result, limit) ==
  IF result = None THEN None ELSE Answer(CandidatesTool(result.comments, limit).items, {}, EXIT_OK)

\* It lists the built-in providers and looks at no version.
RunDoctor(providers) == IF providers = None THEN None ELSE Answer(providers, {}, EXIT_OK)

\* search has the best n ids of an index for every n; index is None when there is
\* none.
RunQuery(index, search, limit, cursor) ==
  LET offset == IF cursor = None THEN 0 ELSE cursor
      hits == search[limit + offset]
  IN  IF index = None THEN None
      ELSE Answer(SubSeq(hits, Smaller(offset, Len(hits)) + 1, Len(hits)), {}, EXIT_OK)

\* index maps ids to comments; an id that is no number is None.
ResolveComment(index, id) ==
  IF index = None \/ id = None THEN None ELSE IF id \in DOMAIN index THEN index[id] ELSE None

\* The bound code is read from the file as it is now.
RunContext(index, id, withCode, sources) ==
  LET c == ResolveComment(index, id)
      code == IF ~withCode \/ c.code = None THEN <<>>
              ELSE IF c.code[2] > Len(sources[c.path]) THEN <<>>
              ELSE SubSeq(sources[c.path], c.code[1], c.code[2])
  IN  IF c = None THEN None
      ELSE IF withCode /\ c.code # None /\ c.path \notin DOMAIN sources THEN None
      ELSE Answer(<<c, code>>, {}, EXIT_OK)

\* What apply-edit and remove print of the findings of the re-check.
EditReport(verb, c, findings) ==
  Answer(<<verb, c.path, c.first, IF findings = <<>> THEN "clean" ELSE findings>>, {}, EXIT_OK)

-----------------------------------------------------------------------------
(* Verbs that write                                                         *)

\* A plan and its execution are told in the same words.
StripReport(report) ==
  [head |-> IF report.dryRun THEN "plan" ELSE "stripped",
   removed |-> report.removed, files |-> report.files,
   kept |-> IF report.kept = 0 THEN None ELSE report.kept,
   apply |-> report.dryRun /\ report.removed > 0,
   reindex |-> ~report.dryRun /\ report.removed > 0]

RunStrip(report, skipped) == IF report = None THEN None ELSE Answer(StripReport(report), skipped, EXIT_OK)

\* The baseline after `accept` or `prune`, and what is said of it; a prune needs
\* a file that can be read.  identities are those of the result's findings.
RunBaseline(action, result, file, identities) ==
  LET kept == file \cap identities
  IN  CASE result = None -> None
        [] result # None /\ action = "accept" ->
             [file |-> identities,
              answer |-> Answer(<<"accepted", Cardinality(identities)>>,
                                Diagnostics(result), EXIT_OK)]
        [] OTHER ->
             IF file = None THEN None
             ELSE [file |-> kept,
                   answer |-> Answer(<<"pruned", Cardinality(file) - Cardinality(kept)>>,
                                     Diagnostics(result), EXIT_OK)]

\* report is that of Export, or None.
RunSuppressions(result, report) ==
  IF result = None \/ report = None THEN None
  ELSE Answer(report.files, Diagnostics(result), EXIT_OK)

\* The request for a marker: a title of the marker and the text's first line.
IssueRequest(c, marker) ==
  [title |-> <<marker, IF c.lines = <<>> THEN "" ELSE Head(c.lines)>>,
   body |-> <<c.path, c.first, c.lines>>, labels |-> <<"commenter-cat", marker>>]

RunInstallHooks(installed) == IF installed = None THEN None ELSE Answer(installed, {}, EXIT_OK)
=============================================================================
