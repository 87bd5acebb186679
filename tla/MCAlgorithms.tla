------------------------------ MODULE MCAlgorithms ------------------------------
(***************************************************************************)
(* The pure parts of the program over small inputs.  A state holds one     *)
(* question, <<name, inputs>>; every family of questions has an action, so *)
(* that each property is checked for all inputs of its family.             *)
(***************************************************************************)
EXTENDS Naturals, Sequences, SequencesExt, FiniteSets, TLC

CONSTANTS None

VARIABLE given

PlaceLess(f, g) ==
  f.line < g.line \/ (f.line = g.line /\ f.start < g.start)

\* Symbolic links: /w is /real, where a run works.
RealPath(path) ==
  IF path = <<>> \/ Head(path) # "/" THEN <<"/", "real">> \o path
  ELSE IF Len(path) > 1 /\ path[2] = "w" THEN <<"/", "real">> \o SubSeq(path, 3, Len(path))
  ELSE path

RuleIds == {"ruff:E1", "shellcheck:S1"}
OrderOf == [r \in RuleIds |-> IF r = "ruff:E1" THEN 1 ELSE 2]
ToolOf == [r \in RuleIds |-> IF r = "ruff:E1" THEN "ruff" ELSE "shellcheck"]
BareIdOf == [r \in RuleIds |-> IF r = "ruff:E1" THEN "E1" ELSE "S1"]
OneCategory == [r \in RuleIds |-> "doc_style"]

DottedOrSnake ==
  {<<"C", "m">>, <<"pkg", "C", "m">>, <<"C", "x">>}
    \cup {<<name>> : name \in {"fn_1", "fn_2", "LIMIT_1", "one_1", "two_1", "size_1", "Kind_1", "VAR_1"}}

WorkingDirectory == "cwd"

A == INSTANCE Cli
I == INSTANCE Identity
M == INSTANCE Manifest WITH KeyLess <- PlaceLess, Canonical <- RealPath
F == INSTANCE Findings WITH
       Rules <- RuleIds, RuleOrder <- OrderOf, OriginOf <- ToolOf, CanonOf <- BareIdOf,
       CategoryMap <- OneCategory, Curated <- {}
C == INSTANCE Config
X == INSTANCE Export
W == INSTANCE Workspace
U == INSTANCE Surface WITH Cwd <- WorkingDirectory
R == INSTANCE Rot WITH Structured <- DottedOrSnake

Nothing == <<"nothing">>

Asking == given = Nothing

Ask(name, inputs) == given' = <<name, inputs>>

Of(name) == given[1] = name

\* The sequences over S of at most n members.
UpTo(S, n) == UNION {[1..k -> S] : k \in 0..n}

Injective(s) == \A i, j \in 1..Len(s) : s[i] = s[j] => i = j

At(s, x) == CHOOSE i \in 1..Len(s) : s[i] = x

-----------------------------------------------------------------------------
(* Search: two ranked lists of at most three of four comments, or of 64     *)
(* with one in common                                                       *)

Rankings == {s \in UpTo(1..4, 3) : Injective(s)}

\* The shared comment is the largest number, so that it loses ties.
LongRanking(first, shared) == [n \in 1..64 |-> IF n = shared THEN 300 ELSE first + n]

AskSearch ==
  /\ Asking
  /\ \/ \E keyword, semantic \in Rankings : Ask("search", <<keyword, semantic, 4>>)
     \/ \E i \in {61, 64}, j \in {2, 60, 61, 64}, limit \in {12, 14} :
          Ask("search", <<LongRanking(100, i), LongRanking(200, j), limit>>)

\* What both signals rank among their first 61 comes before what one of them finds,
\* however well it does there. Each signal is asked for five times the limit: what
\* is found is of these, once each and as many as the limit, and a limit that is
\* smaller cuts the tail while both lists are shorter than that. Further down
\* agreement does not win: two 63rd ranks are worth less than one first, though
\* rrf.rs:3-6 has it that what both rank high outranks the rest
\* (rrf.rs: reciprocal_rank_fusion, search/mod.rs: query).
AgreementWins ==
  Of("search") =>
    LET k == given[2][1]  s == given[2][2]  limit == given[2][3]
        Asked(list, n) == SubSeq(list, 1, A!Smaller(n, Len(list)))
        pool == ToSet(Asked(k, 5 * limit)) \cup ToSet(Asked(s, 5 * limit))
        both == ToSet(Asked(k, 5 * limit)) \cap ToSet(Asked(s, 5 * limit))
        high == ToSet(Asked(k, A!Smaller(61, 5 * limit))) \cap ToSet(Asked(s, A!Smaller(61, 5 * limit)))
    IN  \A found \in {A!HybridQuery(k, s, limit)} :
          /\ ToSet(found) \subseteq pool /\ Injective(found)
          /\ Len(found) = A!Smaller(limit, Cardinality(pool))
          /\ high \subseteq ToSet(found)
          /\ \A a \in high, b \in ToSet(found) \ both : At(found, a) < At(found, b)
          /\ \A n \in {2, limit - 1} :
               Len(k) <= 5 * n /\ Len(s) <= 5 * n => A!HybridQuery(k, s, n) = Asked(found, n)

-----------------------------------------------------------------------------
(* Pages: up to four items that cost 1 or 3 tokens                          *)

AskPages ==
  /\ Asking
  /\ \E costs \in UpTo({1, 3}, 4), limit \in {None, 0, 1, 2}, tokens \in {None, 0, 2, 4} :
       Ask("pages", [costs |-> costs, limit |-> limit, tokens |-> tokens])

\* The comments of a question about `check`.
CommentsOf(q) ==
  [n \in 1..2 |->
    [findings |-> [i \in 1..Len(q.severities[n]) |->
       [severity |-> q.severities[n][i], file |-> 3 - n, line |-> i, rule |-> i,
        message |-> IF i = 1 THEN q.message ELSE <<"x">>]],
     markers |-> IF n = 2 THEN {q.marker} ELSE {}]]

\* What an agent has read when it comes to the end, turning at most n + 1 pages.
ReadAll(Page(_), n) ==
  LET Read[k \in 0..(n + 1)] ==
        IF k = 0 THEN <<<<>>, 0>>
        ELSE IF Read[k - 1][2] = None THEN Read[k - 1]
        ELSE LET page == Page(Read[k - 1][2]) IN <<Read[k - 1][1] \o page.items, page.cursor>>
  IN  Read[n + 1]

\* An agent that follows the cursor sees every item once and in order, and comes to
\* an end, whatever tokens it may spend on a page, none included, and whatever
\* limit but zero it sets: with that it gets an empty page and the cursor it came
\* with, for ever, though token_economy.rs:75-76 promises an item whenever one
\* remains. Of a check it sees every finding, the worst first, as many of each
\* severity as the summary says (token_economy.rs: bound, mcp/mod.rs: check).
PagesCoverAll ==
  /\ Of("pages") =>
       LET q == given[2]
           n == Len(q.costs)
           items == [i \in 1..n |-> i]
       IN  ReadAll(LAMBDA at : A!Bound(items, q.costs, q.limit, q.tokens, at), n) =
             IF q.limit = 0 /\ n > 0 THEN <<<<>>, 0>> ELSE <<items, None>>
  /\ (Of("check") /\ given[2].suppressed = {} /\ given[2].format = "csv") =>
       LET q == given[2]
           comments == [n \in 1..2 |-> [findings |-> CommentsOf(q)[n].findings, git |-> None,
                                        markers |-> IF n = 2 THEN <<q.marker>> ELSE <<>>]]
           n == Len(q.severities[1]) + Len(q.severities[2])
           read == ReadAll(LAMBDA at : A!CheckTool(comments, IF q.strict THEN 1 ELSE 2, at), n)
           Worth(i) == comments[read[1][i][1]].findings[read[1][i][2]].severity
       IN  /\ read[2] = None /\ Len(read[1]) = n /\ Injective(read[1])
           /\ \A i, j \in 1..n : i < j => Worth(i) >= Worth(j)
           /\ A!SeverityHistogram(comments) =
                [s \in 0..3 |-> Cardinality({i \in 1..n : Worth(i) = s})]

-----------------------------------------------------------------------------
(* Fingerprints: sentences of up to three words in several layouts          *)

Layouts ==
  [style : {"//", "#", "block", "quotes"}, broken : SUBSET {1, 2},
   upper : SUBSET {1, 2}, stop : BOOLEAN]

\* A sentence as a comment: broken after some words, in some style.
Written(words, layout) ==
  LET Said(i) == <<I!Word(words[i], i \in layout.upper)>>
                   \o (IF i = Len(words) /\ layout.stop THEN <<I!Stop>> ELSE <<>>)
      Lines[i \in 1..Len(words)] ==
        IF i = 1 THEN <<Said(1)>>
        ELSE IF (i - 1) \in layout.broken THEN Append(Lines[i - 1], Said(i))
        ELSE Front(Lines[i - 1]) \o <<Last(Lines[i - 1]) \o <<I!Blank>> \o Said(i)>>
      body == Lines[Len(words)]
      Under(lead, line) == lead \o line
  IN  CASE layout.style = "//" -> [i \in 1..Len(body) |-> Under(<<<<"//">>, I!Blank>>, body[i])]
        [] layout.style = "#" -> [i \in 1..Len(body) |-> Under(<<I!Blank, <<"#">>>>, body[i])]
        [] layout.style = "block" ->
             <<<<<<"/**">>>>>> \o [i \in 1..Len(body) |-> Under(<<I!Blank, I!Star, I!Blank>>, body[i])]
               \o <<<<I!Blank, I!Closing>>>>
        [] OTHER -> [body EXCEPT ![1] = <<I!Quote>> \o @,
                                 ![Len(body)] = IF Len(body) = 1 THEN <<I!Quote>> \o @ \o <<I!Quote>>
                                                ELSE @ \o <<I!Quote>>]

AskPrint ==
  /\ Asking
  /\ \E words \in UpTo({"a", "b"}, 3) \ {<<>>}, layout \in Layouts : Ask("print", <<words, layout>>)

\* A comment that is wrapped anew, put into other delimiters or another case, or
\* given a full stop keeps its fingerprint, and so its baseline entry, its issue
\* and its id; other words have another one (fingerprint.rs: normalize).
FingerprintSurvivesReflow ==
  Of("print") =>
    I!CosmeticFingerprint(Written(given[2][1], given[2][2])) =
      LET words == given[2][1]
      IN  [i \in 1..(2 * Len(words) - 1) |->
             IF i % 2 = 0 THEN I!Blank ELSE I!Word(words[(i + 1) \div 2], FALSE)]

-----------------------------------------------------------------------------
(* Matching: a comment and up to three candidates                           *)

Sought == [content |-> "c", symbol |-> "s", print |-> "p", kind |-> "line", near |-> {"v"}]

Candidates ==
  {c \in [content : {"c", "d"}, symbol : {"s", "t"}, print : {"p", "q"}, kind : {"line"},
          vector : {"v", "w"}] : c.content = "c" => c.print = "p"}

AskMatch ==
  /\ Asking
  /\ \E cs \in UpTo(Candidates, 3), use \in {"baseline", "issue"} :
       Ask("match", <<[i \in 1..Len(cs) |-> cs[i] @@ [id |-> i]], use>>)

\* A guess never depends on chance: a comment that has only been reworded is
\* found for an issue, when nothing fits better, and when it is the only one
\* that is near; the tier is the same in every order of the candidates
\* (matcher.rs: match_comment, fuzzy_match).
RivalsAreRefused ==
  Of("match") =>
    LET cs == given[2][1]
        m == I!MatchComment(Sought, cs, given[2][2])
        turned == I!MatchComment(Sought, Reverse(cs), given[2][2])
        Near(c) == c.symbol = "s" /\ c.vector = "v"
        near == {i \in 1..Len(cs) : Near(cs[i])}
        better == {i \in 1..Len(cs) : cs[i].content = "c" \/ cs[i].print = "p"}
    IN  /\ (m = None) = (better = {} /\ (given[2][2] = "baseline" \/ Cardinality(near) # 1))
        /\ m # None => m.tier = turned.tier
        /\ m # None => IF better = {} THEN near = {m.id} /\ m = turned ELSE m.id \in better

-----------------------------------------------------------------------------
(* Places: a tool that reports a point of a file of up to three characters  *)

Chars ==
  {[utf8 |-> 1, utf16 |-> 1, newline |-> FALSE], [utf8 |-> 2, utf16 |-> 1, newline |-> FALSE],
   [utf8 |-> 4, utf16 |-> 2, newline |-> FALSE], [utf8 |-> 1, utf16 |-> 1, newline |-> TRUE]}

Total(text, Of1(_)) == FoldLeft(LAMBDA n, c : n + Of1(c), 0, text)

Roots == {<<"/", "w">>, <<"/", "real">>, <<>>}

Reported == {<<"a.py">>, <<"/", "w", "a.py">>, <<"/", "real", "a.py">>}

AskPlace ==
  /\ Asking
  /\ \E text \in UpTo(Chars, 3), system \in M!Systems, root \in Roots, file \in Reported :
       \E n \in 0..Len(text) :
         Ask("place", [text |-> text, system |-> system, root |-> root, file |-> file, before |-> n])

Ruff(system) ==
  [version |-> 1, command |-> <<"ruff", "{files}">>, format |-> "json", system |-> system,
   specs |-> <<[iterate |-> "all", rule |-> "code", severity |-> "kind", message |-> "text",
                file |-> "filename", line |-> "row", column |-> "column"]>>,
   categories |-> "D1" :> "doc_missing", default |-> None, curated |-> TRUE]

\* What such a tool says of the point behind the first characters of a text.
Said(q) ==
  LET before == SubSeq(q.text, 1, q.before)
      breaks == {i \in 1..q.before : before[i].newline}
      line == SubSeq(before, 1 + (IF breaks = {} THEN 0 ELSE CHOOSE i \in breaks : \A j \in breaks : j <= i),
                     q.before)
      base == IF q.system = "0-based-utf8" THEN 0 ELSE 1
      column == CASE q.system = "1-based-utf16" -> Total(line, LAMBDA c : c.utf16)
                  [] q.system = "1-based-char" -> Len(line)
                  [] OTHER -> Total(line, LAMBDA c : c.utf8)
  IN  "all" :> <<"code" :> <<"string", "D1">> @@ "filename" :> <<"string", q.file>>
                   @@ "row" :> <<"number", Cardinality(breaks) + base>>
                   @@ "column" :> <<"number", column + base>>>>

Place(q) ==
  M!NormalizeOutput(Ruff(q.system), Said(q), q.root, <<"a.py">> :> q.text)

\* A point reported in bytes, UTF-16 units or characters is a finding at its own
\* byte and line, whatever characters stand before it, and whether the tool named
\* the file under the root, under a link to it or under what the link leads to, at
\* the path the scan has, so that it falls into the comment it is about
\* (coordinates.rs: to_byte_offset; manifest/mod.rs: relativize).
PointsKeepTheirPlace ==
  Of("place") =>
    LET q == given[2]
        before == SubSeq(q.text, 1, q.before)
        finding == Place(q)[1]
    IN  /\ finding.start = Total(before, LAMBDA c : c.utf8)
        /\ finding.line = 1 + Cardinality({i \in 1..q.before : before[i].newline})
        /\ finding.file = <<"a.py">>

-----------------------------------------------------------------------------
(* Clusters: up to three findings within four bytes, the last of another    *)
(* category or not                                                          *)

Spans == {s \in (0..2) \X (1..3) : s[1] < s[2]}

Found(s, severity, rule, category) ==
  [file |-> "a", start |-> s[1], end |-> s[2], line |-> 1, rule |-> rule, category |-> category,
   severity |-> severity, also |-> {}]

FindingsOf(fs, last) ==
  [i \in 1..Len(fs) |-> Found(fs[i][1], fs[i][2], fs[i][3], IF i = Len(fs) THEN last ELSE "doc_style")]

AskClusters ==
  /\ Asking
  /\ \E fs \in UpTo(Spans \X {1, 3} \X RuleIds, 3), last \in {"doc_style", "secret"} :
       Ask("clusters", <<fs, last>>)

\* What overlaps becomes one finding, in whatever order it was found: the worst of
\* the cluster as it was reported, with the names of all tools that saw it
\* (dedup.rs: dedup_findings, merge_two).
OneFindingPerCluster ==
  Of("clusters") =>
    LET fs == FindingsOf(given[2][1], given[2][2])
    IN  F!OnePerCluster(F!DedupFindings(fs), fs) /\ ToSet(F!DedupFindings(Reverse(fs))) = ToSet(F!DedupFindings(fs))

-----------------------------------------------------------------------------
(* Configuration: a directory, its parent, a global file, the environment   *)

\* A file names the threshold, or overrides, or is of a later version.
Layers ==
  {C!Layer(None, <<>>, <<>>), C!Layer(2, <<>>, <<>>), C!Layer(1, "severity.fail_on" :> "critical", <<>>),
   C!Layer(None, "severity.fail_on" :> "info", "ruff" :> "info"),
   C!Layer(None, <<>>, "secret" :> "error" @@ "ruff" :> "error")}

Missing == C!Layer(0, <<>>, <<>>)

AskConfig ==
  /\ Asking
  /\ \E here, above, global \in Layers \cup {Missing}, fail \in {<<"">>, <<"warning">>, <<"loud">>},
        lists \in {<<"">>, <<"python", "">>} :
       Ask("config", [here |-> here, above |-> above, global |-> global, fail |-> fail, lists |-> lists])

Env(q) ==
  "severity.fail_on" :> q.fail @@ "scan.languages" :> q.lists @@ "HOME" :> <<"home">>

ConfigOf(q) ==
  LET Have(path, layer) == IF layer = Missing THEN <<>> ELSE path :> layer
      files == Have(<<"r", "s">>, q.here) @@ Have(<<"r">>, q.above)
      globals == IF q.global = Missing THEN <<>> ELSE "home" :> q.global
  IN  C!Discover(Env(q), files, globals, [absolute |-> TRUE, names |-> <<"r", "s">>], <<"elsewhere">>)

\* Every setting has the value of the nearest place that names it: environment,
\* the directory, those above, the global file, the defaults; the severity
\* overrides each on their own.  What cannot be read is an error, never a
\* default (discovery.rs: discover_in, model.rs: MergeOver).
NearestLayerWins ==
  Of("config") =>
    LET q == given[2]
        layers == SelectSeq(<<q.here, q.above, q.global>>, LAMBDA l : l # Missing)
        broken == q.fail = <<"loud">> \/ \E i \in 1..Len(layers) : layers[i].version = 2
        Naming(Of1(_), key) == {i \in 1..Len(layers) : key \in DOMAIN Of1(layers[i])}
        Nearest(S) == CHOOSE i \in S : \A j \in S : i <= j
        inFiles == Naming(LAMBDA l : l.set, "severity.fail_on")
        conf == ConfigOf(q)
    IN  /\ (conf = None) = broken
        /\ ~broken =>
             /\ conf.set["severity.fail_on"] =
                  IF q.fail = <<"warning">> THEN "warning"
                  ELSE IF inFiles # {} THEN layers[Nearest(inFiles)].set["severity.fail_on"]
                  ELSE "error"
             /\ conf.set["scan.languages"] =
                  IF q.lists = <<"">> THEN C!Languages ELSE <<"python">>
             /\ \A key \in {"ruff", "secret"} :
                  LET over == Naming(LAMBDA l : l.over, key)
                  IN  IF over = {} THEN key \notin DOMAIN conf.over
                      ELSE /\ key \in DOMAIN conf.over
                           /\ conf.over[key] = layers[Nearest(over)].over[key]

-----------------------------------------------------------------------------
(* Export: a file of two lines, for the tool of its language and a secret   *)
(* scanner, and a JavaScript file with a key in its only line               *)

Line(id, open, shut, marks) == [id |-> id, open |-> open, shut |-> shut, marks |-> marks]

LanguageOf == "ruff" :> "python" @@ "eslint" :> "javascript" @@ "shellcheck" :> "shell"

Ends(language) == {"code", "string", "line"} \cup (IF language = "javascript" THEN {"block"} ELSE {})

\* What the next line starts in.
StartAfter(shut) == IF shut = "line" THEN "code" ELSE shut

Suppressed(file, line, origin, rule) == [file |-> file, line |-> line, origin |-> origin, rule |-> rule]

AskExport ==
  /\ Asking
  /\ \E tool \in {"ruff", "eslint", "shellcheck"}, old \in SUBSET {1, 2},
        found \in SUBSET ({1, 2} \X {"r1", "r2", "key"}), big \in {1, 2}, end \in {"code", "line"} :
     \E middle, last \in Ends(LanguageOf[tool]) :
       LET Old(i) == IF i \in old THEN {[origin |-> tool, rules |-> {"r0"}, live |-> TRUE]} ELSE {}
           Origin(rule) == IF rule = "key" THEN "gitleaks" ELSE tool
           source == [language |-> LanguageOf[tool],
                      lines |-> <<Line(1, "code", middle, Old(1)), Line(2, StartAfter(middle), last, Old(2))>>]
           other == [language |-> "javascript", lines |-> <<Line(1, "code", end, {})>>]
       IN  Ask("export", [sources |-> [n \in {1, 2} |-> IF n = big THEN source ELSE other],
                          found |-> {Suppressed(3 - big, 1, "gitleaks", "key")}
                                      \cup {Suppressed(big, p[1], Origin(p[2]), p[2]) : p \in found}])

\* A line of an export, by the line it was.
LineNow(lines, id) == CHOOSE i \in 1..Len(lines) : lines[i].id = id

\* Where the tool of a finding looks for a directive.
LookedAt(lines, f) ==
  IF f.origin \in {"eslint", "shellcheck"} THEN LineNow(lines, f.line) - 1 ELSE LineNow(lines, f.line)

\* An export deals with the files in their order up to one that is refused: one with
\* a finding that has no directive yet and whose directive would stand in a string,
\* or after code of a language with other comments. In the files before it every
\* finding has a directive where its tool looks for it: one that was there, for
\* whatever rules, or a new one that names its rule and that the tool obeys, but
\* for a line that starts within a block comment; the code is as it was. The
\* refused file is untouched, but so are all after it, though export.rs:123-124 has
\* it that a refusal aborts that file. The same export once more changes nothing
\* and ends as the first (export.rs: export_suppressions).
ExportSettles ==
  Of("export") =>
    LET before == given[2].sources
        found == given[2].found
        Undirected(f) ==
          LET lines == before[f.file].lines
          IN  LookedAt(lines, f) = 0 \/ ~\E d \in lines[LookedAt(lines, f)].marks : d.origin = f.origin
        Spot(f) == LET l == before[f.file].lines[f.line]
                   IN  IF f.origin \in {"eslint", "shellcheck"} THEN l.open ELSE l.shut
        Foreign(f) == f.origin = "gitleaks" /\ before[f.file].language = "javascript"
        refused == {f.file : f \in {g \in found : /\ Undirected(g)
                                                  /\ \/ Spot(g) = "string"
                                                     \/ Spot(g) = "code" /\ Foreign(g)}}
        Code(lines) ==
          LET own == SelectSeq(lines, LAMBDA l : l.id # None)
          IN  [i \in 1..Len(own) |-> <<own[i].id, own[i].open, StartAfter(own[i].shut)>>]
        Heard(d, f, was) ==
          /\ d.origin = f.origin
          /\ d.rules = {"r0"} \/ f.origin = "gitleaks" \/ f.rule \in d.rules
          /\ d.live \/ was.open = "block"
    IN  \A run \in {X!ExportSuppressions(before, found)} :
          /\ run.failed = (refused # {})
          /\ \A n \in {1, 2} :
               IF \E m \in refused : m <= n THEN run.sources[n] = before[n]
               ELSE LET now == run.sources[n].lines
                    IN  /\ Code(now) = Code(before[n].lines)
                        /\ \A f \in {g \in found : g.file = n} :
                             /\ LookedAt(now, f) > 0
                             /\ \E d \in now[LookedAt(now, f)].marks : Heard(d, f, before[n].lines[f.line])
          /\ run.files = {n \in {1, 2} : run.sources[n] # before[n]}
          /\ LET moved == {[f EXCEPT !.line = LineNow(run.sources[f.file].lines, f.line)] : f \in found}
             IN  X!ExportSuppressions(run.sources, moved) = [run EXCEPT !.files = {}]

-----------------------------------------------------------------------------
(* Paths: the files of a repository, and a comment that names one           *)

File(path, segs, extension, ignored) ==
  [path |-> path, segs |-> segs, extension |-> extension, head |-> {}, within |-> {}, named |-> {},
   ignored |-> ignored, readable |-> TRUE]

RepoFiles ==
  <<File(<<".git", "info.txt">>, <<"info", "txt">>, "txt", FALSE),
    File(<<".github", "ci.json">>, <<"ci", "json">>, "json", FALSE),
    File(<<"README.md">>, <<"README", "md">>, "md", FALSE),
    File(<<"dist", "x.js">>, <<"x", "js">>, "js", TRUE),
    File(<<"src", "a.py">>, <<"a", "py">>, "py", FALSE)>>

AskPath ==
  /\ Asking
  /\ \E there \in SUBSET (1..Len(RepoFiles)), n \in 1..Len(RepoFiles), respect \in BOOLEAN,
        lead \in {<<>>, <<".">>}, from \in 1..2 :
       Ask("path", [there |-> there, n |-> n, respect |-> respect, lead |-> lead, from |-> from])

\* A comment may name any file of the repository, hidden ones and other languages
\* included, by its path or the end of it; only what is not there, or is ignored, is
\* reported missing (path_ref.rs: path_findings, walk.rs: walk_universe).
ExistingPathsPass ==
  Of("path") =>
    LET q == given[2]
        file == RepoFiles[q.n]
        files == [i \in 1..Cardinality(q.there) |->
                    RepoFiles[CHOOSE n \in q.there : Cardinality({m \in q.there : m <= n}) = i]]
        options == [respect_gitignore |-> q.respect, extra_ignores |-> <<>>, languages |-> {"python"}]
        universe == R!WalkUniverse(files, options)
        repo == {[dirs |-> Front(universe[i].path), segs |-> universe[i].segs] : i \in 1..Len(universe)}
        dirs == q.lead \o SubSeq(Front(file.path), q.from, Len(file.path) - 1)
        comment == [lines |-> <<[indent |-> 0, tokens |-> <<R!Mark, R!Gap, R!Path(dirs, file.segs)>>]>>]
        exists == q.n \in q.there /\ ~(q.respect /\ file.ignored) /\ file.path[1] # ".git"
    IN  R!PathFindings(comment, repo, "note") =
          IF exists THEN <<>> ELSE <<R!Finding("rot_path", "path_missing", 3, 1)>>

-----------------------------------------------------------------------------
(* References: two mentions of symbols, and what is defined                 *)

N(kind, parent, name, role) ==
  [kind |-> kind, parent |-> parent, start |-> 0, end |-> 0, line |-> 1, endLine |-> 1,
   name |-> name, role |-> role]

\* In Python class C: def m; def fn_1; LIMIT_1 = ...; in TypeScript const one_1 =
\* ..., two_1 = ...; class D { size_1 = ... }; interface Kind_1; in a shell VAR_1=....
DefinitionTrees ==
  {<<N("module", 0, None, None), N("class_definition", 1, "C", None),
     N("function_definition", 2, "m", None), N("function_definition", 1, "fn_1", None),
     N("assignment", 1, None, None), N("identifier", 5, "LIMIT_1", "left")>>,
   <<N("program", 0, None, None), N("lexical_declaration", 1, None, None),
     N("variable_declarator", 2, "one_1", None), N("variable_declarator", 2, "two_1", None),
     N("class_declaration", 1, "D", None), N("public_field_definition", 5, "size_1", None),
     N("interface_declaration", 1, "Kind_1", None)>>,
   <<N("program", 0, None, None), N("variable_assignment", 1, "VAR_1", None)>>}

\* Functions, methods, classes, types and the first variable of a declaration.
Indexed == {"C", "m", "fn_1", "one_1", "D", "Kind_1"}

Mentions ==
  {<<"m">>, <<"C", "m">>, <<"pkg", "C", "m">>, <<"C", "x">>}
    \cup {<<name>> : name \in {"fn_1", "fn_2", "LIMIT_1", "one_1", "two_1", "size_1", "Kind_1", "VAR_1"}}

Forms == {"ticked", "ticked call", "role", "call"}

AskReference ==
  /\ Asking
  /\ \E m1, m2 \in Mentions \X Forms, intent \in {"note", "doc-contract", "log-level"} :
       Ask("reference", <<m1, m2, intent>>)

Mention(m) ==
  CASE m[2] = "ticked" -> <<R!Tick, R!Name(m[1]), R!Tick>>
    [] m[2] = "ticked call" -> <<R!Tick, R!Name(m[1]), R!Open, R!Name(<<"y">>), R!Close, R!Tick>>
    [] m[2] = "role" -> <<R!Colon, R!Name(<<"func">>), R!Colon, R!Tick, R!Name(m[1]), R!Tick>>
    [] OTHER -> <<R!Name(m[1]), R!Open, R!Close>>

\* A function, method, class, type or first variable of a declaration,
\* defined anywhere, may be named in full, by its end, or under the name of another
\* module; what is nowhere is reported wherever it is named as code, except for
\* plain words of a contract, which may be parameters. So are a constant of Python,
\* a second variable, a field and a shell variable, for they are not in the index,
\* though reference.rs:19-20 and symbol_index.rs:16-18 have it that what is defined
\* is never flagged (reference.rs: reference_findings, symbol_index.rs: resolve).
IndexedIsNeverDangling ==
  Of("reference") =>
    LET intent == given[2][3]
        index == R!B!SymbolIndex({}, DefinitionTrees)
        comment == [lines |-> <<[indent |-> 0, tokens |-> Mention(given[2][1])],
                                [indent |-> 0, tokens |-> Mention(given[2][2])]>>]
        AsCode(m) == CASE m[2] = "ticked" -> Len(m[1]) > 1 \/ intent # "doc-contract"
                       [] m[2] = "call" -> m[1] # <<"m">>
                       [] OTHER -> TRUE
        Dangling(m) == AsCode(m) /\ Last(m[1]) \notin Indexed /\ intent # "log-level"
    IN  Len(R!ReferenceFindings(comment, index, intent)) =
          Cardinality({i \in 1..2 : Dangling(given[2][i])})

-----------------------------------------------------------------------------
(* Drift: commits, 25 days apart, that touch lines 1-2, a comment, and 3-4, *)
(* its code                                                                 *)

AskDrift ==
  /\ Asking
  /\ \E history \in UpTo(SUBSET (1..4), 3) : Ask("drift", history)

Touched(history, lines) == {k \in 1..Len(history) : history[k] \cap lines # {}}

LastOf(S) == CHOOSE k \in S : \A j \in S : j <= k

HeadOf(history) ==
  LET known == SetToSeq(UNION {history[k] : k \in 1..Len(history)})
      hunks == [i \in 1..Len(known) |->
                  [start |-> known[i] - 1, len |-> 1, commit |-> LastOf(Touched(history, {known[i]}))]]
  IN  "a.py" :> R!BlameFile(hunks, [k \in 1..Len(history) |-> 25 * k])

\* A comment that any later commit touched, in any of its lines, is fresh: only
\* code that changed more than the threshold after the last touch of its comment
\* is a candidate (drift.rs: git_drift_finding, blame.rs: most_recent_in_range).
TouchedCommentIsFresh ==
  Of("drift") =>
    LET history == given[2]
        said == Touched(history, {1, 2})
        code == Touched(history, {3, 4})
        head == HeadOf(history)
        comment == [path |-> "a.py", code |-> 2, lines |-> <<>>, first |-> 1, last |-> 2,
                    codeFirst |-> 3, codeLast |-> 4, git |-> None]
        drift == R!GitDriftFinding(comment, head, [git_drift |-> TRUE, git_drift_age_threshold_days |-> 30])
    IN  /\ (drift # <<>>) = (said # {} /\ code # {} /\ \E k \in code : \A j \in said : k >= j + 2)
        /\ R!IsRotCandidate(comment, head) =
             (said # {} /\ code # {} /\ \E k \in code : \A j \in said : k > j)
        /\ R!Enrich(<<comment>>, head)[1].git = IF said = {} THEN None ELSE 25 * LastOf(said)

-----------------------------------------------------------------------------
(* Contracts: a function with some features, and what its comment claims    *)

\* p; p=1; *p; *p: int in Python, p; p = 1; ...p; {p}, and p: T of TypeScript.
ParameterForms(style) ==
  IF style = "jsdoc" THEN {"plain", "default", "rest", "pattern", "typed"}
  ELSE {"plain", "default", "rest", "typed rest"}

AskContract ==
  /\ Asking
  /\ \E features \in SUBSET {"return", "annotation", "inner return", "yield", "raise", "bare raise"},
        style \in {"google", "jsdoc", "rest"}, apart \in 0..1,
        params \in SUBSET {"p", "q"}, returns, raises \in BOOLEAN :
       \E form \in ParameterForms(style) :
         /\ form # "plain" => features \subseteq {"return", "bare raise"} /\ apart = 0
         /\ Ask("contract", [features |-> features, style |-> style, apart |-> apart, form |-> form,
                             params |-> params, returns |-> returns, raises |-> raises])

\* The nodes of the parameter: its own and one in it, or a comment behind it.
ParameterNodes(q) ==
  LET js == q.style = "jsdoc"
      In(kind, inner, role) == <<N(kind, 4, None, None), N(inner, 5, "p", role)>>
  IN  CASE q.form = "plain" -> <<N("identifier", 4, "p", None), N("comment", 4, None, None)>>
        [] q.form = "default" -> IF js THEN In("assignment_pattern", "identifier", "left")
                                 ELSE In("default_parameter", "identifier", "name")
        [] q.form = "rest" -> In(IF js THEN "rest_pattern" ELSE "list_splat_pattern", "identifier", None)
        [] q.form = "pattern" -> In("object_pattern", "shorthand_property_identifier_pattern", None)
        [] q.form = "typed" -> In("required_parameter", "identifier", "pattern")
        [] q.form = "typed rest" -> In("typed_parameter", "list_splat_pattern", None)

\* def f(p): """...""" if ...: return 1; def g(): return 2; yield 3; raise E(); raise.
\* What is not there is a plain statement. The comment is the second node in
\* JavaScript, where the last throws a text, and the tenth in Python; a node's
\* place is its number.
FunctionTree(q) ==
  LET Js == q.style = "jsdoc"
      K(py, js) == IF Js THEN js ELSE py
      If(feature, kind) == IF feature \in q.features THEN kind ELSE "pass"
      function == K("function_definition", "function_declaration")
      block == K("block", "statement_block")
      T == <<N(K("module", "program"), 0, None, None), N(K("import_statement", "comment"), 1, None, None),
             N(function, 1, "f", None), N("parameters", 3, None, "parameters")>>
           \o ParameterNodes(q) \o
           <<N("type", 3, None, IF "annotation" \in q.features THEN "return_type" ELSE None),
             N(block, 3, None, "body"), N("expression_statement", 8, None, None),
             N("string", 9, None, None), N("if_statement", 8, None, None),
             N(If("return", "return_statement"), 11, None, None), N("integer", 12, None, None),
             N(function, 8, "g", None), N(block, 14, None, "body"),
             N(If("inner return", "return_statement"), 15, None, None), N("integer", 16, None, None),
             N(If("yield", K("yield", "yield_expression")), 8, None, None),
             N(If("raise", K("raise_statement", "throw_statement")), 8, None, None),
             N(K("call", "new_expression"), 19, None, None),
             N("identifier", 20, "E", K("function", "constructor")),
             N(If("bare raise", K("raise_statement", "throw_statement")), 8, None, None)>>
           \o IF Js THEN <<N("string", 22, None, None)>> ELSE <<>>
  IN  [n \in 1..Len(T) |->
         [T[n] EXCEPT !.start = n, !.line = IF n <= 2 THEN 1 ELSE 2 + q.apart,
                      !.end = CHOOSE k \in n..Len(T) :
                                /\ \A j \in (n + 1)..k : T[j].parent >= n
                                /\ k = Len(T) \/ T[k + 1].parent < n]]

Claims(q) ==
  LET L(indent, tokens) == [indent |-> indent, tokens |-> tokens]
      Nm(x) == R!Name(<<x>>)
      Head1(title) == L(0, <<Nm(title), R!Colon>>)
      ps == SetToSeq(q.params)
      Fields(lead, Line1(_)) == [i \in 1..Len(ps) |-> Line1(ps[i])]
      If(on, lines) == IF on THEN lines ELSE <<>>
  IN  CASE q.style = "google" ->
             If(q.params # {}, <<Head1("Args")>> \o Fields(0, LAMBDA p : L(4, <<Nm(p), R!Colon, Nm("word")>>)))
               \o If(q.returns, <<Head1("Returns"), L(4, <<Nm("word")>>)>>)
               \o If(q.raises, <<Head1("Raises"), L(4, <<Nm("E"), R!Colon, Nm("word")>>)>>)
        [] q.style = "jsdoc" ->
             Fields(0, LAMBDA p : L(1, <<R!Tag("@param"), R!Type("T"), Nm(p)>>))
               \o If(q.returns, <<L(1, <<R!Tag("@returns"), Nm("word")>>)>>)
               \o If(q.raises, <<L(1, <<R!Tag("@throws"), R!Type("E")>>)>>)
        [] OTHER ->
             Fields(0, LAMBDA p : L(0, <<R!Tag(":param"), Nm(p), R!Colon, Nm("word")>>))
               \o If(q.returns, <<L(0, <<R!Tag(":returns:"), Nm("word")>>)>>)
               \o If(q.raises, <<L(0, <<R!Tag(":raises"), Nm("E"), R!Colon>>)>>)

\* A docstring, and a comment on the line above a definition, is about that
\* function; one further up is about none. If it claims what the function does it is
\* never flagged, in any of the three styles and by no detector: values it returns
\* or yields anywhere but in inner functions, parameters that have a plain name,
\* and exceptions if it raises any by a type's name; each claim it does not keep is
\* one finding. A function that only raises again what it caught, or throws a text,
\* counts as raising nothing, though sig_extract.rs:11-12 has it that a documented
\* raise is called absent only if there is truly none; and a parameter without a
\* plain name, which sig_extract.rs:134-135 calls handled conservatively, counts as
\* absent when it is documented: a pattern, a default or a rest in JavaScript, a
\* splat with a type in Python (map/mod.rs: map_one, detect.rs:
\* signature_findings, sig_extract.rs, rot/mod.rs: rot_pass).
FaithfulDocPasses ==
  Of("contract") =>
    LET q == given[2]
        python == q.style # "jsdoc"
        at == IF python THEN 10 ELSE 2
        Mapped(tree) ==
          R!B!MapOne(tree, [kind |-> "docstring", start |-> at, end |-> at, line |-> tree[at].line,
                            endLine |-> tree[at].line, ownLine |-> TRUE], python)
        Comment(tree, mapped) ==
          [path |-> "a", lines |-> Claims(q), kind |-> "docstring", markers |-> {},
           symbol |-> mapped.symbol, code |-> mapped.code, tree |-> tree,
           first |-> 1, last |-> 1, codeFirst |-> 2, codeLast |-> 2]
        all == [reference_liveness |-> TRUE, path_existence |-> TRUE, git_drift |-> TRUE,
                git_drift_age_threshold_days |-> 30, signature_contract |-> TRUE,
                semantic_contradiction |-> TRUE, semantic_confidence_threshold |-> 50]
        Found1(comment) ==
          R!RotPass(<<comment>>, {comment.tree}, {}, <<>>, <<None>>, all, python)[1]
        plain == {"plain"} \cup IF python THEN {"default", "rest"} ELSE {"typed"}
        broken == (IF "q" \in q.params THEN 1 ELSE 0)
                   + (IF "p" \in q.params /\ q.form \notin plain THEN 1 ELSE 0)
                   + (IF q.returns /\ q.features \cap {"return", "annotation", "yield"} = {} THEN 1 ELSE 0)
                   + (IF q.raises /\ "raise" \notin q.features THEN 1 ELSE 0)
        bound == python \/ q.apart = 0
    IN  \A tree \in {FunctionTree(q)} : \A mapped \in {Mapped(tree)} :
          /\ (mapped.code = 3) = bound /\ (mapped.symbol = <<"f">>) = bound
          /\ \A comment \in {Comment(tree, mapped)} : \A found \in {Found1(comment)} :
               Len(found) = IF bound THEN broken ELSE 0

-----------------------------------------------------------------------------
(* The command line: two comments with up to two findings each              *)

Messages == {<<"x">>, <<"x", A!Pipe, A!NewLine>>, <<A!Quote, A!Comma, A!Pipe>>}

AskCheck ==
  /\ Asking
  /\ \E first \in UpTo(0..2, 2), second \in UpTo({1, 2}, 1), strict, all \in BOOLEAN,
        marker \in {"TODO", "DO_NOT_MERGE"} :
       LET places == ({1} \X (1..Len(first))) \cup ({2} \X (1..Len(second)))
       IN  \E suppressed \in SUBSET places, format \in A!Formats, message \in Messages :
             Ask("check", [severities |-> <<first, second>>, suppressed |-> suppressed, strict |-> strict,
                           all |-> all, marker |-> marker, format |-> format, message |-> message])

\* How a spreadsheet reads RFC 4180: the rows of fields of a text.
ReadCsv(text) ==
  FoldLeft(LAMBDA s, c :
             LET quotes == Cardinality({i \in 1..Len(s.raw) : s.raw[i] = A!Quote})
                 open == quotes % 2 = 1
                 raw == s.raw
                 inner == IF quotes = 0 THEN raw ELSE SubSeq(raw, 2, Len(raw) - 1)
                 keep == SelectSeq([i \in 1..Len(inner) |-> i], LAMBDA i :
                           ~(inner[i] = A!Quote /\ Cardinality({j \in 1..i : inner[j] = A!Quote}) % 2 = 0))
                 field == [k \in 1..Len(keep) |-> inner[keep[k]]]
             IN  IF open \/ c \notin {A!Comma, A!NewLine} THEN [s EXCEPT !.raw = Append(@, c)]
                 ELSE IF c = A!Comma THEN [s EXCEPT !.raw = <<>>, !.row = Append(@, field)]
                 ELSE [rows |-> Append(s.rows, Append(s.row, field)), row |-> <<>>, raw |-> <<>>],
           [rows |-> <<>>, row |-> <<>>, raw |-> <<>>], text).rows

\* The cells between the pipes of a table's row; a pipe after a backslash is text.
ReadRow(row) ==
  LET Bar(i) == row[i] = A!Pipe /\ (i = 1 \/ row[i - 1] # A!Backslash)
      bars == SetToSortSeq({i \in 1..Len(row) : Bar(i)}, <)
  IN  [k \in 1..(Len(bars) - 1) |->
        SelectSeq(SubSeq(row, bars[k] + 1, bars[k + 1] - 1), LAMBDA c : c # A!Backslash)]

\* The findings a reader of a format finds in it, as rows of file, line, severity,
\* rule and message.
ReadBack(out) ==
  LET Row(f) == <<A!Field(f.file), A!Field(f.line), A!Field(f.severity), A!Field(f.rule), f.message>>
      Rows(fs) == [i \in 1..Len(fs) |-> Row(fs[i])]
      Tail4(row) == SubSeq(row, 1, 4)
  IN  CASE out[1] = "jsonl" -> Rows(A!FindingsWithContext(A!ParseJsonl(<<<<"blank">>>> \o out[2] \o <<<<"blank">>>>, None)))
        [] out[1] = "terminal" ->
             Rows(FlattenSeq([k \in 1..Len(out[2].sections) |-> out[2].sections[k][2]]))
        [] out[1] = "csv" -> Tail(ReadCsv(out[2]))
        [] out[1] = "markdown" -> [i \in 1..Len(out[2]) |-> ReadRow(out[2][i])]
        [] out[1] = "sarif" ->
             [i \in 1..Len(out[2].results) |->
               LET r == out[2].results[i]
               IN  <<A!Field(r.uri), A!Field(r.line),
                     A!Field(CHOOSE s \in 0..2 : A!SarifLevel(s) = r.level), A!Field(r.ruleId), r.message>>]

\* `check` exits with 0 exactly when nothing it shows reaches the threshold and no
\* marker forbids the merge: a suppressed finding is never what fails it, and is
\* counted on standard error even if it is shown. Whatever the format, a reader
\* finds in it each finding that is not hidden, whatever its message holds, and a
\* rule of SARIF is described once (verbs.rs: run_check, live_comments, render/).
ExitTellsWhatIsShown ==
  Of("check") =>
    LET q == given[2]
        comments == CommentsOf(q)
        result == [comments |-> comments, states |-> <<>>, unattached |-> <<>>, suppressed |-> q.suppressed]
        places == ({1} \X (1..Len(q.severities[1]))) \cup ({2} \X (1..Len(q.severities[2])))
        shown == IF q.all THEN places ELSE places \ q.suppressed
        failing == {p \in places \ q.suppressed : q.strict \/ q.severities[p[1]][p[2]] >= 2}
        OnOneLine(text) == [k \in 1..Len(text) |-> IF text[k] = A!NewLine THEN A!Blank ELSE text[k]]
        Row(p) == LET f == comments[p[1]].findings[p[2]]
                  IN  <<A!Field(f.file), A!Field(f.line), A!Field(f.severity), A!Field(f.rule),
                        IF q.format = "markdown" THEN OnOneLine(f.message) ELSE f.message>>
    IN  \A answer \in {A!RunCheck(result, q.format, 2, q.strict, q.all, TRUE)} :
        \A read \in {ReadBack(answer.out)} :
          /\ (A!ExitCode(answer) = 0) = (failing = {} /\ q.marker # "DO_NOT_MERGE")
          /\ (\E e \in answer.err : e[1] = "suppressed") = (q.suppressed # {})
          /\ Len(read) = Cardinality(shown) /\ ToSet(read) = {Row(p) : p \in shown}
          /\ q.format = "sarif" =>
               LET rules == answer.out[2].rules
               IN  Injective(rules) /\ ToSet(rules) = {p[2] : p \in shown}

-----------------------------------------------------------------------------
(* One request, said to either interface                                    *)

\* What somebody wants of the engine; None is what is left to the default.
Wishes ==
  [verb : {"strip"}, path : {None, "sub"}, apply : BOOLEAN, allow : BOOLEAN, license : BOOLEAN,
   noTidy : BOOLEAN, keep : {None, <<"docstring">>, <<"line", "directive">>, <<"headers">>}]
    \cup [verb : {"query", "candidates"}, limit : {None, 5}]
    \cup [verb : {"context"}, id : {7}, code : BOOLEAN]
    \cup [verb : {"check"}, path : {None, "sub"}]
    \cup [verb : {"apply_edit", "remove"}, id : {7}, allow : BOOLEAN]

AskWish == Asking /\ \E wish \in Wishes : Ask("wish", wish)

Given(name, value) == IF value = None THEN <<>> ELSE name :> value

SaidIf(name, wanted) == IF wanted THEN name :> TRUE ELSE <<>>

AsArguments(w) ==
  CASE w.verb = "strip" ->
         Given("path", w.path) @@ SaidIf("apply", w.apply) @@ SaidIf("allow_significant", w.allow)
           @@ SaidIf("strip_license", w.license) @@ Given("keep", w.keep)
           @@ (IF w.noTidy THEN "tidy" :> FALSE ELSE <<>>)
    [] w.verb = "query" -> "query" :> "text" @@ Given("limit", w.limit)
    [] w.verb = "candidates" -> Given("limit", w.limit)
    [] w.verb = "context" -> "comment_id" :> w.id @@ SaidIf("with_code", w.code)
    [] w.verb = "check" -> Given("path", w.path)
    [] w.verb = "apply_edit" ->
         "comment_id" :> w.id @@ "new_text" :> "text" @@ SaidIf("allow_significant", w.allow)
    [] w.verb = "remove" -> "comment_id" :> w.id @@ SaidIf("allow_significant", w.allow)

AsFlags(w) ==
  CASE w.verb = "strip" ->
         Given("path", w.path) @@ SaidIf("--apply", w.apply) @@ SaidIf("--allow-significant", w.allow)
           @@ SaidIf("--strip-license", w.license) @@ Given("--keep", w.keep) @@ SaidIf("--no-tidy", w.noTidy)
    [] w.verb = "query" -> "query" :> "text" @@ Given("--limit", w.limit)
    [] w.verb = "candidates" -> Given("--limit", w.limit)
    [] w.verb = "context" -> "comment_id" :> w.id @@ SaidIf("--with-code", w.code)
    [] w.verb = "check" -> Given("path", w.path)
    [] w.verb = "apply_edit" ->
         "comment_id" :> w.id @@ "new_text" :> "text" @@ SaidIf("--allow-significant", w.allow)
    [] w.verb = "remove" -> "comment_id" :> w.id @@ SaidIf("--allow-significant", w.allow)

\* A wish becomes the same operation of the engine through the tool and through
\* the verb of the same name, every default included, and nothing is rewritten in
\* bulk unless that is said (mcp/mod.rs: call, cli/mod.rs: Command, verbs.rs: run).
InterfacesAgree ==
  Of("wish") =>
    LET w == given[2]
        called == U!Dispatch(w.verb, AsArguments(w))
        verb == IF w.verb = "apply_edit" THEN "apply-edit" ELSE w.verb
    IN  /\ called = U!CommandCall(verb, AsFlags(w))
        /\ (w.verb = "strip" /\ called # None) => called[4] = ~w.apply

-----------------------------------------------------------------------------
(* A tool's run: what it is started with, and how it ends                   *)

AskRun ==
  /\ Asking
  /\ \E scope \in {"{files}", "{root}"}, files \in SUBSET {"a.py", "b.py"}, started \in BOOLEAN,
        output \in {"whole", "torn", "renamed", "other", "none"}, query, curated \in BOOLEAN, rule \in {"D1", "E9"},
        version \in {1, 2} :
       Ask("run", [version |-> version, scope |-> scope, files |-> files, started |-> started, output |-> output,
                   query |-> query, curated |-> curated, rule |-> rule])

\* A tool reports one point of each file it is given; with no file it takes all it
\* finds. The nodes of a later version may call the rule something else, or stand
\* where the manifest does not look; a tool that fails may print an empty list.
Process(q, args) ==
  LET named == ToSet(args) \cap {"a.py", "b.py"}
      seen == SetToSeq(IF named = {} THEN {"a.py", "b.py"} ELSE named)
      Node(f) == (IF q.output = "renamed" THEN "rule" ELSE "code") :> <<"string", q.rule>>
                   @@ "filename" :> <<"string", <<f>>>>
                   @@ "row" :> <<"number", 1>> @@ "column" :> <<"number", 1>>
      nodes == [i \in 1..Len(seen) |-> Node(seen[i])]
  IN  [started |-> q.started,
       output |-> CASE q.output = "torn" -> None
                    [] q.output = "other" -> "results" :> nodes
                    [] q.output = "none" -> "all" :> <<>>
                    [] OTHER -> "all" :> nodes]

ManifestOf(q) ==
  [Ruff("1-based-utf8") EXCEPT
     !.version = q.version, !.command = <<"tool", q.scope>>, !.curated = q.curated,
     !.specs[1].rule = IF q.query THEN @ ELSE "$["]

Commands == {<<"tool">> \o args : args \in UpTo({"a.py", "b.py", "/real"}, 2)}

RunOf(q) ==
  M!RunManifest(ManifestOf(q), SetToSeq(q.files), <<"/", "real">>, <<"/", "real">> :> "/real",
                <<"a.py">> :> <<>> @@ <<"b.py">> :> <<>>,
                [args \in Commands |-> Process(q, args)])

\* A tool that cannot do its work is told apart from one that finds nothing, by
\* every verb that asks it, as far as it shows: one that is not started, whose
\* output is torn, or whose manifest holds a broken query that is asked, is named
\* on standard error, and a manifest of a later build ends the verb. Nothing is
\* said of a tool whose output parses and has no node the manifest asks for or,
\* with a curated manifest, no rule it knows, whatever its exit code: a failure
\* that prints an empty list, and a later version with another shape, pass for a
\* clean run (manifest/mod.rs: from_toml, run, verbs.rs: report_diagnostics).
FailureIsTold ==
  Of("run") =>
    LET q == given[2]
        providers == M!LoadAll([id \in ToSet(M!BuiltinIds) |-> ManifestOf(q)])
        Result(ran) ==
          IF providers = None THEN None
          ELSE [comments |-> <<>>, states |-> "tool" :> ran.state, unattached |-> <<>>, suppressed |-> {}]
        Accepted(result) ==
          IF result = None THEN None ELSE A!RunBaseline("accept", result, {}, {}).answer
        Told(said) ==
          \A answer \in {said} : A!ExitCode(answer) = 2 \/ \E line \in answer.err : line[2] = "tool"
        nodes == q.output \in {"whole", "renamed"}
        known == ~q.curated \/ (q.output = "whole" /\ q.rule = "D1")
        fails == \/ ~q.started \/ (q.scope = "{files}" /\ q.files = {})
                 \/ q.output = "torn" \/ (nodes /\ ~q.query)
    IN  \A ran \in {RunOf(q)} : \A result \in {Result(ran)} :
          /\ Told(A!RunCheck(result, "csv", 2, FALSE, FALSE, TRUE)) = (fails \/ q.version = 2)
          /\ Told(A!RunSuppressions(result, [files |-> {}])) = (fails \/ q.version = 2)
          /\ Told(Accepted(result)) = (fails \/ q.version = 2)
          /\ (ran.findings # <<>>) = (nodes /\ known /\ ~fails)

\* A tool that is given files reports on those files: it is never started without
\* one, when it would take the whole directory (manifest/mod.rs: run).
FindingsAreOfGivenFiles ==
  Of("run") =>
    LET q == given[2]
        ran == RunOf(q)
    IN  q.scope = "{files}" => \A i \in 1..Len(ran.findings) : ran.findings[i].file[1] \in q.files

-----------------------------------------------------------------------------
(* Cache keys of CI: what one run saves, another may restore                *)

Fingerprints ==
  {ps \in UpTo([id : {1, 2}, version : {1, 2}, config : {1, 2}], 2) :
     Len(ps) = 2 => ps[1].id # ps[2].id}

AskRestore ==
  /\ Asking
  /\ \E saved, now \in Fingerprints, s, n \in [inputs : {1, 2}, ruleset : {1, 2}, index : {1}] :
       Ask("restore", <<saved, s, now, n>>)

\* An index that CI restores was built with the same tools in the same versions and
\* configurations, rule set and schemas, in whatever order they are listed; results
\* that are re-derived from were made by the same tools
\* (cache_artifacts.rs: plan_restore, index_cache_key).
RestoredIsComparable ==
  Of("restore") =>
    LET saved == given[2][1]  s == given[2][2]  now == given[2][3]  n == given[2][4]
        plan == W!PlanRestore(W!InputsCacheKey(saved, s) = W!InputsCacheKey(now, n),
                              W!IndexCacheKey(saved, s) = W!IndexCacheKey(now, n))
        same == ToSet(saved) = ToSet(now) /\ s.inputs = n.inputs
        comparable == \A i \in 1..Len(saved), j \in 1..Len(now) :
          saved[i].id = now[j].id => W!ComparabilityKey(saved[i], s) = W!ComparabilityKey(now[j], n)
    IN  /\ (plan # "cold-scan") = same
        /\ (plan = "use-index") = (same /\ comparable /\ s.ruleset = n.ruleset /\ s.index = n.index)

-----------------------------------------------------------------------------
Init == given = Nothing

Answer == given # Nothing /\ given' = Nothing

Next ==
  \/ AskSearch \/ AskPages \/ AskPrint \/ AskMatch \/ AskPlace \/ AskClusters \/ AskConfig
  \/ AskExport \/ AskPath \/ AskReference \/ AskDrift \/ AskContract \/ AskCheck \/ AskWish
  \/ AskRun \/ AskRestore \/ Answer

Spec == Init /\ [][Next]_given
=============================================================================
