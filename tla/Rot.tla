---------------------------------- MODULE Rot ----------------------------------
(***************************************************************************)
(* The detectors of silent rot: what a comment says against what is there. *)
(*                                                                         *)
(* A comment is [path, lines, kind, markers, symbol, first, last, tree,    *)
(* code, codeFirst, codeLast]; code is the bound node or None.  A line is  *)
(* [indent, tokens].  A token is a tick, a gap (blanks), a mark (other     *)
(* punctuation, delimiters), a bracket, a colon, a tag (@param), a type in *)
(* braces, or a name: directories and, as the last part, a dotted          *)
(* identifier.                                                             *)
(***************************************************************************)
EXTENDS Tree

B == INSTANCE Binding

Tick == <<"tick">>
Gap == <<"gap">>
Mark == <<"mark">>
Open == <<"(">>
Close == <<")">>
Colon == <<":">>
Tag(t) == <<"tag", t>>
Type(x) == <<"type", x>>
Path(dirs, segs) == <<"name", dirs, segs>>
Name(segs) == Path(<<>>, segs)

IsName(token) == token[1] = "name"

\* A dotted identifier that is no path.
IsDottedIdent(token) == token[1] = "name" /\ token[2] = <<>>

Text(c) == FlattenSeq([i \in 1..Len(c.lines) |-> Append(c.lines[i].tokens, Gap)])

Finding(rule, category, at, len) == [rule |-> rule, category |-> category, at |-> at, len |-> len]

Whole(c, rule, category) == Finding(rule, category, 1, Len(Text(c)))

-----------------------------------------------------------------------------
(* Markers and intent                                                       *)

BuiltinMarkers ==
  {"TODO", "FIXME", "HACK", "XXX", "BUG", "NOTE", "DEPRECATED", "WARNING", "REVIEW"}

\* A marker begins a line, behind the delimiters.
LeadsWith(line, marker) ==
  LET words == {i \in 1..Len(line.tokens) : line.tokens[i] \notin {Gap, Mark}}
      first == line.tokens[CHOOSE i \in words : \A j \in words : i <= j]
  IN  words # {} /\ IsDottedIdent(first) /\ Head(first[3]) = marker

MarkersOf(lines, custom) ==
  {m \in BuiltinMarkers \cup custom : \E i \in 1..Len(lines) : LeadsWith(lines[i], m)}

ContractWords ==
  {"Args", "Arguments", "Parameters", "Returns", "Return", "Yields", "Raises"}
ContractTags == {"@param", "@returns", "@return", "@throws", ":param", ":returns:", ":raises:"}

HasContractSection(text) ==
  \E i \in 1..Len(text) :
    \/ text[i][1] = "tag" /\ text[i][2] \in ContractTags
    \/ /\ IsName(text[i]) /\ Last(text[i][3]) \in ContractWords
       /\ i < Len(text) /\ text[i + 1] = Colon

LogLevels ==
  {"error", "warn", "warning", "info", "debug", "trace", "critical", "fatal", "notice", "WARNING"}
LogContext == {"log", "logs", "logged", "logging", "logger", "emit", "emits", "level"}

Words(text) == UNION {ToSet(text[i][2]) \cup ToSet(text[i][3]) : i \in {j \in 1..Len(text) : IsName(text[j])}}

IsLogLevelReference(text) == Words(text) \cap LogLevels # {} /\ Words(text) \cap LogContext # {}

ClassifyIntent(c) ==
  IF c.symbol # None /\ (c.kind = "docstring" \/ HasContractSection(Text(c))) THEN "doc-contract"
  ELSE IF c.markers # {} \/ MarkersOf(c.lines, {}) # {} THEN "directive"
  ELSE IF IsLogLevelReference(Text(c)) THEN "log-level"
  ELSE "note"

-----------------------------------------------------------------------------
(* References                                                               *)

NonSymbolWords ==
  {"true", "True", "None", "self", "return", "error", "info", "note", "NOTE", "TODO", "todo"}

CONSTANT Structured  \* names with a dot, an underscore or mixed case, of four letters or more

\* The length of the run of ticks from i on.
TickRun(text, i) ==
  Cardinality({j \in i..Len(text) : \A k \in i..j : text[k] = Tick})

\* The spans between ticks, <<open, first, last>>: a run of ticks is closed by the
\* next run that is as long, and what is not closed ends the search.
BacktickSpans(text) ==
  LET From[i \in 1..(Len(text) + 1)] ==
        IF i > Len(text) THEN <<>>
        ELSE IF text[i] # Tick THEN From[i + 1]
        ELSE LET n == TickRun(text, i)
                 ends == {j \in (i + n)..Len(text) :
                            text[j] = Tick /\ text[j - 1] # Tick /\ TickRun(text, j) >= n}
                 end == CHOOSE j \in ends : \A k \in ends : j <= k
             IN  IF ends = {} THEN <<>>
                 ELSE <<<<i, i + n, end - 1>>>> \o From[end + TickRun(text, end)]
  IN  From[1]

HasRoleBefore(text, open) ==
  /\ open > 3 /\ text[open - 1] = Colon /\ text[open - 3] = Colon
  /\ IsDottedIdent(text[open - 2]) /\ Len(text[open - 2][3]) = 1

TrimGaps(s) == SelectSeq(s, LAMBDA token : token # Gap)

\* The name that what stands between ticks refers to, or None.
Classify(content, roleMarked, intent) ==
  LET opens == {i \in 1..Len(content) : content[i] = Open}
      callee == SubSeq(content, 1, (CHOOSE i \in opens : \A j \in opens : i <= j) - 1)
      Single(s) == Len(s) = 1 /\ IsDottedIdent(s[1])
  IN  IF opens # {} THEN IF Single(TrimGaps(callee)) THEN TrimGaps(callee)[1][3] ELSE None
      ELSE IF /\ Single(content)
              /\ Len(content[1][3]) > 1 \/ roleMarked \/ intent # "doc-contract"
           THEN content[1][3] ELSE None

\* A name before a bracket, with a dot or with nothing in the brackets.
PlaintextCalls(text) ==
  {[name |-> text[i][3], at |-> i, len |-> 1] :
     i \in {j \in 1..(Len(text) - 1) :
              /\ IsName(text[j]) /\ text[j + 1] = Open
              /\ text[j][3] \in Structured
              /\ Len(text[j][3]) > 1 \/ (j + 1 < Len(text) /\ text[j + 2] = Close)}}

\* In the order of their places.
ExtractReferences(text, intent) ==
  LET spans == BacktickSpans(text)
      Content(s) == SubSeq(text, s[2], s[3])
      Named(s) == Classify(TrimGaps(Content(s)), HasRoleBefore(text, s[1]), intent)
      ticked == {[name |-> Named(spans[i]), at |-> spans[i][2], len |-> Len(Content(spans[i]))] :
                   i \in {j \in 1..Len(spans) : Named(spans[j]) # None}}
      calls == {r \in PlaintextCalls(text) : ~\E t \in ticked : t.at = r.at /\ t.name = r.name}
  IN  SetToSortSeq(ticked \cup calls, LAMBDA r, s : r.at < s.at)

\* Names of one letter are left out of the model.
IsCheckable(name) == Last(name) \notin NonSymbolWords

ReferenceFindings(c, index, intent) ==
  LET Stale(r) == IsCheckable(r.name) /\ ~B!Resolve(index, r.name)
      Flagged(refs) ==
        [i \in 1..Len(refs) |-> Finding("rot_ref", "reference_stale", refs[i].at, refs[i].len)]
  IN  IF intent = "log-level" THEN <<>>
      ELSE Flagged(SelectSeq(ExtractReferences(Text(c), intent), Stale))

-----------------------------------------------------------------------------
(* Paths                                                                    *)

PathExtensions == {"py", "ts", "js", "sh", "html", "json", "md", "txt", "rs"}

IsUnsafe(dirs) == dirs # <<>> /\ (Head(dirs) = "" \/ ".." \in ToSet(dirs))

\* A bare name by its file's name, a path by its end; files are [dirs, segs].
Knows(repo, dirs, segs) == \E f \in repo : f.segs = segs /\ IsSuffix(dirs, f.dirs)

PathFindings(c, repo, intent) ==
  LET text == Text(c)
      Dirs(i) == IF text[i][2] # <<>> /\ Head(text[i][2]) = "." THEN Tail(text[i][2]) ELSE text[i][2]
      Missing(i) ==
        /\ IsName(text[i]) /\ Len(text[i][3]) > 1 /\ Last(text[i][3]) \in PathExtensions
        /\ ~IsUnsafe(Dirs(i)) /\ ~Knows(repo, Dirs(i), text[i][3])
      at == SetToSortSeq({i \in 1..Len(text) : Missing(i)}, <)
  IN  IF intent = "log-level" THEN <<>>
      ELSE [i \in 1..Len(at) |-> Finding("rot_path", "path_missing", at[i], 1)]

-----------------------------------------------------------------------------
(* Drift                                                                    *)

\* The last commits of a comment and of its code, or None.
BlameSkew(c, head) ==
  LET blame == head[c.path]
      said == MostRecentInRange(blame, c.first, c.last)
      code == MostRecentInRange(blame, c.codeFirst, c.codeLast)
  IN  IF c.code = None \/ c.path \notin DOMAIN head THEN None
      ELSE IF said = None \/ code = None THEN None ELSE <<said, code>>

IsRotCandidate(c, head) ==
  LET skew == BlameSkew(c, head) IN skew # None /\ skew[1] < skew[2]

\* Times in days.
GitDriftFinding(c, head, config) ==
  LET skew == BlameSkew(c, head)
  IN  IF config.git_drift /\ skew # None
           /\ skew[2] > skew[1] + config.git_drift_age_threshold_days
      THEN <<Whole(c, "rot_drift", "rot_candidate")>> ELSE <<>>

-----------------------------------------------------------------------------
(* The contract of a doc comment                                            *)

FirstIdent(s) == IF s # <<>> /\ IsDottedIdent(s[1]) THEN Head(s[1][3]) ELSE None

\* The parameter of a line under `Args:`, or None.
GoogleFieldName(line) ==
  LET closes == {i \in 1..Len(line) : line[i] = Close}
      plain == SubSeq(line, 2, Len(line))
      rest == IF plain # <<>> /\ Head(plain) = Open /\ closes # {}
              THEN SubSeq(line, (CHOOSE i \in closes : \A j \in closes : i <= j) + 1, Len(line))
              ELSE plain
  IN  IF FirstIdent(line) # None /\ Len(line[1][3]) = 1 /\ rest # <<>> /\ Head(rest) = Colon
      THEN FirstIdent(line) ELSE None

\* `:param type name:`, `:raises Type:`.
RestField(line) ==
  LET colons == {i \in 2..Len(line) : line[i] = Colon}
      last == line[(CHOOSE i \in colons : \A j \in colons : i <= j) - 1]
  IN  IF colons # {} /\ IsDottedIdent(last) /\ Len(last[3]) = 1 THEN last[3][1] ELSE None

\* `@param {type} name`, `@throws {Type}`.
JsdocParam(line) ==
  LET rest == Tail(line)
  IN  FirstIdent(IF rest # <<>> /\ Head(rest)[1] = "type" THEN Tail(rest) ELSE rest)

JsdocThrows(line) ==
  LET rest == Tail(line)
  IN  IF rest # <<>> /\ Head(rest)[1] = "type" THEN Head(rest)[2] ELSE FirstIdent(rest)

SectionHeader(line) ==
  LET key == Last(line[1][3])
  IN  IF ~(Len(line) = 2 /\ IsDottedIdent(line[1]) /\ Len(line[1][3]) = 1 /\ line[2] = Colon) THEN None
      ELSE CASE key \in {"Args", "Arguments", "Parameters"} -> "params"
             [] key \in {"Returns", "Return", "Yields", "Yield"} -> "returns"
             [] key \in {"Raises", "Throws", "Exceptions"} -> "raises"
             [] OTHER -> None

ReturnTags == {"@returns", "@return", ":returns:", ":return:", ":rtype:"}

\* Line by line: tags at any indent, then headers, then the fields of a section,
\* which a line that is not deeper than its header ends.
ParseDocContract(lines) ==
  LET Param(acc, x) == IF x = None THEN acc ELSE [acc EXCEPT !.params = @ \cup {x}]
      Raise(acc, x) == IF x = None THEN acc ELSE [acc EXCEPT !.raises = @ \cup {x}]
      Under(acc, line) ==
        LET body == line.tokens
            header == SectionHeader(body)
        IN  CASE header # None ->
                   [acc EXCEPT !.section = header, !.indent = line.indent,
                               !.returns = @ \/ header = "returns"]
              [] header = None /\ line.indent > acc.indent /\ acc.section = "params" ->
                   Param(acc, GoogleFieldName(body))
              [] header = None /\ line.indent > acc.indent /\ acc.section = "raises" ->
                   Raise(acc, GoogleFieldName(body))
              [] OTHER -> [acc EXCEPT !.section = None]
      Tagged(acc, line) ==
        LET tag == line.tokens[1][2]
            param == IF tag = "@param" THEN JsdocParam(line.tokens)
                     ELSE IF tag = ":param" THEN RestField(line.tokens) ELSE None
            raised == IF tag \in {"@throws", "@exception"} THEN JsdocThrows(line.tokens)
                      ELSE IF tag \in {":raises", ":raise"} THEN RestField(line.tokens) ELSE None
        IN  IF param # None THEN Param(acc, param)
            ELSE IF tag \in ReturnTags THEN [acc EXCEPT !.returns = TRUE]
            ELSE IF raised # None THEN Raise(acc, raised)
            ELSE Under(acc, line)
      Step(acc, line) ==
        IF line.tokens = <<>> THEN acc
        ELSE IF line.tokens[1][1] = "tag" THEN Tagged(acc, line)
        ELSE Under(acc, line)
      none == [params |-> {}, returns |-> FALSE, raises |-> {}, section |-> None, indent |-> 0]
      Contract(acc) == [params |-> acc.params, returns |-> acc.returns, raises |-> acc.raises]
  IN  Contract(FoldLeft(Step, none, lines))

\* How many claims of a contract a signature does not keep.
SignatureFindings(c, intent, python) ==
  LET Broken(contract, real) ==
        IF real = None THEN 0
        ELSE Cardinality(contract.params \ real.params)
               + (IF contract.returns /\ ~real.returns THEN 1 ELSE 0)
               + (IF real.raises = {} THEN Cardinality(contract.raises) ELSE 0)
      Drifted(n) == [i \in 1..n |-> Whole(c, "rot_signature", "doc_drift")]
  IN  IF intent # "doc-contract" \/ c.code = None THEN <<>>
      ELSE Drifted(Broken(ParseDocContract(c.lines), B!ExtractSignature(c.tree, c.code, python)))

-----------------------------------------------------------------------------
(* The pass                                                                 *)

\* alignment, of the embeddings of a comment and its code, is 0..100, or None
\* without a model.
SemanticCandidate(c, alignment, config, clean) ==
  IF /\ config.semantic_contradiction /\ clean
     /\ c.code # None /\ alignment # None
     /\ alignment < config.semantic_confidence_threshold
  THEN <<Whole(c, "rot_semantic", "rot_candidate")>> ELSE <<>>

\* The detectors in their order; the semantic one last, behind all others.
Detect(c, index, repo, head, alignment, config, python) ==
  LET intent == ClassifyIntent(c)
      If(on, found) == IF on THEN found ELSE <<>>
      WithSemantic(structural) ==
        structural
          \o If(intent \in {"doc-contract", "note"},
                SemanticCandidate(c, alignment, config, structural = <<>>))
  IN  WithSemantic(If(config.reference_liveness, ReferenceFindings(c, index, intent))
                     \o If(config.path_existence, PathFindings(c, repo, intent))
                     \o GitDriftFinding(c, head, config)
                     \o If(config.signature_contract, SignatureFindings(c, intent, python)))

RotPass(comments, trees, repo, head, alignment, config, python) ==
  LET index == B!SymbolIndex({comments[n].symbol : n \in 1..Len(comments)} \ {None}, trees)
  IN  [n \in 1..Len(comments) |->
        Detect(comments[n], index, repo, head, alignment[n], config, python)]
=============================================================================
