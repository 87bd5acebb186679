-------------------------------- MODULE Render --------------------------------
(***************************************************************************)
(* The output formats, all over the findings of the comments they are      *)
(* given, in their order.  A finding has a file (a number: files come in   *)
(* order), a line, a severity, a rule and a message; a text is a sequence  *)
(* of characters, of which only what a format must escape is told apart.   *)
(***************************************************************************)
EXTENDS Naturals, Sequences, SequencesExt, FiniteSetsExt, TLC

Pipe == "|"
Comma == ","
Quote == "q"
NewLine == "n"
Blank == " "
Backslash == "b"

FindingsWithContext(comments) ==
  FlattenSeq([n \in 1..Len(comments) |-> comments[n].findings])

\* A value that needs no escape.
Field(value) == <<ToString(value)>>

\* The text with every occurrence of a character replaced.
Replaced(text, char, by) ==
  FlattenSeq([i \in 1..Len(text) |-> IF text[i] = char THEN by ELSE <<text[i]>>])

-----------------------------------------------------------------------------
(* The stream of records                                                    *)

SCHEMA_VERSION_JSONL == 1

RenderJsonl(comments) ==
  <<<<"header", SCHEMA_VERSION_JSONL>>>>
    \o [n \in 1..Len(comments) |-> <<"comment", comments[n]>>]

\* The records of a stream, empty lines passed over; None when it has no header,
\* one of a later schema, or a line that is no record.
ParseJsonl(stream, None) ==
  LET lines == SelectSeq(stream, LAMBDA line : line[1] # "blank")
  IN  IF /\ lines # <<>> /\ lines[1][1] = "header" /\ lines[1][2] <= SCHEMA_VERSION_JSONL
         /\ \A i \in 2..Len(lines) : lines[i][1] = "comment"
      THEN [i \in 1..(Len(lines) - 1) |-> lines[i + 1][2]]
      ELSE None

-----------------------------------------------------------------------------
(* Tables                                                                   *)

EscapeMarkdown(text) ==
  Replaced(Replaced(text, Pipe, <<Backslash, Pipe>>), NewLine, <<Blank>>)

\* One row of cells for each finding; only the message is escaped.
RenderMarkdown(comments) ==
  LET all == FindingsWithContext(comments)
      Cells(f) == <<Field(f.file), Field(f.line), Field(f.severity), Field(f.rule), EscapeMarkdown(f.message)>>
  IN  [i \in 1..Len(all) |->
        FoldLeft(LAMBDA row, cell : row \o cell \o <<Pipe>>, <<Pipe>>, Cells(all[i]))]

EscapeCsv(text) ==
  IF ToSet(text) \cap {Comma, Quote, NewLine} = {} THEN text
  ELSE <<Quote>> \o Replaced(text, Quote, <<Quote, Quote>>) \o <<Quote>>

CsvHeader == <<<<"file">>, <<"line">>, <<"severity">>, <<"rule">>, <<"message">>>>

CsvLine(fields) ==
  FoldLeft(LAMBDA line, i : line \o EscapeCsv(fields[i]) \o (IF i = Len(fields) THEN <<NewLine>> ELSE <<Comma>>),
           <<>>, [i \in 1..Len(fields) |-> i])

RenderCsv(comments) ==
  LET all == FindingsWithContext(comments)
      Fields(f) == <<Field(f.file), Field(f.line), Field(f.severity), Field(f.rule), f.message>>
  IN  FoldLeft(LAMBDA out, f : out \o CsvLine(Fields(f)), CsvLine(CsvHeader), all)

-----------------------------------------------------------------------------
(* SARIF and the terminal                                                   *)

SarifLevel(severity) == IF severity >= 2 THEN "error" ELSE IF severity = 1 THEN "warning" ELSE "note"

SarifResult(f) ==
  [ruleId |-> f.rule, level |-> SarifLevel(f.severity), message |-> f.message, uri |-> f.file, line |-> f.line]

\* One descriptor of each rule, as its first finding has it.
RuleDescriptors(all) ==
  LET first == SelectSeq([i \in 1..Len(all) |-> i],
                         LAMBDA i : \A j \in 1..(i - 1) : all[j].rule # all[i].rule)
  IN  [k \in 1..Len(first) |-> all[first[k]].rule]

RenderSarif(comments) ==
  LET all == FindingsWithContext(comments)
  IN  [rules |-> RuleDescriptors(all), results |-> [i \in 1..Len(all) |-> SarifResult(all[i])]]

\* The findings under their files, then how many there are of each.
RenderTerminal(comments) ==
  LET all == FindingsWithContext(comments)
      files == SetToSortSeq({all[i].file : i \in 1..Len(all)}, <)
      Section(file) == <<file, SelectSeq(all, LAMBDA f : f.file = file)>>
  IN  [sections |-> [k \in 1..Len(files) |-> Section(files[k])], total |-> Len(all), files |-> Len(files)]

Rendered(comments, format) ==
  CASE format = "jsonl" -> <<format, RenderJsonl(comments)>>
    [] format = "terminal" -> <<format, RenderTerminal(comments)>>
    [] format = "sarif" -> <<format, RenderSarif(comments)>>
    [] format = "markdown" -> <<format, RenderMarkdown(comments)>>
    [] format = "csv" -> <<format, RenderCsv(comments)>>
=============================================================================
