------------------------------ MODULE Coordinates ------------------------------
(***************************************************************************)
(* Places of a provider, in its own lines and columns, as byte offsets.    *)
(*                                                                         *)
(* A text is a sequence of characters [utf8, utf16, newline]: the bytes    *)
(* and the UTF-16 units it takes, and whether it is a line feed.           *)
(***************************************************************************)
EXTENDS Naturals, Sequences, SequencesExt

CONSTANTS None

Systems == {"0-based-utf8", "1-based-utf8", "1-based-utf16", "1-based-char"}

\* Lines and columns have one base.
Base(system) == IF system = "0-based-utf8" THEN 0 ELSE 1

ColumnUnit(system) ==
  CASE system \in {"0-based-utf8", "1-based-utf8"} -> "utf8"
    [] system = "1-based-utf16" -> "utf16"
    [] OTHER -> "char"

\* Bug: columns are counted in characters, whatever the dialect.
WidthOfChar(c, unit) == IF unit = "utf8" THEN c.utf8 ELSE 1

Width(c, unit) == CASE unit = "utf8" -> c.utf8 [] unit = "utf16" -> c.utf16 [] OTHER -> 1

\* How much n characters of a text take.
Extent(text, n, unit) == FoldLeft(LAMBDA t, c : t + Width(c, unit), 0, SubSeq(text, 1, n))

\* How many characters come before a line, or None.
NthLineStart(text, line) ==
  LET breaks == {i \in 1..Len(text) : text[i].newline}
      LinesTo(i) == {j \in breaks : j <= i}
  IN  IF line = 0 THEN 0
      ELSE IF \E i \in breaks : Cardinality(LinesTo(i)) = line
           THEN CHOOSE i \in breaks : Cardinality(LinesTo(i)) = line
           ELSE None

\* The characters of a line, without its line feed.
LineFrom(text, start) ==
  LET n == CHOOSE n \in start..Len(text) :
             /\ \A i \in (start + 1)..n : ~text[i].newline
             /\ n = Len(text) \/ text[n + 1].newline
  IN  SubSeq(text, start + 1, n)

\* The bytes before a column, which must lie between two characters.
ByteForColumn(line, column, unit) ==
  LET hits == {n \in 0..Len(line) : Extent(line, n, unit) = column}
  IN  IF hits = {} THEN None ELSE Extent(line, CHOOSE n \in hits : TRUE, "utf8")

ToByteOffset(system, text, line, column) ==
  LET base == Base(system)
      start == IF line < base THEN None ELSE NthLineStart(text, line - base)
      within == IF start = None \/ column < base THEN None
                ELSE ByteForColumn(LineFrom(text, start), column - base, ColumnUnit(system))
  IN  IF within = None THEN None ELSE Extent(text, start, "utf8") + within
=============================================================================
