----------------------------- MODULE SourceText -----------------------------
(***************************************************************************)
(* A source file as the engine's grammar layer sees it, and the pure       *)
(* operators the write paths are built from: which comments an extraction  *)
(* finds, which stream of code leaves the applier compares, how a comment  *)
(* edit is spliced and accepted, and how a strip pass plans a file.        *)
(*                                                                         *)
(* A file is a sequence of atoms.  An atom is a code leaf, the text of a   *)
(* comment (a note), or a newline; a byte offset becomes a position in the *)
(* sequence.  Text widths are abstracted: what a stale byte range lands on *)
(* is a choice of whole atoms.                                             *)
(***************************************************************************)
EXTENDS Naturals, Sequences, FiniteSets

CONSTANTS
  Code,     \* code leaf tokens
  Note,     \* comment texts
  NL,       \* the newline
  ClassOf,  \* [Note -> Kind], what a note's text alone classifies as
  Python,   \* TRUE for Python, where a docstring is a string node
  Suite     \* [header tokens -> sets of atoms], the statements of a suite

Kind == {"Line", "Block", "Docstring", "Shebang", "License", "EncodingDecl",
         "Directive"}

ASSUME SourceAssumption ==
  /\ ClassOf \in [Note -> Kind]
  /\ Python \in BOOLEAN
  /\ Code \cap Note = {} /\ NL \notin Code \cup Note

Atom == Code \cup Note \cup {NL}
Text == Seq(Atom)

\* A comment record: an inclusive range of positions, never empty.
Record == {r \in [first : Nat \ {0}, last : Nat, kind : Kind] : r.first <= r.last}

BehaviorBearing(kind) == kind \in {"Directive", "Shebang", "EncodingDecl"}

ClosesItself(note) == ClassOf[note] \in {"Docstring", "Block"}

\* The position in S, a set of numbers, that has exactly k of S up to it.
KthOf(S, k) == CHOOSE i \in S : Cardinality({j \in S : j <= i}) = k

\* The subsequence of src at the positions in P.
KeepAt(src, P) ==
  LET kept == {i \in 1..Len(src) : i \in P}
  IN  [k \in 1..Cardinality(kept) |-> src[KthOf(kept, k)]]

NewlinesUpTo(src, i) == Cardinality({j \in 1..i : src[j] = NL})

\* A line comment runs to the end of its line, whatever stands there.
Swallowed(src, i) ==
  \E j \in 1..(i - 1) : /\ src[j] \in Note
                        /\ ~ClosesItself(src[j])
                        /\ \A k \in j..i : src[k] # NL

-----------------------------------------------------------------------------
(* Extraction: comment nodes, their kinds, and the coalesced blocks.       *)

\* Shebang and encoding declaration are anchored to the top of the file.
Classify(src, i) ==
  LET line == NewlinesUpTo(src, i) + 1
      class == ClassOf[src[i]]
  IN  CASE class = "Shebang" /\ line # 1 -> "Line"
        [] class = "EncodingDecl" /\ (line > 2 \/ ~Python) -> "Line"
        [] OTHER -> class

\* Mutant of LastOf: the end offset taken for the last position.
LastOfShort(src, i) ==
  IF ClosesItself(src[i])
  THEN i
  ELSE (CHOOSE j \in i..Len(src) : /\ \A k \in i..j : src[k] # NL
                                   /\ j = Len(src) \/ src[j + 1] = NL) - 1

LastOf(src, i) ==
  IF ClosesItself(src[i])
  THEN i
  ELSE CHOOSE j \in i..Len(src) : /\ \A k \in i..j : src[k] # NL
                                  /\ j = Len(src) \/ src[j + 1] = NL

Nodes(src) ==
  {[first |-> i, last |-> LastOf(src, i), kind |-> Classify(src, i)] :
     i \in {j \in 1..Len(src) : src[j] \in Note /\ ~Swallowed(src, j)}}

IsOwnLine(src, i) == i = 1 \/ src[i - 1] = NL

\* Adjacent own-line line comments become one block; the rest pass through.
Coalesce(src, nodes) ==
  LET lines == {n \in nodes : n.kind = "Line" /\ IsOwnLine(src, n.first)}
      follows(n, m) == n.first = m.last + 2
      chain(a, b) ==
        /\ a.first <= b.first
        /\ \A m \in lines : a.first <= m.first /\ m.first < b.first
                              => \E n \in lines : follows(n, m)
      runs == {r \in lines \X lines :
                 /\ chain(r[1], r[2])
                 /\ \A m \in lines : ~follows(r[1], m) /\ ~follows(m, r[2])}
  IN  (nodes \ lines) \cup
      {[first |-> r[1].first, last |-> r[2].last,
        kind |-> IF r[1] = r[2] THEN "Line" ELSE "Block"] : r \in runs}

Extract(src) == Coalesce(src, Nodes(src))

\* The behavior-bearing comments in effect in src.
Bearing(src) == {src[n.first] : n \in {m \in Nodes(src) : BehaviorBearing(m.kind)}}

-----------------------------------------------------------------------------
(* Parse-invariance: the stream of code leaves.                            *)

IsDocstringAt(src, i) ==
  src[i] \in Note /\ ClassOf[src[i]] = "Docstring" /\ ~Swallowed(src, i)

IsLeaf(src, i) ==
  \/ src[i] \in Code /\ ~Swallowed(src, i)
  \/ Python /\ IsDocstringAt(src, i)

\* A Python suite left with no statement turns its block node into a leaf.
BareSuite(src, i) ==
  /\ Python
  /\ src[i] \in DOMAIN Suite
  /\ \A j \in 1..Len(src) : src[j] \in Suite[src[i]] => Swallowed(src, j)

\* The ordered stream of code leaves outside the excluded positions.
CodeSignature(src, exclude) ==
  LET leaves == {i \in 1..Len(src) : IsLeaf(src, i) /\ i \notin exclude}
  IN  [k \in 1..Cardinality(leaves) |->
         LET i == KthOf(leaves, k)
         IN  [token |-> src[i], bare |-> BareSuite(src, i)]]

CodeOf(src) == CodeSignature(src, {})

\* What the author would call code: the leaves that are no docstring.
AuthorCode(src) ==
  CodeSignature(src, {i \in 1..Len(src) : IsDocstringAt(src, i)})

IsCodeNode(rec) == rec.kind = "Docstring" /\ Python

Span(rec) == rec.first..rec.last

Splice(src, rec, text) ==
  SubSeq(src, 1, rec.first - 1) \o text \o SubSeq(src, rec.last + 1, Len(src))

DocstringAt(src, i) == IF i \in 1..Len(src) /\ IsDocstringAt(src, i) THEN {i} ELSE {}

\* Mutants of CommentEditOk: the streams are not compared; they are, but the
\* docstring being edited counts as code.
EditInBounds(src, rec, text) == rec.last <= Len(src)

EditWithDocstringAsCode(src, rec, text) ==
  /\ rec.last <= Len(src)
  /\ CodeOf(src) = CodeOf(Splice(src, rec, text))

\* apply_comment_edit returns Ok: in bounds, and the code leaves are the same.
CommentEditOk(src, rec, text) ==
  /\ rec.last <= Len(src)
  /\ LET new == Splice(src, rec, text)
         oldExclude == IF IsCodeNode(rec) THEN Span(rec) ELSE {}
         newExclude == IF IsCodeNode(rec) THEN DocstringAt(new, rec.first) ELSE {}
     IN  CodeSignature(src, oldExclude) = CodeSignature(new, newExclude)

\* Mutant of WriteProtected: directives are editable.
HeaderProtected(rec, ack) == rec.kind \in {"Shebang", "EncodingDecl"} /\ ~ack

\* write_protection::check refuses without an acknowledgment.
WriteProtected(rec, ack) == BehaviorBearing(rec.kind) /\ ~ack

ApplyOk(src, rec, text, ack) ==
  ~WriteProtected(rec, ack) /\ CommentEditOk(src, rec, text)

-----------------------------------------------------------------------------
(* The strip pass over one file.                                           *)

Policy == [significant : BOOLEAN, license : BOOLEAN, keep : SUBSET Kind, tidy : BOOLEAN]

\* Mutant of Protection: behavior-bearing comments are stripped.
KeepListOnly(policy, kind) ==
  kind \in policy.keep \/ (kind = "License" /\ ~policy.license)

Protection(policy, kind) ==
  \/ kind \in policy.keep
  \/ kind = "License" /\ ~policy.license
  \/ BehaviorBearing(kind) /\ ~policy.significant

Targets(src, policy) == {r \in Extract(src) : ~Protection(policy, r.kind)}

Covered(recs) == UNION {Span(r) : r \in recs}

\* Where each removal collapsed, as an offset into the stripped text.
PointsOf(recs) ==
  {r.first - 1 - Cardinality({i \in Covered(recs) : i < r.first}) : r \in recs}

BatchText(src, recs) == KeepAt(src, (1..Len(src)) \ Covered(recs))

\* Mutant of BatchOk: the batch is taken unverified.
BatchUnverified(src, recs) == TRUE

BatchOk(src, recs) ==
  LET spans == Covered({r \in recs : IsCodeNode(r)})
  IN  CodeSignature(src, spans) = CodeOf(BatchText(src, recs))

\* A line a removal left blank is dropped; the rewrite stands only if the code
\* leaves are unchanged.
Tidy(src, points) ==
  LET end == Len(src)
      \* an offset past a final newline belongs to the last line
      lineOf(p) == IF p = end /\ end > 0 /\ src[end] = NL
                   THEN NewlinesUpTo(src, p) - 1
                   ELSE NewlinesUpTo(src, p)
      dropped == {q \in 1..end : /\ src[q] = NL
                                 /\ IsOwnLine(src, q)
                                 /\ \E p \in points : lineOf(p) = NewlinesUpTo(src, q - 1)}
      out == KeepAt(src, (1..end) \ dropped)
  IN  IF CodeOf(src) = CodeOf(out) THEN out ELSE src
=============================================================================
