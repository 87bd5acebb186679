------------------------------- MODULE Identity -------------------------------
(***************************************************************************)
(* What makes two comments the same: the cosmetic fingerprint of a text,   *)
(* and the tiers by which a comment is found again in a later scan.        *)
(*                                                                         *)
(* A line is a sequence of tokens: delimiters, blanks, stops, quotes, and  *)
(* words in either case, a word being [word, upper].                       *)
(***************************************************************************)
EXTENDS Naturals, Sequences, SequencesExt, FiniteSets

CONSTANTS None

-----------------------------------------------------------------------------
(* The cosmetic fingerprint                                                 *)

Blank == <<"blank">>
Star == <<"star">>
Quote == <<"quote">>
Opening == {<<"/**">>, <<"/*">>, <<"///">>, <<"//">>, <<"#">>}
Closing == <<"*/">>
Stop == <<"stop">>
Word(w, upper) == <<"word", w, upper>>

DropHead(s, token) ==
  LET n == CHOOSE n \in 0..Len(s) :
             /\ \A i \in 1..n : s[i] = token
             /\ n = Len(s) \/ s[n + 1] # token
  IN  SubSeq(s, n + 1, Len(s))

DropTail(s, token) == Reverse(DropHead(Reverse(s), token))

Trim(s, token) == DropTail(DropHead(s, token), token)

\* One opening delimiter, one closing one, quotes on both sides, leading stars.
StripLineDelimiters(line) ==
  LET body == Trim(line, Blank)
      opened == IF body # <<>> /\ Head(body) \in Opening THEN Tail(body) ELSE body
      closed == IF opened # <<>> /\ Last(opened) = Closing THEN Front(opened) ELSE opened
      unquoted == Trim(closed, Quote)
  IN  Trim(DropHead(unquoted, Star), Blank)

\* Bug: the lines are told apart.
NormalizeByLine(text) ==
  [i \in 1..Len(text) |-> SelectSeq(StripLineDelimiters(text[i]), LAMBDA t : t # Blank)]

\* The lines joined, blanks collapsed, in lower case, without trailing stops.
Normalize(text) ==
  LET joined == FlattenSeq([i \in 1..Len(text) |-> StripLineDelimiters(text[i]) \o <<Blank>>])
      words == SelectSeq([i \in 1..Len(joined) |->
                            IF i > 1 /\ joined[i] = Blank /\ joined[i - 1] = Blank
                            THEN <<"again">> ELSE joined[i]], LAMBDA t : t # <<"again">>)
      lowered == [i \in 1..Len(words) |->
                    IF words[i][1] = "word" THEN Word(words[i][2], FALSE) ELSE words[i]]
      trimmed == Trim(lowered, Blank)
  IN  Trim(DropTail(trimmed, Stop), Blank)

CosmeticFingerprint(text) == Normalize(text)

-----------------------------------------------------------------------------
(* Tiered matching                                                          *)

SameContent(q, c) == c.content = q.content

SamePlace(q, c) == c.symbol = q.symbol /\ c.print = q.print

Moved(q, c) == c.print = q.print /\ c.symbol # q.symbol

\* Similarity reaches the threshold for the kinds and symbols that are compared.
Reworded(q, c) == c.symbol = q.symbol /\ c.kind = q.kind /\ c.vector \in q.near

Tier(q, c) ==
  [exact |-> SameContent(q, c), cosmetic |-> SamePlace(q, c), relocated |-> Moved(q, c),
   reworded |-> Reworded(q, c)]

\* The first candidate of a tier.
FirstOf(q, candidates, tier) ==
  LET hits == {i \in 1..Len(candidates) : Tier(q, candidates[i])[tier]}
  IN  IF hits = {} THEN None ELSE candidates[CHOOSE i \in hits : \A j \in hits : i <= j].id

\* Bug: the best of several rivals is taken, the first.
FirstRival(q, candidates) == FirstOf(q, candidates, "reworded")

\* One candidate and no rival.
FuzzyMatch(q, candidates) ==
  LET hits == {i \in 1..Len(candidates) : Reworded(q, candidates[i])}
  IN  IF Cardinality(hits) = 1 THEN candidates[CHOOSE i \in hits : TRUE].id ELSE None

\* The tiers in their order; the last one for issues only.
MatchComment(q, candidates, useCase) ==
  LET exact == FirstOf(q, candidates, "exact")
      cosmetic == FirstOf(q, candidates, "cosmetic")
      relocated == FirstOf(q, candidates, "relocated")
      reworded == IF useCase = "issue" THEN FuzzyMatch(q, candidates) ELSE None
  IN  CASE exact # None -> [id |-> exact, tier |-> "exact"]
        [] exact = None /\ cosmetic # None -> [id |-> cosmetic, tier |-> "cosmetic"]
        [] exact = None /\ cosmetic = None /\ relocated # None ->
             [id |-> relocated, tier |-> "relocated"]
        [] OTHER -> IF reworded = None THEN None ELSE [id |-> reworded, tier |-> "reworded"]
=============================================================================
