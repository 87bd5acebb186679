------------------------------ MODULE MCCheckRun ------------------------------
(* Small instances of CheckRun for TLC: two Python files and one without      *)
(* comments; a prose linter that is given files and counts in comments only,  *)
(* and a secret scanner that is given the root.                               *)
EXTENDS CheckRun

CONSTANTS r1, r2

RunnerSymmetry == Permutations({r1, r2})

RuleList == <<"leaks:key", "native:TODO", "native:drift", "spell:D1", "spell:D4", "spell:E9">>

MCRules == {RuleList[i] : i \in 1..Len(RuleList)}
MCRuleOrder == [r \in MCRules |-> CHOOSE i \in 1..Len(RuleList) : RuleList[i] = r]

MCOriginOf ==
  [r \in MCRules |-> CASE r = "leaks:key" -> "leaks"
                       [] r \in {"native:TODO", "native:drift"} -> "native"
                       [] OTHER -> "spell"]

MCCanonOf ==
  "leaks:key" :> "key" @@ "native:TODO" :> "TODO" @@ "native:drift" :> "drift"
    @@ "spell:D1" :> "D1" @@ "spell:D4" :> "D4" @@ "spell:E9" :> "E9"

MCCategoryMap ==
  "leaks:key" :> "secret" @@ "native:TODO" :> "marker_stale" @@ "native:drift" :> "doc_drift"
    @@ "spell:D1" :> "doc_missing" @@ "spell:D4" :> "doc_drift"
    @@ "spell:E9" :> Unmapped

MCFileList == <<"a.py", "b.py", "env">>
MCLanguageOf == "a.py" :> "python" @@ "b.py" :> "python" @@ "env" :> None

Plain(symbol, print, start, end, line) ==
  [symbol |-> symbol, print |-> print, start |-> start, end |-> end, line |-> line,
   directive |-> None, markers |-> <<>>, rot |-> <<>>]

\* a1 and a2: a docstring that has drifted, before and after an edit; b1: a note
\* and a directive for the line after it; b2: a comment that mutes its file.
MCCommentsIn ==
  "a1" :> <<[Plain("f", "p1", 4, 20, 2) EXCEPT !.rot = <<"native:drift">>]>>
    @@ "a2" :> <<[Plain("f", "p2", 4, 24, 2) EXCEPT !.markers = <<[name |-> "TODO", at |-> 4, len |-> 4, rule |-> "native:TODO"]>>]>>
    @@ "b1" :> <<[Plain(None, "p3", 0, 8, 1) EXCEPT !.directive =
                    [kind |-> "disable-next-line", targets |-> {"spell"}]],
                 Plain("g", "p4", 20, 40, 2)>>
    @@ "b2" :> <<[Plain(None, "p5", 0, 8, 1) EXCEPT !.directive =
                    [kind |-> "disable-file", targets |-> {}]]>>
    @@ "e1" :> <<>> @@ "e2" :> <<>>

At(at, line, rule) == [at |-> at, line |-> line, rule |-> rule]

SpellSays ==
  "a1" :> <<At(10, 2, "spell:D4"), At(30, 5, "spell:E9")>> @@ "a2" :> <<At(50, 6, "spell:D1")>>
    @@ "b1" :> <<At(22, 2, "spell:D4")>> @@ "b2" :> <<>> @@ "e1" :> <<>> @@ "e2" :> <<>>

LeaksSay ==
  "a1" :> <<>> @@ "a2" :> <<At(60, 8, "leaks:key")>> @@ "b1" :> <<At(30, 2, "leaks:key")>>
    @@ "b2" :> <<>> @@ "e1" :> <<At(3, 1, "leaks:key")>> @@ "e2" :> <<>>

NoMore == [c \in {"a1", "a2", "b1", "b2", "e1", "e2"} |-> <<>>]

MCSays ==
  "spell" :> (1 :> SpellSays @@ 2 :> [SpellSays EXCEPT !["a1"] = <<>>])
    @@ "leaks" :> (1 :> LeaksSay @@ 2 :> NoMore)

MCProviders == <<"spell", "leaks">>
MCLanguages == "spell" :> {"python"} @@ "leaks" :> {}

Config == [over |-> <<>>, markers |-> <<>>, ignore |-> {}, failOn |-> Error]

MCConfigs == {Config, [Config EXCEPT !.over = "spell:D4" :> Critical, !.ignore = {"env"}]}
OneConfig == {Config}

MCContents == "a.py" :> {"a1", "a2"} @@ "b.py" :> {"b1"} @@ "env" :> {"e1", "e2"}
MutedContents == "a.py" :> {"a1", "a2"} @@ "b.py" :> {"b1", "b2"} @@ "env" :> {"e1"}

\* One that accepts a secret by its bare id, and the drift of a1.
HandWritten ==
  {[symbol |-> "g", print |-> "p4", rule |-> "key"],
   [symbol |-> "f", print |-> "p1", rule |-> "native:drift"]}
SomeBaseline == {HandWritten}
=============================================================================
