---------------------------- MODULE MCSafeApply ----------------------------
(* Small instances of SafeApply for TLC: one file, a run of two mergeable   *)
(* notes, a directive, a docstring, and one or two code leaves.             *)
EXTENDS SafeApply, TLC

CONSTANTS k1, k2, n1, n2, n3, n4, d1, doc, doc2, lic, f1, c1, c2

MCClassOf ==
  (n1 :> "Line") @@ (n2 :> "Line") @@ (n3 :> "Line") @@ (n4 :> "Line") @@ (d1 :> "Directive")
    @@ (doc :> "Docstring") @@ (doc2 :> "Docstring") @@ (lic :> "License")

NoSuite == <<>>
MCSuite == k1 :> {doc}

KeepNothing == [significant |-> FALSE, license |-> FALSE, keep |-> {}, tidy |-> TRUE]
KeepLines == [KeepNothing EXCEPT !.keep = {"Line"}, !.license = TRUE]
GiveUpAll == [KeepNothing EXCEPT !.significant = TRUE, !.license = TRUE, !.tidy = FALSE]

ApplyPolicies == {KeepNothing}
StripPolicies == {KeepNothing, KeepLines, GiveUpAll}

ApplyTexts == {<<>>, <<n1>>, <<k2>>}
ClientSymmetry == Permutations(Clients)

Removal == {<<>>}

ApplyVersions == f1 :> {<<n1, NL, n2, NL, d1, NL, k1>>, <<d1, NL, k1>>}

StripVersions ==
  f1 :> {<<doc2, NL, k1, NL, doc, NL, n1, NL, d1>>, <<lic, NL, n1, NL, n2, NL, k2, n3>>}

\* One author version each, so that what makes the index stale is an earlier edit.
StaleEditVersions == f1 :> {<<n1, NL, n2, NL, d1, NL, k1>>}

StaleDocstringVersions == f1 :> {<<n1, NL, n2, NL, doc, NL, NL, k1, NL, k2>>}
=============================================================================
