\* Two strip passes over a Python file with docstrings, one of them a suite's only
\* statement, so that the batch is refused and the one-by-one path runs.
SPECIFICATION StripSpec
CONSTANTS
  k1 = k1
  k2 = k2
  n1 = n1
  n2 = n2
  n3 = n3
  n4 = n4
  d1 = d1
  doc = doc
  doc2 = doc2
  lic = lic
  f1 = f1
  c1 = c1
  c2 = c2
  NL = NL
  Code = {k1, k2}
  Note = {n1, n2, n3, n4, d1, doc, doc2, lic}
  ClassOf <- MCClassOf
  Python = TRUE
  Suite <- MCSuite
  Files = {f1}
  Clients = {c1, c2}
  Texts <- Removal
  Policies <- StripPolicies
  AuthorVersions <- StripVersions
  MaxOps = 2
INVARIANTS
  CodeKept
  RemovalKeepsBearing
  StripKeepsProtected
  StripTakesTheRest
SYMMETRY ClientSymmetry
