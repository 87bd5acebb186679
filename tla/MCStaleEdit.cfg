\* One client removes by an index its own earlier removal made stale.
SPECIFICATION Spec
CONSTANTS
  k1 = k1
  k2 = k2
  n1 = n1
  n2 = n2
  n3 = n3
  n4 = n4
  d1 = d1
  doc = doc
  doc2 = doc2
  lic = lic
  f1 = f1
  c1 = c1
  c2 = c2
  NL = NL
  Code = {k1, k2}
  Note = {n1, n2, n3, n4, d1, doc, doc2, lic}
  ClassOf <- MCClassOf
  Python = FALSE
  Suite <- NoSuite
  Files = {f1}
  Clients = {c1}
  Texts <- Removal
  Policies <- ApplyPolicies
  AuthorVersions <- StaleEditVersions
  MaxOps = 2
INVARIANTS
  UnackedKeepsBearing
