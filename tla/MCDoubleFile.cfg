\* One sync at a time that may fail half way and is run again.
SPECIFICATION Spec
CONSTANTS
  a1 = a1
  b1 = b1
  fa = fa
  fb = fb
  t1 = t1
  t2 = t2
  r1 = r1
  r2 = r2
  Comments = {a1, b1}
  Files = {fa, fb}
  FileOf <- MCFileOf
  Tokens = {t1, t2}
  Visits <- MCVisits
  Unsafe = {b1}
  Runners = {r1}
  MaxEvents = 3
INVARIANTS
  NeverDoubleFiles
