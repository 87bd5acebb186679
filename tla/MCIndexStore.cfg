SPECIFICATION Spec
CONSTANTS
  Writers = {w1, w2}
  Clients = {s1}
  Trees = {old, new}
  Comments <- MCComments
  CommentsOf <- MCCommentsOf
  Findings <- MCFindings
  Models = {m1, m2}
  MaxChecks = 2
  None = None
  w1 = w1  w2 = w2  s1 = s1  old = old  new = new  m1 = m1  m2 = m2
INVARIANTS
  RowsAligned
  WholeWhenDone
  VectorsOfOneModel
  IdKeepsItsComment
PROPERTY
  OneCheckShown
CHECK_DEADLOCK FALSE
