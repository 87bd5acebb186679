---------------------------- MODULE MCIndexStore ----------------------------
(* Small instances of IndexStore for TLC.  The first tree has two comments   *)
(* with one identity base, the second has lost one and gained another.       *)
EXTENDS IndexStore, TLC

CONSTANTS w1, w2, s1, old, new, m1, m2

Todo(n) == [where |-> n, text |-> "todo", base |-> "f:todo", findings |-> <<"todo">>]
Note == [where |-> 1, text |-> "note", base |-> "g:note", findings |-> <<>>]

MCComments == {Todo(1), Todo(2), Note}
MCFindings == {"todo"}
MCCommentsOf == (old :> <<Todo(1), Todo(2)>>) @@ (new :> <<Note, Todo(2)>>)
=============================================================================
