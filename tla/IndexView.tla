----------------------------- MODULE IndexView -----------------------------
(***************************************************************************)
(* What the derived index promises whoever opens it: the comments of one   *)
(* check, from the first one on, as far as that check has come.  A new     *)
(* check starts over, nothing is migrated or merged.  A session may find   *)
(* an index that is not finished, and an interrupted check leaves one.     *)
(***************************************************************************)
EXTENDS Naturals, Sequences

CONSTANTS Trees, CommentsOf

VARIABLES
  tree,  \* the source tree the index describes
  shown  \* the comments in it, by id

Init == tree \in Trees /\ shown = <<>>

\* A check starts the index over.
StartOver == tree' \in Trees /\ shown' = <<>>

\* The check that started the index adds its next comment.
Grow ==
  /\ Len(shown) < Len(CommentsOf[tree])
  /\ shown' = Append(shown, CommentsOf[tree][Len(shown) + 1])
  /\ UNCHANGED tree

Spec == Init /\ [][StartOver \/ Grow]_<<tree, shown>>
=============================================================================
