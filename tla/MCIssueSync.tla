---------------------------- MODULE MCIssueSync ----------------------------
(* Small instances of IssueSync for TLC: a1 stands in fa, b1 in fb.          *)
EXTENDS IssueSync, TLC

CONSTANTS a1, b1, fa, fb, t1, t2, r1, r2

MCFileOf == (a1 :> fa) @@ (b1 :> fb)

\* The comment a1 may carry two markers, one of them shared with b1.
MCVisits == <<<<a1, t1>>, <<a1, t2>>, <<b1, t1>>>>
=============================================================================
