---------------------------- MODULE CheckRunProofs ----------------------------
(***************************************************************************)
(* What a check shows, stores and writes, for every tree, tool,            *)
(* configuration and number of runners.                                    *)
(*                                                                         *)
(* A prune uncovers nothing: Holds.  The rest is Right, the invariant that *)
(* a check beside which neither the tree nor a tool has changed holds what *)
(* the world says: a row that fits its key is as good as a run, because a  *)
(* tool's output is made file by file (FindingsProofs), so that taking the *)
(* files in scope commutes with concatenation, with what counts of a       *)
(* comment-scoped tool and with what the key stands for.  Typing adds the  *)
(* types that Right does not need.  Ruling says of what a finding is made  *)
(* from its report to the baseline, which the dedup of a comment needs.    *)
(***************************************************************************)
EXTENDS CheckRun, FindingsProofs

\* A record of the fields of Idle.
Shape(v) ==
  v = [phase |-> v.phase, op |-> v.op, cfg |-> v.cfg, comments |-> v.comments, keys |-> v.keys,
       hashes |-> v.hashes, next |-> v.next, ran |-> v.ran, states |-> v.states,
       found |-> v.found, loaded |-> v.loaded, entries |-> v.entries,
       disturbed |-> v.disturbed, stale |-> v.stale, crossed |-> v.crossed,
       sound |-> v.sound, taken |-> v.taken, told |-> v.told]

\* What a prune is about to write is made of what it loaded.
Pruned(v) ==
  v.phase = "write" /\ v.op = "prune" => v.entries = Prune(v.loaded, v.comments)

Holds == DOMAIN run = Runners /\ run = [r \in Runners |-> run[r]]
         /\ \A r \in Runners : Shape(run[r]) /\ Pruned(run[r])

-----------------------------------------------------------------------------
(* Steps of one runner                                                      *)

LEMMA IdleHolds == Shape(Idle) /\ Pruned(Idle)
BY DEF Shape, Pruned, Idle

LEMMA BecomeHolds ==
  ASSUME Holds, NEW r \in Runners, NEW v, Shape(v), Pruned(v), Become(r, v)
  PROVE  Holds'
<1>1. run' = [run EXCEPT ![r] = v]  BY DEF Become
<1>2. \A q \in Runners : run'[q] = IF q = r THEN v ELSE run[q]  BY <1>1 DEF Holds
<1>3. DOMAIN run' = Runners /\ run' = [q \in Runners |-> run'[q]]  BY <1>1 DEF Holds
<1>4. \A q \in Runners : Shape(run'[q]) /\ Pruned(run'[q])  BY <1>2 DEF Holds
<1> QED  BY <1>3, <1>4 DEF Holds, Shape, Pruned

LEMMA FoundHolds ==
  ASSUME NEW me, NEW ran, Shape(me)
  PROVE  Shape(Found(me, ran)) /\ Pruned(Found(me, ran))
<1> DEFINE kept == CommentScopedRun(Provider(me), me.comments, ran)
           states == [me.states EXCEPT ![Provider(me)] = kept.state]
           found == me.found \o kept.findings
<1>1. Found(me, ran) =
        [me EXCEPT !.phase = "ask", !.next = @ + 1, !.ran = Skipped, !.crossed = FALSE,
                   !.states = states, !.found = found]
  BY DEF Found, Shape
<1> HIDE DEF states, found
<1> QED  BY <1>1 DEF Shape, Pruned

-----------------------------------------------------------------------------
(* The invariant                                                            *)

LEMMA HoldsInit == Init => Holds
<1> SUFFICES ASSUME Init  PROVE Holds
  OBVIOUS
<1>1. run = [r \in Runners |-> Idle]  BY DEF Init
<1>2. DOMAIN run = Runners /\ \A r \in Runners : run[r] = Idle  BY <1>1
<1> HIDE DEF Idle
<1> QED  BY <1>1, <1>2, IdleHolds DEF Holds

LEMMA HoldsNext == Holds /\ [Next]_vars => Holds'
<1> SUFFICES ASSUME Holds, [Next]_vars  PROVE Holds'
  OBVIOUS
<1>1. ASSUME NEW r \in Runners, Begin(r)  PROVE Holds'
  <2>1. PICK v : v = [Idle EXCEPT !.phase = "walked", !.cfg = config, !.comments = Scan(config)]
    OBVIOUS
  <2>2. Become(r, v)  BY <1>1, <2>1 DEF Begin
  <2>3. Shape(v) /\ Pruned(v)
    <3> HIDE DEF Idle
    <3> QED  BY <2>1, IdleHolds DEF Shape, Pruned
  <2> QED  BY <2>2, <2>3, BecomeHolds
<1>2. ASSUME NEW r \in Runners, ComputeKeys(r)  PROVE Holds'
  <2>0. Shape(run[r])  BY DEF Holds
  <2>1. CASE Become(r, [run[r] EXCEPT !.phase = "ask", !.stale = FALSE,
                          !.keys = [t \in Tools |-> VersionKey(t)],
                          !.hashes = [t \in Tools |-> InputHash(t, run[r].cfg)]])
    <3> DEFINE keys == [t \in Tools |-> VersionKey(t)]
               hashes == [t \in Tools |-> InputHash(t, run[r].cfg)]
    <3>1. PICK v : v = [run[r] EXCEPT !.phase = "ask", !.stale = FALSE, !.keys = keys,
                                      !.hashes = hashes]
      OBVIOUS
    <3>2. Become(r, v)  BY <2>1, <3>1
    <3> HIDE DEF keys, hashes
    <3>3. Shape(v) /\ Pruned(v)  BY <2>0, <3>1 DEF Shape, Pruned
    <3> QED  BY <3>2, <3>3, BecomeHolds
  <2>2. CASE Become(r, [run[r] EXCEPT !.phase = "ask", !.keys = [t \in Tools |-> None]])
    <3> DEFINE keys == [t \in Tools |-> None]
    <3>1. PICK v : v = [run[r] EXCEPT !.phase = "ask", !.keys = keys]  OBVIOUS
    <3>2. Become(r, v)  BY <2>2, <3>1
    <3> HIDE DEF keys
    <3>3. Shape(v) /\ Pruned(v)  BY <2>0, <3>1 DEF Shape, Pruned
    <3> QED  BY <3>2, <3>3, BecomeHolds
  <2> QED  BY <1>2, <2>1, <2>2 DEF ComputeKeys
<1>3. ASSUME NEW r \in Runners, Reuse(r)  PROVE Holds'
  <2>1. PICK row \in RowFor(run[r]) :
          Become(r, [Found(run[r], row.ran) EXCEPT
                       !.sound = @ /\ ~row.crossed,
                       !.taken = [@ EXCEPT ![row.tool] = row.over]])
    BY <1>3 DEF Reuse
  <2> DEFINE w == Found(run[r], row.ran)
             sound == w.sound /\ ~row.crossed
             taken == [w.taken EXCEPT ![row.tool] = row.over]
  <2>2. Shape(w) /\ Pruned(w)  BY FoundHolds DEF Holds
  <2>3. PICK v : v = [w EXCEPT !.sound = sound, !.taken = taken]  OBVIOUS
  <2>4. Become(r, v)  BY <2>1, <2>3
  <2> HIDE DEF w, sound, taken
  <2>5. Shape(v) /\ Pruned(v)  BY <2>2, <2>3 DEF Shape, Pruned
  <2> QED  BY <2>4, <2>5, BecomeHolds
<1>4. ASSUME NEW r \in Runners, RunProvider(r)  PROVE Holds'
  <2> DEFINE t == Provider(run[r])
             ran == ProviderRun(t, run[r].cfg)
  <2>0. Shape(run[r])  BY DEF Holds
  <2>1. PICK v : v = [run[r] EXCEPT !.phase = "store", !.crossed = run[r].stale, !.ran = ran]
    OBVIOUS
  <2>2. Become(r, Found(run[r], ran)) \/ Become(r, v)  BY <1>4, <2>1 DEF RunProvider
  <2> HIDE DEF ran
  <2>3. Shape(v) /\ Pruned(v)  BY <2>0, <2>1 DEF Shape, Pruned
  <2>4. Shape(Found(run[r], ran)) /\ Pruned(Found(run[r], ran))  BY <2>0, FoundHolds
  <2> QED  BY <2>2, <2>3, <2>4, BecomeHolds
<1>5. ASSUME NEW r \in Runners, StoreResult(r)  PROVE Holds'
  <2>0. Shape(run[r])  BY DEF Holds
  <2>1. Become(r, Found(run[r], run[r].ran))  BY <1>5 DEF StoreResult
  <2> QED  BY <2>0, <2>1, FoundHolds, BecomeHolds
<1>6. ASSUME NEW r \in Runners, Finish(r)  PROVE Holds'
  <2>0. Shape(run[r])  BY DEF Holds
  <2> DEFINE comments == Fuse(run[r].cfg, run[r].comments, run[r].found)
             found == Unattached(run[r].comments, InScope(run[r].cfg, run[r].found))
             loaded == IF baseline = None THEN {} ELSE baseline
             told == IF baseline = None THEN {} ELSE agreed
  <2>1. PICK v : v = [run[r] EXCEPT !.phase = "report", !.keys = None, !.hashes = None,
                                    !.comments = comments, !.found = found, !.loaded = loaded,
                                    !.told = told]
    OBVIOUS
  <2>2. Become(r, Idle) \/ Become(r, v)  BY <1>6, <2>1 DEF Finish
  <2> HIDE DEF comments, found, loaded, told
  <2>3. Shape(v) /\ Pruned(v)  BY <2>0, <2>1 DEF Shape, Pruned
  <2> QED  BY <2>2, <2>3, IdleHolds, BecomeHolds
<1>7. ASSUME NEW r \in Runners, Report(r)  PROVE Holds'
  BY <1>7, IdleHolds, BecomeHolds DEF Report
<1>8. ASSUME NEW r \in Runners, Prepare(r)  PROVE Holds'
  <2>0. Shape(run[r])  BY DEF Holds
  <2> DEFINE accepted == Accept(run[r].comments)
             left == Prune(baseline, run[r].comments)
  <2>1. PICK a : a = [run[r] EXCEPT !.phase = "write", !.op = "accept", !.entries = accepted]
    OBVIOUS
  <2>2. PICK p : p = [run[r] EXCEPT !.phase = "write", !.op = "prune", !.loaded = baseline,
                                    !.told = agreed, !.entries = left]
    OBVIOUS
  <2>3. Become(r, Idle) \/ Become(r, a) \/ Become(r, p)  BY <1>8, <2>1, <2>2 DEF Prepare
  <2> HIDE DEF accepted
  <2>4. Shape(a) /\ Pruned(a)  BY <2>0, <2>1 DEF Shape, Pruned
  <2>5. Shape(p) /\ p.entries = left /\ p.loaded = baseline /\ p.comments = run[r].comments
    <3> HIDE DEF left
    <3> QED  BY <2>0, <2>2 DEF Shape
  <2>6. Pruned(p)  BY <2>5 DEF Pruned
  <2> QED  BY <2>3, <2>4, <2>5, <2>6, IdleHolds, BecomeHolds
<1>9. ASSUME NEW r \in Runners, Truncate(r)  PROVE Holds'
  <2>0. Shape(run[r])  BY DEF Holds
  <2>1. PICK v : v = [run[r] EXCEPT !.phase = "fill", !.comments = <<>>, !.found = <<>>,
                                    !.loaded = {}]
    OBVIOUS
  <2>2. Become(r, v)  BY <1>9, <2>1 DEF Truncate
  <2>3. Shape(v) /\ Pruned(v)  BY <2>0, <2>1 DEF Shape, Pruned
  <2> QED  BY <2>2, <2>3, BecomeHolds
<1>10. ASSUME NEW r \in Runners, Fill(r) \/ Stop(r)  PROVE Holds'
  BY <1>10, IdleHolds, BecomeHolds DEF Fill, Stop
<1>11. CASE UNCHANGED run
  BY <1>11 DEF Holds, Shape, Pruned
<1>12. CASE Disturb
  <2>1. ASSUME NEW r \in Runners  PROVE Shape(run'[r]) /\ Pruned(run'[r])
    <3> DEFINE stale == run[r].phase \in {"ask", "store"}
    <3>1. Shape(run[r]) /\ Pruned(run[r])  BY DEF Holds
    <3>2. PICK v : v = [run[r] EXCEPT !.disturbed = TRUE, !.stale = stale]  OBVIOUS
    <3>3. run'[r] = run[r] \/ run'[r] = v  BY <1>12, <3>2 DEF Disturb
    <3> HIDE DEF stale
    <3>4. Shape(v) /\ Pruned(v)  BY <3>1, <3>2 DEF Shape, Pruned
    <3> QED  BY <3>1, <3>3, <3>4
  <2>2. DOMAIN run' = Runners /\ run' = [r \in Runners |-> run'[r]]  BY <1>12 DEF Disturb
  <2> QED  BY <2>1, <2>2 DEF Holds, Shape, Pruned
<1>13. CASE Change
  BY <1>11, <1>12, <1>13 DEF Change, Edit, ToolTurn, Reconfigure, WriteByHand
<1>14. CASE UNCHANGED vars
  BY <1>11, <1>14 DEF vars
<1> QED
  BY <1>1, <1>2, <1>3, <1>4, <1>5, <1>6, <1>7, <1>8, <1>9, <1>10, <1>13, <1>14
  DEF Next, Providing, Ending

-----------------------------------------------------------------------------
(* What it means for the findings                                           *)

\* An entry that still occurs is kept.
LEMMA CurrentIsKept ==
  ASSUME NEW comments, NEW n \in 1..Len(comments),
         NEW i \in 1..Len(comments[n].findings)
  PROVE  Entry(comments[n], comments[n].findings[i].rule) \in CurrentIdentities(comments)
BY DEF CurrentIdentities

\* A smaller baseline hides no more.
LEMMA FewerHideLess ==
  ASSUME NEW comments, NEW more, NEW fewer, fewer \subseteq more
  PROVE  Suppressed(comments, fewer) \subseteq Suppressed(comments, more)
BY DEF Suppressed, Baselined

LEMMA WhatPruneUncovers ==
  ASSUME NEW comments, NEW loaded,
         NEW p \in Suppressed(comments, loaded) \ Suppressed(comments, Prune(loaded, comments))
  PROVE  Entry(comments[p[1]], comments[p[1]].findings[p[2]].rule) \notin loaded
<1> DEFINE entry == Entry(comments[p[1]], comments[p[1]].findings[p[2]].rule)
<1> SUFFICES ASSUME entry \in loaded  PROVE FALSE
  OBVIOUS
<1>1. PICK n \in 1..Len(comments) : p \in {n} \X (1..Len(comments[n].findings))
  BY DEF Suppressed
<1>2. p[1] = n /\ p[2] \in 1..Len(comments[n].findings)  BY <1>1
<1>3. entry \in CurrentIdentities(comments)
  <2> HIDE DEF entry
  <2>1. entry = Entry(comments[n], comments[n].findings[p[2]].rule)  BY <1>2 DEF entry
  <2> QED  BY <1>2, <2>1, CurrentIsKept
<1>4. entry \in Prune(loaded, comments)  BY <1>3 DEF Prune
<1> QED  BY <1>4 DEF Suppressed, Baselined

LEMMA PruneShows == Holds => PruneKeepsHiding
<1> SUFFICES ASSUME Holds, NEW r \in Runners, run[r].phase = "write", run[r].op = "prune"
             PROVE  /\ Suppressed(run[r].comments, run[r].entries)
                         \subseteq Suppressed(run[r].comments, run[r].loaded)
                    /\ \A p \in Suppressed(run[r].comments, run[r].loaded)
                                   \ Suppressed(run[r].comments, run[r].entries) :
                         Entry(run[r].comments[p[1]],
                               run[r].comments[p[1]].findings[p[2]].rule) \notin run[r].loaded
  BY DEF PruneKeepsHiding
<1>1. run[r].entries = Prune(run[r].loaded, run[r].comments)  BY DEF Holds, Pruned
<1>2. run[r].entries \subseteq run[r].loaded  BY <1>1 DEF Prune
<1> QED  BY <1>1, <1>2, FewerHideLess, WhatPruneUncovers

-----------------------------------------------------------------------------
(* Findings of some files                                                   *)

LEMMA OfFilesBy ==
  ASSUME NEW s, List(s), NEW fs, NEW S, Range(s) \subseteq S
  PROVE  OfFiles(fs, s) = Keep(s, {f \in S : f.file \in fs})
<1>1. \A i \in 1..Len(s) : s[i] \in Range(s)
  BY RangeOfList
<1>2. \A i \in 1..Len(s) : s[i] \in {f \in Range(s) : f.file \in fs} <=> s[i] \in {f \in S : f.file \in fs}
  BY <1>1
<1>3. Keep(s, {f \in Range(s) : f.file \in fs}) = Keep(s, {f \in S : f.file \in fs})
  BY <1>2, KeepSame
<1> QED
  BY <1>3 DEF OfFiles

LEMMA OfFilesIsList ==
  ASSUME NEW s, List(s), NEW fs
  PROVE  List(OfFiles(fs, s)) /\ \A i \in 1..Len(OfFiles(fs, s)) : OfFiles(fs, s)[i].file \in fs
<1>1. \A i \in 1..Len(OfFiles(fs, s)) : OfFiles(fs, s)[i] \in Range(s) \cap {f \in Range(s) : f.file \in fs}
  BY KeepMakesList DEF OfFiles
<1>2. List(OfFiles(fs, s))
  BY KeepMakesList DEF OfFiles
<1> QED
  BY <1>1, <1>2

LEMMA OfFilesConcat ==
  ASSUME NEW s, NEW t, List(s), List(t), NEW fs
  PROVE  OfFiles(fs, s \o t) = OfFiles(fs, s) \o OfFiles(fs, t)
<1> DEFINE S == Range(s) \cup Range(t)
           V == {f \in S : f.file \in fs}
<1>1. s \in Seq(S) /\ t \in Seq(S)
  <2>1. s \in Seq(Range(s)) /\ t \in Seq(Range(t))
    BY RangeOfList
  <2> QED
    BY <2>1, SeqMonotonic
<1>2. OfFiles(fs, s) = Keep(s, V) /\ OfFiles(fs, t) = Keep(t, V)
  BY OfFilesBy
<1>3. List(s \o t) /\ Range(s \o t) \subseteq S
  BY ConcatMakesList
<1>4. OfFiles(fs, s \o t) = Keep(s \o t, V)
  BY <1>3, OfFilesBy
<1> HIDE DEF V, S
<1>5. Keep(s \o t, V) = Keep(s, V) \o Keep(t, V)
  BY <1>1, KeepConcat
<1> QED
  BY <1>2, <1>4, <1>5

LEMMA OfFilesFlatten ==
  ASSUME NEW ss, NEW n \in Nat, Lists(ss, n), NEW fs
  PROVE  OfFiles(fs, FlattenSeq(ss)) = FlattenSeq([i \in 1..n |-> OfFiles(fs, ss[i])])
<1>1. PICK S : ss \in Seq(Seq(S)) /\ \A i \in 1..n : Range(ss[i]) \subseteq S
  BY ListsOver
<1> DEFINE V == {f \in S : f.file \in fs}
<1>2. List(FlattenSeq(ss)) /\ Range(FlattenSeq(ss)) \subseteq S
  <2>1. FlattenSeq(ss) \in Seq(S)
    BY <1>1, FlattenIsList
  <2>2. List(FlattenSeq(ss)) /\ \A i \in 1..Len(FlattenSeq(ss)) : FlattenSeq(ss)[i] \in S
    BY <2>1, SeqIsList
  <2> QED
    BY <2>2, ListIs DEF Range
<1>3. OfFiles(fs, FlattenSeq(ss)) = Keep(FlattenSeq(ss), V)
  BY <1>2, OfFilesBy
<1>4. \A i \in 1..n : OfFiles(fs, ss[i]) = Keep(ss[i], V)
  BY <1>1, OfFilesBy DEF Lists
<1>5. [i \in 1..n |-> OfFiles(fs, ss[i])] = [i \in 1..n |-> Keep(ss[i], V)]
  BY <1>4
<1> HIDE DEF V
<1>6. Keep(FlattenSeq(ss), V) = FlattenSeq([i \in 1..Len(ss) |-> Keep(ss[i], V)])
  BY <1>1, KeepFlatten
<1>7. Len(ss) = n
  BY DEF Lists
<1> QED
  BY <1>3, <1>5, <1>6, <1>7

LEMMA OfFilesAll ==
  ASSUME NEW s, List(s), NEW fs, \A i \in 1..Len(s) : s[i].file \in fs
  PROVE  OfFiles(fs, s) = s
<1>1. s \in Seq(Range(s)) /\ \A i \in 1..Len(s) : s[i] \in {f \in Range(s) : f.file \in fs}
  BY RangeOfList
<1>2. Keep(s, {f \in Range(s) : f.file \in fs}) = s
  BY <1>1, KeepAll
<1> QED
  BY <1>2 DEF OfFiles

LEMMA OfFilesNone ==
  ASSUME NEW s, List(s), NEW fs, \A i \in 1..Len(s) : s[i].file \notin fs
  PROVE  OfFiles(fs, s) = <<>>
<1>1. s \in Seq(Range(s)) /\ \A i \in 1..Len(s) : s[i] \notin {f \in Range(s) : f.file \in fs}
  BY RangeOfList
<1>2. Keep(s, {f \in Range(s) : f.file \in fs}) = <<>>
  BY <1>1, KeepNothing
<1> QED
  BY <1>2 DEF OfFiles

LEMMA OfFilesTwice ==
  ASSUME NEW s, List(s), NEW fs
  PROVE  OfFiles(fs, OfFiles(fs, s)) = OfFiles(fs, s)
BY OfFilesIsList, OfFilesAll

-----------------------------------------------------------------------------
(* Comment-scoped tools                                                     *)

\* What of a tool's findings counts.
Counts(t, comments, found) ==
  IF t \notin CommentScoped THEN found
  ELSE Keep(found, {f \in Range(found) : \E n \in 1..Len(comments) : WithinCommentSpan(comments[n], f)})

LEMMA CountsIsList ==
  ASSUME NEW t, NEW comments, NEW s, List(s)
  PROVE  List(Counts(t, comments, s))
BY KeepMakesList DEF Counts

LEMMA OfFilesCounts ==
  ASSUME NEW t, NEW comments, NEW s, List(s), NEW fs
  PROVE  OfFiles(fs, Counts(t, comments, s)) = Counts(t, comments, OfFiles(fs, s))
<1> DEFINE Good(f) == \E n \in 1..Len(comments) : WithinCommentSpan(comments[n], f)
           S == Range(s)
           V == {f \in S : f.file \in fs}
           W == {f \in S : Good(f)}
<1> HIDE DEF Good
<1>1. CASE t \notin CommentScoped
  BY <1>1 DEF Counts
<1>2. CASE t \in CommentScoped
  <2>1. Counts(t, comments, s) = Keep(s, W)
    BY <1>2 DEF Counts, Good
  <2>2. OfFiles(fs, s) = Keep(s, V)
    BY DEF OfFiles
  <2>3. List(Keep(s, W)) /\ Range(Keep(s, W)) \subseteq S
    <3> HIDE DEF W
    <3>1. List(Keep(s, W)) /\ \A i \in 1..Len(Keep(s, W)) : Keep(s, W)[i] \in S \cap W
      BY KeepMakesList
    <3>2. DOMAIN Keep(s, W) = 1..Len(Keep(s, W))
      BY <3>1, ListIs
    <3> QED
      BY <3>1, <3>2 DEF Range
  <2>4. OfFiles(fs, Keep(s, W)) = Keep(Keep(s, W), V)
    BY <2>3, OfFilesBy
  <2>5. \A i \in 1..Len(Keep(s, V)) : Keep(s, V)[i] \in Range(Keep(s, V)) /\ Keep(s, V)[i] \in S
    BY KeepMakesList, RangeOfList
  <2>6. Keep(Keep(s, V), {f \in Range(Keep(s, V)) : Good(f)}) = Keep(Keep(s, V), W)
    <3>1. \A i \in 1..Len(Keep(s, V)) :
            Keep(s, V)[i] \in {f \in Range(Keep(s, V)) : Good(f)} <=> Keep(s, V)[i] \in W
      BY <2>5
    <3> QED
      BY <3>1, KeepSame
  <2>7. Counts(t, comments, Keep(s, V)) = Keep(Keep(s, V), W)
    BY <1>2, <2>6 DEF Counts, Good
  <2>8. s \in Seq(S)
    BY RangeOfList
  <2> HIDE DEF S, V, W
  <2>9. Keep(Keep(s, V), W) = Keep(Keep(s, W), V)
    BY <2>8, KeepTwice
  <2> QED
    BY <2>1, <2>2, <2>4, <2>7, <2>9
<1> QED
  BY <1>1, <1>2

\* A provider's run.
IsRun(ran) ==
  /\ ran = [state |-> ran.state, findings |-> ran.findings]
  /\ ran.state \in RunStates
  /\ List(ran.findings)

LEMMA CountsIs ==
  ASSUME NEW t, NEW comments, NEW ran, IsRun(ran)
  PROVE  LET kept == CommentScopedRun(t, comments, ran)
         IN  /\ kept.findings = Counts(t, comments, ran.findings)
             /\ kept.state \in RunStates
             /\ kept.state = "PARTIAL" <=> ran.state = "PARTIAL"
             /\ kept.state = "SKIPPED" <=> ran.state = "SKIPPED"
<1> DEFINE kept == Keep(ran.findings, {f \in Range(ran.findings) :
                         \E n \in 1..Len(comments) : WithinCommentSpan(comments[n], f)})
<1>1. CommentScopedRun(t, comments, ran) =
        IF t \notin CommentScoped THEN ran
        ELSE IF ran.state \in {"PARTIAL", "SKIPPED"} THEN [ran EXCEPT !.findings = kept]
        ELSE Ran(kept)
  BY DEF CommentScopedRun
<1>2. Counts(t, comments, ran.findings) = IF t \notin CommentScoped THEN ran.findings ELSE kept
  BY DEF Counts
<1> HIDE DEF kept
<1> QED
  BY <1>1, <1>2 DEF IsRun, Ran, RunStates
-----------------------------------------------------------------------------
(* What a tool says of a tree                                               *)

\* Contents that files may have.
Possible(contents) ==
  /\ contents = [f \in DOMAIN contents |-> contents[f]]
  /\ \A f \in Files \cap DOMAIN contents : contents[f] \in Contents[f]

\* What it says of one file.
OfOne(t, v, contents, over, i) ==
  IF FileList[i] \in DOMAIN contents
  THEN Normalize(FileList[i], Says[t][v][contents[FileList[i]]], over)
  ELSE <<>>

LEMMA OneReport ==
  ASSUME NEW t \in Tools, NEW v \in Versions, NEW contents, Possible(contents), NEW over,
         NEW i \in 1..Len(FileList)
  PROVE  LET one == OfOne(t, v, contents, over, i)
         IN  SitedList(one) /\ \A k \in 1..Len(one) : one[k].file = FileList[i]
<1> DEFINE f == FileList[i]
<1>1. CASE f \in DOMAIN contents
  <2>1. f \in Files
    BY DEF Files
  <2>2. Says[t][v][contents[f]] \in Seq(Points)
    BY <1>1, <2>1, WorldAssumption DEF Possible
  <2>3. Says[t][v][contents[f]] \in Seq([at : Nat, line : Nat, rule : Rules])
    BY <2>2 DEF Points
  <2>4. OfOne(t, v, contents, over, i) = Normalize(f, Says[t][v][contents[f]], over)
    BY <1>1 DEF OfOne
  <2> HIDE DEF f
  <2>5. /\ SitedList(Normalize(f, Says[t][v][contents[f]], over))
        /\ \A k \in 1..Len(Normalize(f, Says[t][v][contents[f]], over)) :
             Normalize(f, Says[t][v][contents[f]], over)[k].file = f
    BY <2>3, NormalizeOfFile
  <2> QED
    BY <2>4, <2>5 DEF f
<1>2. CASE f \notin DOMAIN contents
  <2>1. OfOne(t, v, contents, over, i) = <<>>
    BY <1>2 DEF OfOne
  <2>2. Len(<<>>) = 0
    OBVIOUS
  <2> QED
    BY <2>1, <2>2, EmptyIsSited
<1> QED
  BY <1>1, <1>2

LEMMA ReportLists ==
  ASSUME NEW t \in Tools, NEW v \in Versions, NEW contents, Possible(contents), NEW over
  PROVE  LET ss == [i \in 1..Len(FileList) |-> OfOne(t, v, contents, over, i)]
         IN  /\ Lists(ss, Len(FileList))
             /\ Reports(t, v, contents, over) = FlattenSeq(ss)
             /\ SitedList(Reports(t, v, contents, over))
<1> DEFINE ss == [i \in 1..Len(FileList) |-> OfOne(t, v, contents, over, i)]
<1>1. PICK n \in Nat : n = Len(FileList)
  BY CheckRunAssumption, LenProperties
<1>2. \A i \in 1..n : SitedList(ss[i])
  BY <1>1, OneReport
<1>3. Len(ss) = n /\ List(ss)
  BY <1>1 DEF List
<1>4. Lists(ss, n)
  BY <1>2, <1>3 DEF Lists, SitedList
<1>5. Reports(t, v, contents, over) = FlattenSeq(ss)
  BY DEF Reports, OfOne
<1> HIDE DEF ss
<1>6. SitedList(FlattenSeq(ss))
  BY <1>1, <1>2, <1>3, FlattenSited
<1> QED
  BY <1>1, <1>4, <1>5, <1>6 DEF ss

\* Under a configuration's overrides these are findings that can be deduplicated.
LEMMA ReportsAreFair ==
  ASSUME NEW t \in Tools, NEW v \in Versions, NEW contents, Possible(contents), NEW cfg \in Configs
  PROVE  FairList(Reports(t, v, contents, cfg.over))
<1> DEFINE ss == [i \in 1..Len(FileList) |-> OfOne(t, v, contents, cfg.over, i)]
<1>1. PICK n \in Nat : n = Len(FileList)
  BY CheckRunAssumption, LenProperties
<1>2. PICK over : over = cfg.over
  OBVIOUS
<1>3. \A k \in DOMAIN over : over[k] \in Severities
  BY <1>2, WorldAssumption
<1>4. ASSUME NEW i \in 1..n
      PROVE  FairList(OfOne(t, v, contents, over, i))
  <2> DEFINE f == FileList[i]
  <2>1. CASE f \in DOMAIN contents
    <3>1. f \in Files
      BY <1>1 DEF Files
    <3>2. Says[t][v][contents[f]] \in Seq(Points)
      BY <2>1, <3>1, WorldAssumption DEF Possible
    <3>3. Says[t][v][contents[f]] \in Seq([at : Nat, line : Nat, rule : Rules])
      BY <3>2 DEF Points
    <3>4. OfOne(t, v, contents, over, i) = Normalize(f, Says[t][v][contents[f]], over)
      BY <2>1 DEF OfOne
    <3> HIDE DEF f
    <3>5. FairList(Normalize(f, Says[t][v][contents[f]], over))
      BY <1>3, <3>3, NormalizeIsFair
    <3> QED
      BY <3>4, <3>5
  <2>2. CASE f \notin DOMAIN contents
    <3>1. OfOne(t, v, contents, over, i) = <<>>
      BY <2>2 DEF OfOne
    <3> QED
      BY <3>1, EmptyIsFair
  <2> QED
    BY <2>1, <2>2
<1>5. Len(ss) = n /\ List(ss)
  BY <1>1 DEF List
<1>6. \A i \in 1..n : FairList(ss[i])
  BY <1>1, <1>2, <1>4
<1>7. Reports(t, v, contents, cfg.over) = FlattenSeq(ss)
  BY DEF Reports, OfOne
<1> HIDE DEF ss
<1> QED
  BY <1>5, <1>6, <1>7, FlattenFair

\* What it says of some files is what it would say were it given those only.
LEMMA ReportsOfFiles ==
  ASSUME NEW t \in Tools, NEW v \in Versions, NEW contents, Possible(contents), NEW over, NEW fs
  PROVE  OfFiles(fs, Reports(t, v, contents, over))
           = Reports(t, v, [f \in fs \cap DOMAIN contents |-> contents[f]], over)
<1> DEFINE these == [f \in fs \cap DOMAIN contents |-> contents[f]]
           ss == [i \in 1..Len(FileList) |-> OfOne(t, v, contents, over, i)]
           tt == [i \in 1..Len(FileList) |-> OfOne(t, v, these, over, i)]
<1>1. PICK n \in Nat : n = Len(FileList)
  BY CheckRunAssumption, LenProperties
<1>2. Possible(these)
  BY DEF Possible
<1>3. DOMAIN these = fs \cap DOMAIN contents /\ \A f \in DOMAIN these : these[f] = contents[f]
  OBVIOUS
<1> HIDE DEF these
<1>4. ASSUME NEW i \in 1..n
      PROVE  OfFiles(fs, OfOne(t, v, contents, over, i)) = OfOne(t, v, these, over, i)
  <2> DEFINE one == OfOne(t, v, contents, over, i)
  <2>1. List(one) /\ \A k \in 1..Len(one) : one[k].file = FileList[i]
    BY <1>1, OneReport DEF SitedList
  <2>2. CASE FileList[i] \in fs
    <3>1. OfFiles(fs, one) = one
      <4> HIDE DEF one
      <4> QED
        BY <2>1, <2>2, OfFilesAll
    <3>2. OfOne(t, v, these, over, i) = one
      BY <1>3, <2>2 DEF OfOne
    <3> QED
      BY <3>1, <3>2
  <2>3. CASE FileList[i] \notin fs
    <3>1. OfFiles(fs, one) = <<>>
      <4> HIDE DEF one
      <4> QED
        BY <2>1, <2>3, OfFilesNone
    <3>2. OfOne(t, v, these, over, i) = <<>>
      BY <1>3, <2>3 DEF OfOne
    <3> QED
      BY <3>1, <3>2
  <2> QED
    BY <2>2, <2>3
<1>5. /\ Lists(ss, n) /\ Reports(t, v, contents, over) = FlattenSeq(ss)
      /\ Reports(t, v, these, over) = FlattenSeq(tt)
  BY <1>1, <1>2, ReportLists
<1>6. [i \in 1..n |-> OfFiles(fs, ss[i])] = tt
  BY <1>1, <1>4
<1> HIDE DEF ss, tt
<1>7. OfFiles(fs, FlattenSeq(ss)) = FlattenSeq([i \in 1..n |-> OfFiles(fs, ss[i])])
  BY <1>5, OfFilesFlatten
<1> QED
  BY <1>5, <1>6, <1>7 DEF these

LEMMA ReportsWithin ==
  ASSUME NEW t \in Tools, NEW v \in Versions, NEW contents, Possible(contents), NEW over,
         NEW fs, DOMAIN contents \subseteq fs
  PROVE  OfFiles(fs, Reports(t, v, contents, over)) = Reports(t, v, contents, over)
<1>1. [f \in fs \cap DOMAIN contents |-> contents[f]] = contents
  <2>1. fs \cap DOMAIN contents = DOMAIN contents
    OBVIOUS
  <2> QED
    BY <2>1 DEF Possible
<1>2. OfFiles(fs, Reports(t, v, contents, over))
           = Reports(t, v, [f \in fs \cap DOMAIN contents |-> contents[f]], over)
  BY ReportsOfFiles
<1> QED
  BY <1>1, <1>2

LEMMA ReportsOfNothing ==
  ASSUME NEW t \in Tools, NEW v \in Versions, NEW contents, Possible(contents), NEW over,
         DOMAIN contents = {}
  PROVE  Reports(t, v, contents, over) = <<>>
<1>1. OfFiles({}, Reports(t, v, contents, over)) = Reports(t, v, contents, over)
  BY ReportsWithin
<1>2. List(Reports(t, v, contents, over))
  BY ReportLists DEF SitedList
<1>3. OfFiles({}, Reports(t, v, contents, over)) = <<>>
  BY <1>2, OfFilesNone
<1> QED
  BY <1>1, <1>3

-----------------------------------------------------------------------------
(* Runs in a given world                                                    *)

TreeOk(tr) == tr = [f \in Files |-> tr[f]] /\ \A f \in Files : tr[f] \in Contents[f]

ToolOk(to) == to \in [Tools -> [version : Versions, health : Healths]]

HashOf(tr, fs) == [f \in fs |-> tr[f]]

HashIn(tr, t, cfg) == HashOf(tr, IF t \in ProjectScoped THEN Universe(cfg) ELSE Walked(cfg))

\* ProviderRun with this tree and these tools.
RunIn(tr, to, t, cfg) ==
  IF t \notin ProjectScoped /\ FilesForProvider(t, cfg) = {} THEN Skipped
  ELSE IF to[t].health = "gone" THEN Skipped
  ELSE IF to[t].health = "failing" THEN Partial
  ELSE Ran(Reports(t, to[t].version, HashOf(tr, LooksAt(t, cfg)), cfg.over))

\* What a tool has to say of the files in scope.
Truth(tr, to, t, cfg, over) == TruthOf(t, to[t].version, HashOf(tr, Universe(cfg)), over)

\* A result that its key stands for.
Fits(t, version, hash, over, ran) ==
  /\ OfFiles(DOMAIN hash, ran.findings) = TruthOf(t, version, hash, over)
  /\ t \notin ProjectScoped => ran.findings = TruthOf(t, version, hash, over)

LEMMA HashIsPossible == ASSUME NEW tr, TreeOk(tr), NEW fs PROVE Possible(HashOf(tr, fs)) /\ DOMAIN HashOf(tr, fs) = fs
BY DEF Possible, HashOf, TreeOk

LEMMA TruthIs ==
  ASSUME NEW t \in Tools, NEW v \in Versions, NEW contents, Possible(contents), NEW over
  PROVE  /\ List(TruthOf(t, v, contents, over))
         /\ OfFiles(DOMAIN contents, TruthOf(t, v, contents, over)) = TruthOf(t, v, contents, over)
<1> DEFINE fs == IF t \in ProjectScoped THEN DOMAIN contents
                 ELSE {f \in DOMAIN contents :
                         LanguageOf[f] # None /\ (Languages[t] = {} \/ LanguageOf[f] \in Languages[t])}
           these == [f \in fs |-> contents[f]]
<1>1. fs \subseteq DOMAIN contents
  OBVIOUS
<1>2. TruthOf(t, v, contents, over) = Reports(t, v, these, over)
  BY DEF TruthOf
<1> HIDE DEF fs
<1>3. Possible(these) /\ DOMAIN these \subseteq DOMAIN contents
  BY <1>1 DEF Possible
<1> HIDE DEF these
<1>4. List(Reports(t, v, these, over))
  BY <1>3, ReportLists DEF SitedList
<1>5. OfFiles(DOMAIN contents, Reports(t, v, these, over)) = Reports(t, v, these, over)
  BY <1>3, ReportsWithin
<1> QED
  BY <1>2, <1>4, <1>5

\* A tool that takes a list is given the files in scope that it is for.
LEMMA TruthOfList ==
  ASSUME NEW t \in Tools \ ProjectScoped, NEW v, NEW tr, NEW cfg, NEW over
  PROVE  /\ TruthOf(t, v, HashOf(tr, Walked(cfg)), over) = Reports(t, v, HashOf(tr, FilesForProvider(t, cfg)), over)
         /\ TruthOf(t, v, HashOf(tr, Universe(cfg)), over) = Reports(t, v, HashOf(tr, FilesForProvider(t, cfg)), over)
<1> DEFINE Right(f) == LanguageOf[f] # None /\ (Languages[t] = {} \/ LanguageOf[f] \in Languages[t])
<1>1. {f \in Walked(cfg) : Right(f)} = FilesForProvider(t, cfg)
  BY DEF FilesForProvider, Walked
<1>2. {f \in Universe(cfg) : Right(f)} = FilesForProvider(t, cfg)
  BY DEF FilesForProvider, Walked
<1>3. \A fs : DOMAIN HashOf(tr, fs) = fs
  BY DEF HashOf
<1>4. \A fs : TruthOf(t, v, HashOf(tr, fs), over) = Reports(t, v, [f \in {g \in fs : Right(g)} |-> HashOf(tr, fs)[f]], over)
  BY <1>3 DEF TruthOf
<1>5. \A fs : [f \in {g \in fs : Right(g)} |-> HashOf(tr, fs)[f]] = HashOf(tr, {g \in fs : Right(g)})
  BY DEF HashOf
<1> HIDE DEF Right
<1>6. \A fs : TruthOf(t, v, HashOf(tr, fs), over) = Reports(t, v, HashOf(tr, {g \in fs : Right(g)}), over)
  BY <1>4, <1>5
<1> QED
  BY <1>1, <1>2, <1>6

LEMMA TruthOfProject ==
  ASSUME NEW t \in Tools, t \in ProjectScoped, NEW v, NEW tr, NEW fs, NEW over
  PROVE  TruthOf(t, v, HashOf(tr, fs), over) = Reports(t, v, HashOf(tr, fs), over)
<1>1. DOMAIN HashOf(tr, fs) = fs /\ [f \in fs |-> HashOf(tr, fs)[f]] = HashOf(tr, fs)
  BY DEF HashOf
<1> QED
  BY <1>1 DEF TruthOf

\* The root given, the files in scope tell what the tool says of them.
LEMMA RootAndScope ==
  ASSUME NEW t \in Tools, t \in ProjectScoped, NEW v \in Versions, NEW tr, TreeOk(tr), NEW cfg, NEW over
  PROVE  OfFiles(Universe(cfg), Reports(t, v, HashOf(tr, Files), over)) = TruthOf(t, v, HashOf(tr, Universe(cfg)), over)
<1>1. Possible(HashOf(tr, Files)) /\ DOMAIN HashOf(tr, Files) = Files
  BY HashIsPossible
<1>2. OfFiles(Universe(cfg), Reports(t, v, HashOf(tr, Files), over))
        = Reports(t, v, [f \in Universe(cfg) \cap Files |-> HashOf(tr, Files)[f]], over)
  BY <1>1, ReportsOfFiles
<1>3. [f \in Universe(cfg) \cap Files |-> HashOf(tr, Files)[f]] = HashOf(tr, Universe(cfg))
  BY DEF HashOf, Universe
<1> QED
  BY <1>2, <1>3, TruthOfProject

LEMMA RunIsRun ==
  ASSUME NEW tr, TreeOk(tr), NEW to, ToolOk(to), NEW t \in Tools, NEW cfg
  PROVE  IsRun(RunIn(tr, to, t, cfg))
<1>1. to[t].version \in Versions
  BY DEF ToolOk
<1>2. List(Reports(t, to[t].version, HashOf(tr, LooksAt(t, cfg)), cfg.over))
  BY <1>1, HashIsPossible, ReportLists DEF SitedList
<1> QED
  BY <1>2, EmptyIsList DEF RunIn, IsRun, Ran, Skipped, Partial, RunStates

LEMMA RunFits ==
  ASSUME NEW tr, TreeOk(tr), NEW to, ToolOk(to), NEW t \in Tools, NEW cfg,
         Usable(RunIn(tr, to, t, cfg))
  PROVE  /\ to[t].health = "ok"
         /\ Fits(t, to[t].version, HashIn(tr, t, cfg), cfg.over, RunIn(tr, to, t, cfg))
<1>1. to[t].version \in Versions /\ to[t].health \in Healths
  BY DEF ToolOk
<1>2. /\ to[t].health = "ok"
      /\ RunIn(tr, to, t, cfg) = Ran(Reports(t, to[t].version, HashOf(tr, LooksAt(t, cfg)), cfg.over))
  BY <1>1 DEF RunIn, Usable, Skipped, Partial, Healths
<1>3. RunIn(tr, to, t, cfg).findings = Reports(t, to[t].version, HashOf(tr, LooksAt(t, cfg)), cfg.over)
  BY <1>2 DEF Ran
<1>4. CASE t \in ProjectScoped
  <2>1. LooksAt(t, cfg) = Files /\ HashIn(tr, t, cfg) = HashOf(tr, Universe(cfg))
    BY <1>4 DEF LooksAt, HashIn
  <2>2. DOMAIN HashOf(tr, Universe(cfg)) = Universe(cfg)
    BY DEF HashOf
  <2>3. OfFiles(Universe(cfg), Reports(t, to[t].version, HashOf(tr, Files), cfg.over))
          = TruthOf(t, to[t].version, HashOf(tr, Universe(cfg)), cfg.over)
    BY <1>1, <1>4, RootAndScope
  <2> QED
    BY <1>2, <1>3, <1>4, <2>1, <2>2, <2>3 DEF Fits
<1>5. CASE t \notin ProjectScoped
  <2>1. LooksAt(t, cfg) = FilesForProvider(t, cfg) /\ HashIn(tr, t, cfg) = HashOf(tr, Walked(cfg))
    BY <1>5 DEF LooksAt, HashIn
  <2>2. RunIn(tr, to, t, cfg).findings = TruthOf(t, to[t].version, HashIn(tr, t, cfg), cfg.over)
    BY <1>3, <1>5, <2>1, TruthOfList
  <2>3. Possible(HashIn(tr, t, cfg))
    BY <2>1, HashIsPossible
  <2> QED
    BY <1>1, <1>2, <2>2, <2>3, TruthIs DEF Fits
<1> QED
  BY <1>4, <1>5

\* A result that fits its key tells, of the files in scope, what the tool has to
\* say of them.
LEMMA FitIsTruth ==
  ASSUME NEW tr, TreeOk(tr), NEW to, ToolOk(to), NEW t \in Tools, NEW cfg, NEW over, NEW ran,
         Fits(t, to[t].version, HashIn(tr, t, cfg), over, ran)
  PROVE  InScope(cfg, ran.findings) = Truth(tr, to, t, cfg, over)
<1>1. to[t].version \in Versions
  BY DEF ToolOk
<1>2. Possible(HashOf(tr, Universe(cfg))) /\ DOMAIN HashOf(tr, Universe(cfg)) = Universe(cfg)
  BY HashIsPossible
<1>3. CASE t \in ProjectScoped
  BY <1>2, <1>3 DEF Fits, HashIn, Truth, InScope
<1>4. CASE t \notin ProjectScoped
  <2>1. ran.findings = TruthOf(t, to[t].version, HashOf(tr, Walked(cfg)), over)
    BY <1>4 DEF Fits, HashIn
  <2>2. ran.findings = Truth(tr, to, t, cfg, over)
    BY <1>4, <2>1, TruthOfList DEF Truth
  <2>3. OfFiles(Universe(cfg), Truth(tr, to, t, cfg, over)) = Truth(tr, to, t, cfg, over)
    BY <1>1, <1>2, TruthIs DEF Truth
  <2> QED
    BY <2>2, <2>3 DEF InScope
<1> QED
  BY <1>3, <1>4

LEMMA TruthInScope ==
  ASSUME NEW tr, TreeOk(tr), NEW to, ToolOk(to), NEW t \in Tools, NEW cfg, NEW over
  PROVE  /\ List(Truth(tr, to, t, cfg, over))
         /\ InScope(cfg, Truth(tr, to, t, cfg, over)) = Truth(tr, to, t, cfg, over)
<1>1. to[t].version \in Versions
  BY DEF ToolOk
<1>2. Possible(HashOf(tr, Universe(cfg))) /\ DOMAIN HashOf(tr, Universe(cfg)) = Universe(cfg)
  BY HashIsPossible
<1> QED
  BY <1>1, <1>2, TruthIs DEF Truth, InScope

\* A tool that is given no file has nothing to say.
LEMMA NothingToSay ==
  ASSUME NEW tr, TreeOk(tr), NEW to, ToolOk(to), NEW t \in Tools \ ProjectScoped, NEW cfg, NEW over,
         FilesForProvider(t, cfg) = {}
  PROVE  Truth(tr, to, t, cfg, over) = <<>>
<1>1. to[t].version \in Versions
  BY DEF ToolOk
<1>2. Truth(tr, to, t, cfg, over) = Reports(t, to[t].version, HashOf(tr, {}), over)
  BY TruthOfList DEF Truth
<1>3. Possible(HashOf(tr, {})) /\ DOMAIN HashOf(tr, {}) = {}
  BY HashIsPossible
<1> QED
  BY <1>1, <1>2, <1>3, ReportsOfNothing

-----------------------------------------------------------------------------
(* A check in a given world                                                 *)

\* Scan with this tree.
ScanOf(tr, walked, markers) ==
  FlattenSeq([i \in 1..Len(FileList) |->
    LET f == FileList[i]
        here == IF f \in walked THEN CommentsIn[tr[f]] ELSE <<>>
    IN  [n \in 1..Len(here) |-> Detected(f, here[n], markers)]])

ScanIn(tr, cfg) == ScanOf(tr, Walked(cfg), cfg.markers)

\* Now with this tree and these tools.
NowIn(tr, to, t, cfg, from) ==
  IF to[t].health = "ok" \/ from # None
  THEN IF t \notin ProjectScoped /\ FilesForProvider(t, cfg) = {} THEN Skipped
       ELSE Ran(Truth(tr, to, t, cfg, Ranks(cfg, from)))
  ELSE RunIn(tr, to, t, cfg)

\* What counts of the first n providers' findings in scope.
SoFar(tr, to, cfg, taken, n) ==
  FlattenSeq([i \in 1..n |->
    Counts(Providers[i], ScanIn(tr, cfg),
           InScope(cfg, NowIn(tr, to, Providers[i], cfg, taken[Providers[i]]).findings))])

\* What became of a provider.
Outcome(tr, to, v, t) ==
  /\ v.states[t] \in RunStates
  /\ v.states[t] \in {"SKIPPED", "PARTIAL"} => NowIn(tr, to, t, v.cfg, v.taken[t]).findings = <<>>
  /\ v.states[t] \in {"SUCCESS", "EMPTY"} => v.taken[t] # None \/ to[t].health = "ok"

-----------------------------------------------------------------------------
(* What a check holds                                                       *)

\* Its cursor, its lists, and the rows it took.
Fields(v) ==
  /\ v.next \in 1..(Len(Providers) + 1)
  /\ v.phase = "store" => v.next <= Len(Providers)
  /\ v.phase # "idle" => v.cfg \in Configs
  /\ v.states = [t \in Tools |-> v.states[t]]
  /\ v.phase \in {"walked", "ask", "store"} => List(v.found)
  /\ v.taken = [t \in Tools |-> v.taken[t]]
  /\ \A i \in v.next..Len(Providers) : v.taken[Providers[i]] = None
  /\ v.phase = "walked" => v.next = 1 /\ v.found = <<>> /\ ~v.stale
  /\ ~v.disturbed => ~v.stale

\* Its keys are those of the tree and the tools, until one of them changes.
Current(tr, to, v) ==
  v.phase \in {"ask", "store"} /\ ~v.stale =>
    \A t \in Tools : v.keys[t] # None =>
      v.keys[t] = to[t].version /\ v.hashes[t] = HashIn(tr, t, v.cfg)

\* The result it is about to store.
AtHand(tr, to, v) ==
  v.phase = "store" =>
    LET t == Provider(v)
    IN  /\ IsRun(v.ran)
        /\ ~v.crossed /\ Usable(v.ran) => Fits(t, v.keys[t], v.hashes[t], v.cfg.over, v.ran)
        /\ ~v.disturbed => v.ran = RunIn(tr, to, t, v.cfg)

\* What it has gathered, in a world that stands still.
Gathered(tr, to, v) ==
  v.phase \in {"walked", "ask", "store"} /\ ~v.disturbed /\ v.sound =>
    /\ v.comments = ScanIn(tr, v.cfg)
    /\ InScope(v.cfg, v.found) = SoFar(tr, to, v.cfg, v.taken, v.next - 1)
    /\ \A i \in 1..(v.next - 1) : Outcome(tr, to, v, Providers[i])

\* What it shows then.
Shows(tr, to, v) ==
  v.phase = "report" /\ ~v.disturbed /\ v.sound =>
    LET all == SoFar(tr, to, v.cfg, v.taken, Len(Providers))
    IN  /\ v.comments = Fuse(v.cfg, ScanIn(tr, v.cfg), all)
        /\ v.found = Unattached(ScanIn(tr, v.cfg), all)
        /\ \A t \in Tools : Outcome(tr, to, v, t)

-----------------------------------------------------------------------------
(* What was accepted                                                        *)

\* What a tool that is heard says in this world.
Said(w, t) == IF t \in w.heard THEN Truth(w.tree, w.tool, t, w.cfg, w.ranks[t]) ELSE <<>>

\* The comments of a check of this world.
Full(w) ==
  Fuse(w.cfg, ScanIn(w.tree, w.cfg),
       FlattenSeq([i \in 1..Len(Providers) |->
         Counts(Providers[i], ScanIn(w.tree, w.cfg), Said(w, Providers[i]))]))

WorldIn(tr, to, v) ==
  [tree |-> tr, tool |-> to, cfg |-> [v.cfg EXCEPT !.failOn = Info],
   ranks |-> [t \in Tools |-> Ranks(v.cfg, v.taken[t])],
   heard |-> {t \in Tools : v.states[t] \in {"SUCCESS", "EMPTY"}}]

Accepts(entries, w) == Accept(Full(w)) \subseteq entries

\* What it loaded accepts what was accepted then; what it writes accepts the
\* world it is going to be taken for.
Accepting(tr, to, v) ==
  /\ v.phase = "report" => \A w \in v.told : Accepts(v.loaded, w)
  /\ v.phase \in {"write", "fill"} /\ Trusted(v)
       /\ (v.op = "accept" \/ WorldIn(tr, to, v) \in v.told)
     => Accepts(v.entries, WorldIn(tr, to, v))

Good(tr, to, v) ==
  /\ Fields(v) /\ Current(tr, to, v) /\ AtHand(tr, to, v)
  /\ Gathered(tr, to, v) /\ Shows(tr, to, v) /\ Accepting(tr, to, v)

-----------------------------------------------------------------------------
(* The invariant                                                            *)

RowOk(row) ==
  /\ row.tool \in Tools /\ row.over # None /\ IsRun(row.ran) /\ Usable(row.ran)
  /\ ~row.crossed => Fits(row.tool, row.version, row.hash, row.over, row.ran)

Right ==
  /\ TreeOk(tree) /\ ToolOk(tool) /\ config \in Configs
  /\ \A row \in rows : RowOk(row)
  /\ \A w \in agreed : Accepts(baseline, w)
  /\ \A r \in Runners : Good(tree, tool, run[r])

-----------------------------------------------------------------------------
(* What counts, provider by provider                                        *)

LEMMA ProvidersAre ==
  /\ Len(Providers) \in Nat
  /\ \A i \in 1..Len(Providers) : Providers[i] \in Tools
  /\ \A t \in Tools : \E i \in 1..Len(Providers) : t = Providers[i]
<1>1. Len(Providers) \in Nat
  BY CheckRunAssumption, LenProperties
<1> QED
  BY <1>1 DEF Tools

LEMMA NowIsRun ==
  ASSUME NEW tr, TreeOk(tr), NEW to, ToolOk(to), NEW t \in Tools, NEW cfg, NEW from
  PROVE  IsRun(NowIn(tr, to, t, cfg, from))
<1>1. IsRun(RunIn(tr, to, t, cfg)) /\ List(Truth(tr, to, t, cfg, Ranks(cfg, from)))
  BY RunIsRun, TruthInScope
<1>2. IsRun(Skipped) /\ IsRun(Ran(Truth(tr, to, t, cfg, Ranks(cfg, from))))
  BY <1>1, EmptyIsList DEF IsRun, Skipped, Ran, RunStates
<1> QED
  BY <1>1, <1>2 DEF NowIn

Heard(to, t, from) == to[t].health = "ok" \/ from # None

\* What a tool that works has to say, or said when its row was stored.
LEMMA NowIsTruth ==
  ASSUME NEW tr, TreeOk(tr), NEW to, ToolOk(to), NEW t \in Tools, NEW cfg, NEW from,
         Heard(to, t, from)
  PROVE  NowIn(tr, to, t, cfg, from).findings = Truth(tr, to, t, cfg, Ranks(cfg, from))
<1>1. CASE t \notin ProjectScoped /\ FilesForProvider(t, cfg) = {}
  <2>1. Truth(tr, to, t, cfg, Ranks(cfg, from)) = <<>>
    BY <1>1, NothingToSay
  <2>2. NowIn(tr, to, t, cfg, from) = Skipped
    BY <1>1 DEF NowIn, Heard
  <2> QED
    BY <2>1, <2>2 DEF Skipped
<1>2. CASE ~(t \notin ProjectScoped /\ FilesForProvider(t, cfg) = {})
  <2>1. NowIn(tr, to, t, cfg, from) = Ran(Truth(tr, to, t, cfg, Ranks(cfg, from)))
    BY <1>2 DEF NowIn, Heard
  <2> QED
    BY <2>1 DEF Ran
<1> QED
  BY <1>1, <1>2

\* A run now, of which the files in scope count.
LEMMA RunIsNow ==
  ASSUME NEW tr, TreeOk(tr), NEW to, ToolOk(to), NEW t \in Tools, NEW cfg
  PROVE  /\ InScope(cfg, RunIn(tr, to, t, cfg).findings) = InScope(cfg, NowIn(tr, to, t, cfg, None).findings)
         /\ RunIn(tr, to, t, cfg).state \in {"SKIPPED", "PARTIAL"} => NowIn(tr, to, t, cfg, None).findings = <<>>
         /\ Usable(RunIn(tr, to, t, cfg)) => to[t].health = "ok"
<1>1. CASE to[t].health = "ok" /\ Usable(RunIn(tr, to, t, cfg))
  <2>1. Fits(t, to[t].version, HashIn(tr, t, cfg), cfg.over, RunIn(tr, to, t, cfg))
    BY <1>1, RunFits
  <2>2. InScope(cfg, RunIn(tr, to, t, cfg).findings) = Truth(tr, to, t, cfg, cfg.over)
    BY <2>1, FitIsTruth
  <2>3. NowIn(tr, to, t, cfg, None).findings = Truth(tr, to, t, cfg, cfg.over)
    <3>1. Heard(to, t, None)
      BY <1>1 DEF Heard
    <3> QED
      BY <3>1, NowIsTruth DEF Ranks
  <2>4. RunIn(tr, to, t, cfg).state \notin {"SKIPPED", "PARTIAL"}
    BY <1>1 DEF Usable
  <2> QED
    BY <1>1, <2>2, <2>3, <2>4, TruthInScope
<1>2. CASE to[t].health = "ok" /\ ~Usable(RunIn(tr, to, t, cfg))
  <2>1. t \notin ProjectScoped /\ FilesForProvider(t, cfg) = {}
    BY <1>2 DEF RunIn, Usable, Ran
  <2>2. RunIn(tr, to, t, cfg) = Skipped /\ NowIn(tr, to, t, cfg, None) = Skipped
    BY <1>2, <2>1 DEF RunIn, NowIn
  <2>3. /\ RunIn(tr, to, t, cfg).findings = NowIn(tr, to, t, cfg, None).findings
        /\ NowIn(tr, to, t, cfg, None).findings = <<>>
    <3>1. Skipped.findings = <<>>
      BY DEF Skipped
    <3> QED
      BY <2>2, <3>1
  <2> QED
    BY <1>2, <2>3
<1>3. CASE to[t].health # "ok"
  <2>1. NowIn(tr, to, t, cfg, None) = RunIn(tr, to, t, cfg)
    BY <1>3 DEF NowIn
  <2>2. ~Usable(RunIn(tr, to, t, cfg))
    BY <1>3, RunFits
  <2>3. RunIn(tr, to, t, cfg).state \in {"SKIPPED", "PARTIAL"} => RunIn(tr, to, t, cfg).findings = <<>>
    BY <2>2 DEF RunIn, Skipped, Partial, Ran, Usable
  <2> QED
    BY <2>1, <2>2, <2>3
<1> QED
  BY <1>1, <1>2, <1>3

\* What counts of the i-th provider.
CountOf(tr, to, cfg, taken, i) ==
  Counts(Providers[i], ScanIn(tr, cfg),
         InScope(cfg, NowIn(tr, to, Providers[i], cfg, taken[Providers[i]]).findings))

LEMMA CountOfIs ==
  ASSUME NEW tr, TreeOk(tr), NEW to, ToolOk(to), NEW cfg, NEW taken, NEW i \in 1..Len(Providers)
  PROVE  LET one == CountOf(tr, to, cfg, taken, i)
         IN  List(one) /\ InScope(cfg, one) = one
<1> DEFINE now == NowIn(tr, to, Providers[i], cfg, taken[Providers[i]]).findings
           scoped == InScope(cfg, now)
<1>1. List(now)
  BY ProvidersAre, NowIsRun DEF IsRun
<1> HIDE DEF now
<1>2. List(scoped) /\ InScope(cfg, scoped) = scoped
  BY <1>1, OfFilesIsList, OfFilesTwice DEF InScope
<1> HIDE DEF scoped
<1>3. List(Counts(Providers[i], ScanIn(tr, cfg), scoped))
  BY <1>2, CountsIsList
<1>4. InScope(cfg, Counts(Providers[i], ScanIn(tr, cfg), scoped))
        = Counts(Providers[i], ScanIn(tr, cfg), InScope(cfg, scoped))
  BY <1>2, OfFilesCounts DEF InScope
<1> QED
  BY <1>2, <1>3, <1>4 DEF CountOf, scoped, now

LEMMA SoFarLists ==
  ASSUME NEW tr, TreeOk(tr), NEW to, ToolOk(to), NEW cfg, NEW taken, NEW n \in 0..Len(Providers)
  PROVE  LET ss == [i \in 1..n |-> CountOf(tr, to, cfg, taken, i)]
         IN  Lists(ss, n) /\ SoFar(tr, to, cfg, taken, n) = FlattenSeq(ss)
<1> DEFINE ss == [i \in 1..n |-> CountOf(tr, to, cfg, taken, i)]
<1>1. n \in Nat /\ \A i \in 1..n : i \in 1..Len(Providers)
  BY ProvidersAre
<1>2. \A i \in 1..n : List(ss[i])
  BY <1>1, CountOfIs
<1>3. Len(ss) = n /\ List(ss)
  BY <1>1 DEF List
<1>4. SoFar(tr, to, cfg, taken, n) = FlattenSeq(ss)
  BY DEF SoFar, CountOf
<1> HIDE DEF ss
<1> QED
  BY <1>2, <1>3, <1>4 DEF Lists, ss

LEMMA SoFarNone ==
  ASSUME NEW tr, NEW to, NEW cfg, NEW taken
  PROVE  SoFar(tr, to, cfg, taken, 0) = <<>>
<1>1. SoFar(tr, to, cfg, taken, 0) = FlattenSeq([i \in 1..0 |-> CountOf(tr, to, cfg, taken, i)])
  BY DEF SoFar, CountOf
<1>2. [i \in 1..0 |-> CountOf(tr, to, cfg, taken, i)] = <<>>
  OBVIOUS
<1> QED
  BY <1>1, <1>2, FlattenNone

LEMMA SoFarInScope ==
  ASSUME NEW tr, TreeOk(tr), NEW to, ToolOk(to), NEW cfg, NEW taken, NEW n \in 0..Len(Providers)
  PROVE  InScope(cfg, SoFar(tr, to, cfg, taken, n)) = SoFar(tr, to, cfg, taken, n)
<1> DEFINE ss == [i \in 1..n |-> CountOf(tr, to, cfg, taken, i)]
<1>1. n \in Nat /\ \A i \in 1..n : i \in 1..Len(Providers)
  BY ProvidersAre
<1>2. Lists(ss, n) /\ SoFar(tr, to, cfg, taken, n) = FlattenSeq(ss)
  BY SoFarLists
<1>3. [i \in 1..n |-> InScope(cfg, ss[i])] = ss
  BY <1>1, CountOfIs
<1> HIDE DEF ss
<1>4. InScope(cfg, FlattenSeq(ss)) = FlattenSeq([i \in 1..n |-> InScope(cfg, ss[i])])
  BY <1>1, <1>2, OfFilesFlatten DEF InScope
<1> QED
  BY <1>2, <1>3, <1>4

\* One provider more, which may have been taken.
MaybeTaken(taken, more, n) ==
  \A t \in Tools : t # Providers[n + 1] => more[t] = taken[t]

Extends(tr, to, cfg, taken, more, n) ==
  SoFar(tr, to, cfg, more, n + 1) = SoFar(tr, to, cfg, taken, n) \o CountOf(tr, to, cfg, more, n + 1)

LEMMA SoFarMore ==
  ASSUME NEW tr, TreeOk(tr), NEW to, ToolOk(to), NEW cfg, NEW n \in 0..(Len(Providers) - 1),
         NEW taken, NEW more, MaybeTaken(taken, more, n)
  PROVE  Extends(tr, to, cfg, taken, more, n)
<1> DEFINE ss == [i \in 1..n |-> CountOf(tr, to, cfg, taken, i)]
           tt == [i \in 1..(n + 1) |-> CountOf(tr, to, cfg, more, i)]
<1>1. n \in Nat /\ n \in 0..Len(Providers) /\ n + 1 \in 0..Len(Providers) /\ n + 1 \in 1..(n + 1)
  BY ProvidersAre
<1>2. \A i \in 1..n : i \in 1..(n + 1) /\ i # n + 1 /\ i \in 1..Len(Providers) /\ n + 1 \in 1..Len(Providers)
  BY ProvidersAre
<1>3. Lists(ss, n) /\ SoFar(tr, to, cfg, taken, n) = FlattenSeq(ss)
  BY <1>1, SoFarLists
<1>4. Lists(tt, n + 1) /\ SoFar(tr, to, cfg, more, n + 1) = FlattenSeq(tt)
  BY <1>1, SoFarLists
<1>5. ASSUME NEW i \in 1..n  PROVE ss[i] = tt[i]
  <2>1. Providers[i] # Providers[n + 1] /\ Providers[i] \in Tools
    BY <1>2, CheckRunAssumption, ProvidersAre
  <2>3. taken[Providers[i]] = more[Providers[i]]
    BY <2>1 DEF MaybeTaken
  <2>4. CountOf(tr, to, cfg, taken, i) = CountOf(tr, to, cfg, more, i)
    BY <2>3 DEF CountOf
  <2> QED
    BY <1>2, <2>4
<1>6. tt[n + 1] = CountOf(tr, to, cfg, more, n + 1)
  BY <1>1
<1> HIDE DEF ss, tt
<1>7. FlattenSeq(tt) = FlattenSeq(ss) \o tt[n + 1]
  BY <1>1, <1>3, <1>4, <1>5, FlattenMore
<1> QED
  BY <1>3, <1>4, <1>6, <1>7 DEF Extends

-----------------------------------------------------------------------------
(* Steps of one check, in a world that does not change meanwhile            *)

LEMMA IdleGood == ASSUME NEW tr, NEW to PROVE Good(tr, to, Idle)
<1> PICK v : v = Idle
  OBVIOUS
<1> DEFINE states == [t \in Tools |-> None]
           taken == [t \in Tools |-> None]
<1>1. /\ v.phase = "idle" /\ v.next = 1 /\ v.states = states /\ v.found = <<>> /\ v.taken = taken
      /\ v.stale = FALSE
  BY DEF Idle
<1>2. /\ states = [t \in Tools |-> states[t]] /\ taken = [t \in Tools |-> taken[t]]
      /\ \A i \in 1..Len(Providers) : taken[Providers[i]] = None
  BY ProvidersAre
<1> HIDE DEF states, taken
<1>3. Fields(v)
  BY <1>1, <1>2, EmptyIsList, ProvidersAre DEF Fields
<1>4. Current(tr, to, v) /\ AtHand(tr, to, v) /\ Gathered(tr, to, v) /\ Shows(tr, to, v) /\ Accepting(tr, to, v)
  BY <1>1 DEF Current, AtHand, Gathered, Shows, Accepting
<1> QED
  BY <1>3, <1>4 DEF Good

LEMMA BeginGood ==
  ASSUME NEW tr, NEW to, NEW cfg \in Configs
  PROVE  Good(tr, to, [Idle EXCEPT !.phase = "walked", !.cfg = cfg, !.comments = ScanIn(tr, cfg)])
<1> DEFINE comments == ScanIn(tr, cfg)
<1> PICK v : v = [Idle EXCEPT !.phase = "walked", !.cfg = cfg, !.comments = comments]
  OBVIOUS
<1> DEFINE states == [t \in Tools |-> None]
           taken == [t \in Tools |-> None]
<1> HIDE DEF comments
<1>1. /\ v.phase = "walked" /\ v.next = 1 /\ v.states = states /\ v.found = <<>> /\ v.taken = taken
      /\ v.cfg = cfg /\ v.comments = comments /\ v.stale = FALSE
  BY DEF Idle
<1>2. /\ states = [t \in Tools |-> states[t]] /\ taken = [t \in Tools |-> taken[t]]
      /\ \A i \in 1..Len(Providers) : taken[Providers[i]] = None
  BY ProvidersAre
<1> HIDE DEF states, taken
<1>3. Fields(v)
  BY <1>1, <1>2, EmptyIsList, ProvidersAre DEF Fields
<1>4. Current(tr, to, v) /\ AtHand(tr, to, v) /\ Shows(tr, to, v) /\ Accepting(tr, to, v)
  BY <1>1 DEF Current, AtHand, Shows, Accepting
<1>5. Gathered(tr, to, v)
  <2>1. InScope(v.cfg, <<>>) = <<>>
    BY KeepOfNone DEF InScope, OfFiles
  <2>2. SoFar(tr, to, v.cfg, v.taken, 0) = <<>>
    BY SoFarNone
  <2>3. v.next - 1 = 0 /\ 1..0 = {}
    BY <1>1
  <2> QED
    BY <1>1, <2>1, <2>2, <2>3 DEF Gathered, comments
<1> QED
  BY <1>3, <1>4, <1>5 DEF Good, comments

LEMMA KeysGood ==
  ASSUME NEW tr, NEW to, NEW me, Shape(me), Good(tr, to, me), me.phase = "walked",
         NEW keys, NEW hashes,
         \A t \in Tools : keys[t] # None =>
           keys[t] = to[t].version /\ hashes[t] = HashIn(tr, t, me.cfg)
  PROVE  Good(tr, to, [me EXCEPT !.phase = "ask", !.stale = FALSE, !.keys = keys, !.hashes = hashes])
<1> PICK v : v = [me EXCEPT !.phase = "ask", !.stale = FALSE, !.keys = keys, !.hashes = hashes]
  OBVIOUS
<1>1. /\ v.phase = "ask" /\ v.next = me.next /\ v.states = me.states /\ v.found = me.found
      /\ v.taken = me.taken /\ v.cfg = me.cfg /\ v.comments = me.comments /\ v.stale = FALSE
      /\ v.keys = keys /\ v.hashes = hashes /\ v.disturbed = me.disturbed /\ v.sound = me.sound
  BY DEF Shape
<1>2. Fields(v)
  BY <1>1 DEF Good, Fields
<1>3. Current(tr, to, v)
  BY <1>1 DEF Current
<1>4. AtHand(tr, to, v) /\ Shows(tr, to, v) /\ Accepting(tr, to, v)
  BY <1>1 DEF AtHand, Shows, Accepting
<1>5. Gathered(tr, to, v)
  BY <1>1 DEF Good, Gathered, Outcome
<1> QED
  BY <1>2, <1>3, <1>4, <1>5 DEF Good

\* v is what me becomes with the result of the provider at hand.
Adds(me, ran, v) ==
  /\ v.phase = "ask" /\ v.next = me.next + 1 /\ v.cfg = me.cfg /\ v.comments = me.comments
  /\ v.keys = me.keys /\ v.hashes = me.hashes /\ v.stale = me.stale /\ v.disturbed = me.disturbed
  /\ v.states = [me.states EXCEPT ![Provider(me)] =
                   CommentScopedRun(Provider(me), me.comments, ran).state]
  /\ v.found = me.found \o CommentScopedRun(Provider(me), me.comments, ran).findings

\* A result that is as good as one of now.
AsNow(tr, to, me, ran, from) ==
  LET now == NowIn(tr, to, Provider(me), me.cfg, from)
  IN  /\ InScope(me.cfg, ran.findings) = InScope(me.cfg, now.findings)
      /\ ran.state \in {"SKIPPED", "PARTIAL"} => now.findings = <<>>
      /\ Usable(ran) => from # None \/ to[Provider(me)].health = "ok"

\* Of no other tool it has taken a row meanwhile.
TakesOne(me, v) ==
  /\ v.taken = [t \in Tools |-> v.taken[t]]
  /\ \A t \in Tools : t # Provider(me) => v.taken[t] = me.taken[t]

\* A provider's result, run or taken from the cache, is added.
LEMMA FoundGood ==
  ASSUME NEW tr, TreeOk(tr), NEW to, ToolOk(to), NEW me, Good(tr, to, me),
         me.phase \in {"ask", "store"}, me.next \in 1..Len(Providers),
         NEW ran, IsRun(ran), NEW v, Adds(me, ran, v),
         TakesOne(me, v),
         v.sound => me.sound,
         ~v.disturbed /\ v.sound => AsNow(tr, to, me, ran, v.taken[Provider(me)])
  PROVE  Good(tr, to, v)
<1>0. /\ v.phase = "ask" /\ v.next = me.next + 1 /\ v.cfg = me.cfg /\ v.comments = me.comments
      /\ v.keys = me.keys /\ v.hashes = me.hashes /\ v.stale = me.stale /\ v.disturbed = me.disturbed
      /\ v.states = [me.states EXCEPT ![Provider(me)] =
                       CommentScopedRun(Provider(me), me.comments, ran).state]
      /\ v.found = me.found \o CommentScopedRun(Provider(me), me.comments, ran).findings
      /\ v.taken = [y \in Tools |-> v.taken[y]]
      /\ \A y \in Tools : y # Provider(me) => v.taken[y] = me.taken[y]
  BY DEF Adds, TakesOne
<1> DEFINE t == Provider(me)
           kept == CommentScopedRun(t, me.comments, ran)
           n == me.next - 1
<1>1. /\ n \in 0..(Len(Providers) - 1) /\ n + 1 = me.next /\ v.next - 1 = n + 1
      /\ v.next \in 1..(Len(Providers) + 1) /\ n + 1 \in 1..(n + 1) /\ n + 1 \in 1..Len(Providers)
      /\ \A i \in 1..(n + 1) : i \in 1..n \/ i = n + 1
      /\ \A i \in 1..n : i \in 1..(n + 1) /\ i \in 1..Len(Providers) /\ i # n + 1
  BY <1>0, ProvidersAre
<1>2. t = Providers[n + 1] /\ t \in Tools
  BY <1>1, ProvidersAre DEF Provider
<1>3. /\ kept.findings = Counts(t, me.comments, ran.findings)
      /\ kept.state \in RunStates
      /\ kept.state = "PARTIAL" <=> ran.state = "PARTIAL"
      /\ kept.state = "SKIPPED" <=> ran.state = "SKIPPED"
  BY CountsIs
<1>4. PICK state, new : state = kept.state /\ new = kept.findings
  OBVIOUS
<1> HIDE DEF n, t, kept
<1>41. \A y \in Tools : y # t => v.taken[y] = me.taken[y]
  BY DEF TakesOne, t
<1>5. v.states = [me.states EXCEPT ![t] = state] /\ v.found = me.found \o new
  BY <1>0, <1>4 DEF t, kept
<1>6. List(new)
  BY <1>3, <1>4, CountsIsList DEF IsRun
<1>7. Fields(me)
  BY DEF Good
<1>8. Fields(v)
  <2>1. List(v.found)
    BY <1>5, <1>6, <1>7, ConcatMakesList DEF Fields
  <2>2. v.states = [x \in Tools |-> v.states[x]]
    BY <1>5, <1>7 DEF Fields
  <2>3. ASSUME NEW i \in v.next..Len(Providers)  PROVE v.taken[Providers[i]] = None
    <3>1. i \in me.next..Len(Providers) /\ i \in 1..Len(Providers) /\ i # n + 1
      BY <1>0, <1>1, ProvidersAre
    <3>2. Providers[i] \in Tools /\ Providers[i] # Provider(me)
      BY <1>1, <1>2, <3>1, ProvidersAre, CheckRunAssumption DEF t
    <3>3. me.taken[Providers[i]] = None
      BY <1>7, <3>1 DEF Fields
    <3> QED
      BY <1>41, <3>2, <3>3 DEF t
  <2>4. v.cfg \in Configs
    BY <1>0, <1>7 DEF Fields
  <2>5. ~v.disturbed => ~v.stale
    BY <1>0, <1>7 DEF Fields
  <2> QED
    BY <1>0, <1>1, <2>1, <2>2, <2>3, <2>4, <2>5 DEF Fields
<1>9. Current(tr, to, v)
  BY <1>0 DEF Good, Current
<1>10. AtHand(tr, to, v) /\ Shows(tr, to, v) /\ Accepting(tr, to, v)
  BY <1>0 DEF AtHand, Shows, Accepting
<1>11. ASSUME ~v.disturbed, v.sound
       PROVE  /\ v.comments = ScanIn(tr, v.cfg)
              /\ InScope(v.cfg, v.found) = SoFar(tr, to, v.cfg, v.taken, v.next - 1)
              /\ \A i \in 1..(v.next - 1) : Outcome(tr, to, v, Providers[i])
  <2>1. /\ me.comments = ScanIn(tr, me.cfg)
        /\ InScope(me.cfg, me.found) = SoFar(tr, to, me.cfg, me.taken, n)
        /\ \A i \in 1..n : Outcome(tr, to, me, Providers[i])
    BY <1>0, <1>11 DEF Good, Gathered, n
  <2>2. PICK now : now = NowIn(tr, to, t, me.cfg, v.taken[t])
    OBVIOUS
  <2>3. /\ InScope(me.cfg, ran.findings) = InScope(me.cfg, now.findings)
        /\ ran.state \in {"SKIPPED", "PARTIAL"} => now.findings = <<>>
        /\ Usable(ran) => v.taken[t] # None \/ to[t].health = "ok"
    BY <1>11, <2>2 DEF t, AsNow
  <2>4. InScope(me.cfg, new) = CountOf(tr, to, me.cfg, v.taken, n + 1)
    <3>1. InScope(me.cfg, Counts(t, me.comments, ran.findings))
            = Counts(t, me.comments, InScope(me.cfg, ran.findings))
      BY OfFilesCounts DEF InScope, IsRun
    <3> QED
      BY <1>2, <1>3, <1>4, <2>1, <2>2, <2>3, <3>1 DEF CountOf
  <2>5. InScope(v.cfg, v.found) = SoFar(tr, to, v.cfg, v.taken, v.next - 1)
    <3>1. InScope(me.cfg, v.found) = InScope(me.cfg, me.found) \o InScope(me.cfg, new)
      BY <1>5, <1>6, <1>7, OfFilesConcat DEF InScope, Fields
    <3>3. MaybeTaken(me.taken, v.taken, n)
      BY <1>2, <1>41 DEF MaybeTaken
    <3>4. SoFar(tr, to, me.cfg, v.taken, n + 1)
            = SoFar(tr, to, me.cfg, me.taken, n) \o CountOf(tr, to, me.cfg, v.taken, n + 1)
      <4>1. Extends(tr, to, me.cfg, me.taken, v.taken, n)
        BY <1>1, <3>3, SoFarMore
      <4> QED
        BY <4>1 DEF Extends
    <3> QED
      BY <1>0, <1>1, <2>1, <2>4, <3>1, <3>4
  <2>6. Outcome(tr, to, v, t)
    <3>1. v.states[t] = state
      BY <1>2, <1>5, <1>7 DEF Fields
    <3>2. state \in {"SUCCESS", "EMPTY"} => Usable(ran)
      BY <1>3, <1>4 DEF RunStates, Usable, IsRun
    <3> QED
      BY <1>3, <1>4, <2>2, <2>3, <3>1, <3>2, <1>0 DEF Outcome
  <2>7. ASSUME NEW i \in 1..n  PROVE Outcome(tr, to, v, Providers[i])
    <3>1. Providers[i] # t /\ Providers[i] \in Tools
      BY <1>1, <1>2, ProvidersAre, CheckRunAssumption
    <3>2. v.states[Providers[i]] = me.states[Providers[i]]
      BY <1>5, <1>7, <3>1 DEF Fields
    <3>3. v.taken[Providers[i]] = me.taken[Providers[i]]
      BY <1>41, <3>1
    <3>4. Outcome(tr, to, me, Providers[i])
      BY <2>1
    <3> QED
      BY <1>0, <3>2, <3>3, <3>4 DEF Outcome
  <2> QED
    BY <1>0, <1>1, <1>2, <2>1, <2>5, <2>6, <2>7
<1>12. Gathered(tr, to, v)
  BY <1>11 DEF Gathered
<1> QED
  BY <1>8, <1>9, <1>10, <1>12 DEF Good

LEMMA FoundIs ==
  ASSUME NEW me, Shape(me), NEW ran, NEW v, v = Found(me, ran)
  PROVE  Adds(me, ran, v) /\ v.sound = me.sound /\ v.taken = me.taken
<1> DEFINE kept == CommentScopedRun(Provider(me), me.comments, ran)
           states == [me.states EXCEPT ![Provider(me)] = kept.state]
           found == me.found \o kept.findings
           next == me.next + 1
<1>1. Found(me, ran) =
        [me EXCEPT !.phase = "ask", !.next = next, !.ran = Skipped, !.crossed = FALSE,
                   !.states = states, !.found = found]
  BY DEF Found, Shape
<1> HIDE DEF states, found, next
<1>3. /\ v.phase = "ask" /\ v.next = next /\ v.cfg = me.cfg /\ v.comments = me.comments
      /\ v.keys = me.keys /\ v.hashes = me.hashes /\ v.stale = me.stale
      /\ v.disturbed = me.disturbed /\ v.sound = me.sound /\ v.taken = me.taken
      /\ v.states = states /\ v.found = found
  BY <1>1 DEF Shape
<1> QED
  BY <1>3 DEF next, states, found, kept, Adds

\* A row that fits its key, and its key the world.
LEMMA ReuseGood ==
  ASSUME NEW tr, TreeOk(tr), NEW to, ToolOk(to), NEW me, Shape(me), Good(tr, to, me),
         me.phase = "ask", me.next \in 1..Len(Providers), me.keys[Provider(me)] # None,
         NEW row, RowOk(row), row.tool = Provider(me), row.version = me.keys[Provider(me)],
         row.hash = me.hashes[Provider(me)],
         NEW sound, sound => me.sound /\ ~row.crossed,
         NEW taken, taken = [me.taken EXCEPT ![row.tool] = row.over],
         NEW v, v = [Found(me, row.ran) EXCEPT !.sound = sound, !.taken = taken]
  PROVE  Good(tr, to, v)
<1> DEFINE t == Provider(me)
<1>1. t \in Tools /\ IsRun(row.ran) /\ Usable(row.ran)
  BY DEF RowOk
<1>2. Shape(Found(me, row.ran))
  BY FoundHolds
<1>3. PICK w : w = Found(me, row.ran)
  OBVIOUS
<1>4. Shape(w) /\ Adds(me, row.ran, w)
  BY <1>2, <1>3, FoundIs
<1>5. /\ v.phase = w.phase /\ v.next = w.next /\ v.cfg = w.cfg /\ v.comments = w.comments
      /\ v.keys = w.keys /\ v.hashes = w.hashes /\ v.stale = w.stale
      /\ v.disturbed = w.disturbed /\ v.states = w.states /\ v.found = w.found
      /\ v.sound = sound /\ v.taken = taken
  <2>1. v = [w EXCEPT !.sound = sound, !.taken = taken]
    BY <1>3
  <2> QED
    BY <1>4, <2>1 DEF Shape
<1>51. Adds(me, row.ran, v) /\ v.cfg = me.cfg /\ v.stale = me.stale /\ v.disturbed = me.disturbed
  BY <1>4, <1>5 DEF Adds
<1>6. /\ v.taken = [y \in Tools |-> v.taken[y]] /\ v.taken[t] = row.over /\ row.over # None
      /\ \A y \in Tools : y # t => v.taken[y] = me.taken[y]
  BY <1>1, <1>5 DEF Good, Fields, RowOk
<1>7. v.sound => me.sound
  BY <1>5
<1>8. ASSUME ~v.disturbed, v.sound
      PROVE  AsNow(tr, to, me, row.ran, v.taken[t])
  <2>1. ~row.crossed
    BY <1>5, <1>8
  <2>2. ~me.stale
    BY <1>51, <1>8 DEF Good, Fields
  <2>3. me.keys[t] = to[t].version /\ me.hashes[t] = HashIn(tr, t, me.cfg)
    BY <1>1, <2>2 DEF Good, Current
  <2>4. Fits(t, to[t].version, HashIn(tr, t, me.cfg), row.over, row.ran)
    BY <2>1, <2>3 DEF RowOk
  <2>5. InScope(me.cfg, row.ran.findings) = Truth(tr, to, t, me.cfg, row.over)
    BY <1>1, <2>4, FitIsTruth
  <2>9. Heard(to, t, row.over) /\ Ranks(me.cfg, row.over) = row.over
    BY <1>6 DEF Heard, Ranks
  <2>12. t \in Tools
    BY <1>1
  <2> HIDE DEF t
  <2>6. NowIn(tr, to, t, me.cfg, row.over).findings = Truth(tr, to, t, me.cfg, row.over)
    BY <2>12, <2>9, NowIsTruth
  <2>7. InScope(me.cfg, Truth(tr, to, t, me.cfg, row.over)) = Truth(tr, to, t, me.cfg, row.over)
    BY <1>1, TruthInScope
  <2>8. row.ran.state \notin {"SKIPPED", "PARTIAL"}
    BY <1>1 DEF Usable
  <2>10. AsNow(tr, to, me, row.ran, row.over)
    BY <1>6, <2>5, <2>6, <2>7, <2>8 DEF AsNow, t
  <2> QED
    BY <1>6, <2>10
<1>9. ~v.disturbed /\ v.sound => AsNow(tr, to, me, row.ran, v.taken[t])
  BY <1>8
<1>10. IsRun(row.ran) /\ me.phase \in {"ask", "store"} /\ TakesOne(me, v)
  BY <1>1, <1>6 DEF TakesOne
<1> QED
  BY <1>10, <1>51, <1>7, <1>9, FoundGood

\* A run without the cache, or one that has just been stored.
LEMMA RanGood ==
  ASSUME NEW tr, TreeOk(tr), NEW to, ToolOk(to), NEW me, Shape(me), Good(tr, to, me),
         me.phase \in {"ask", "store"}, me.next \in 1..Len(Providers),
         NEW ran, IsRun(ran), ~me.disturbed => ran = RunIn(tr, to, Provider(me), me.cfg)
  PROVE  Good(tr, to, Found(me, ran))
<1> DEFINE t == Provider(me)
<1>1. t \in Tools /\ t = Providers[me.next]
  BY ProvidersAre DEF Provider
<1>2. PICK v : v = Found(me, ran)
  OBVIOUS
<1>3. Adds(me, ran, v) /\ v.sound = me.sound /\ v.taken = me.taken /\ v.disturbed = me.disturbed
  <2>1. Adds(me, ran, v) /\ v.sound = me.sound /\ v.taken = me.taken
    BY <1>2, FoundIs
  <2> QED
    BY <2>1 DEF Adds
<1>4. v.taken = [y \in Tools |-> v.taken[y]] /\ v.taken[t] = None
  <2>1. Fields(me) /\ me.next \in me.next..Len(Providers)
    BY ProvidersAre DEF Good
  <2> QED
    BY <1>1, <1>3, <2>1 DEF Fields
<1>5. ASSUME ~v.disturbed
      PROVE  AsNow(tr, to, me, ran, v.taken[t])
  <2>1. ran = RunIn(tr, to, t, me.cfg)
    BY <1>3, <1>5
  <2>3. /\ InScope(me.cfg, ran.findings) = InScope(me.cfg, NowIn(tr, to, t, me.cfg, None).findings)
        /\ ran.state \in {"SKIPPED", "PARTIAL"} => NowIn(tr, to, t, me.cfg, None).findings = <<>>
        /\ Usable(ran) => to[t].health = "ok"
    BY <1>1, <2>1, RunIsNow
  <2>4. AsNow(tr, to, me, ran, None)
    BY <2>3 DEF AsNow, t
  <2> QED
    BY <1>4, <2>4
<1>6. TakesOne(me, v)
  BY <1>3, <1>4 DEF TakesOne
<1> QED
  BY <1>2, <1>3, <1>5, <1>6, FoundGood

LEMMA RunGood ==
  ASSUME NEW tr, TreeOk(tr), NEW to, ToolOk(to), NEW me, Shape(me), Good(tr, to, me),
         me.phase = "ask", me.next \in 1..Len(Providers), me.keys[Provider(me)] # None,
         NEW ran, ran = RunIn(tr, to, Provider(me), me.cfg),
         NEW v, v = [me EXCEPT !.phase = "store", !.crossed = me.stale, !.ran = ran]
  PROVE  Good(tr, to, v)
<1> DEFINE t == Provider(me)
<1>1. t \in Tools
  BY ProvidersAre DEF Provider
<1>2. /\ v.phase = "store" /\ v.next = me.next /\ v.cfg = me.cfg /\ v.comments = me.comments
      /\ v.keys = me.keys /\ v.hashes = me.hashes /\ v.stale = me.stale
      /\ v.disturbed = me.disturbed /\ v.sound = me.sound /\ v.taken = me.taken
      /\ v.states = me.states /\ v.found = me.found /\ v.crossed = me.stale /\ v.ran = ran
  BY DEF Shape
<1>3. Fields(v)
  BY <1>2 DEF Good, Fields
<1>4. Current(tr, to, v)
  BY <1>2 DEF Good, Current
<1>5. AtHand(tr, to, v)
  <2>1. IsRun(v.ran)
    BY <1>1, <1>2, RunIsRun
  <2>2. Provider(v) = t
    BY <1>2 DEF Provider
  <2>3. ASSUME ~v.crossed, Usable(v.ran)
        PROVE  Fits(t, v.keys[t], v.hashes[t], v.cfg.over, v.ran)
    <3>1. me.keys[t] = to[t].version /\ me.hashes[t] = HashIn(tr, t, me.cfg)
      BY <1>1, <1>2, <2>3 DEF Good, Current
    <3>2. Fits(t, to[t].version, HashIn(tr, t, me.cfg), me.cfg.over, ran)
      BY <1>1, <1>2, <2>3, RunFits
    <3> QED
      BY <1>2, <3>1, <3>2
  <2> HIDE DEF t
  <2> QED
    BY <1>2, <2>1, <2>2, <2>3 DEF AtHand, t
<1>6. Gathered(tr, to, v)
  BY <1>2 DEF Good, Gathered, Outcome
<1>7. Shows(tr, to, v) /\ Accepting(tr, to, v)
  BY <1>2 DEF Shows, Accepting
<1> QED
  BY <1>3, <1>4, <1>5, <1>6, <1>7 DEF Good

\* A check sees of a configuration what it walks, marks and overrides.
LEMMA SameScope ==
  ASSUME NEW cfg \in Configs, NEW d, d = [cfg EXCEPT !.failOn = Info]
  PROVE  /\ d.over = cfg.over /\ d.markers = cfg.markers
         /\ Universe(d) = Universe(cfg) /\ Walked(d) = Walked(cfg)
<1>1. cfg = [over |-> cfg.over, markers |-> cfg.markers, ignore |-> cfg.ignore, failOn |-> cfg.failOn]
  BY WorldAssumption
<1>2. d.over = cfg.over /\ d.markers = cfg.markers /\ d.ignore = cfg.ignore
  BY <1>1
<1>3. Universe(d) = Universe(cfg)
  BY <1>2 DEF Universe
<1> QED
  BY <1>2, <1>3 DEF Walked

LEMMA FuseScope ==
  ASSUME NEW cfg, NEW d, NEW comments, NEW found, NEW given, InScope(cfg, found) = InScope(d, given)
  PROVE  Fuse(cfg, comments, found) = Fuse(d, comments, given)
<1> DEFINE F(x) == LET attached == AttachFindings(comments, x)
                   IN  [n \in 1..Len(comments) |->
                         [attached[n] EXCEPT !.findings = DedupFindings(attached[n].findings)]]
<1>1. Fuse(cfg, comments, found) = F(InScope(cfg, found))
  BY DEF Fuse
<1>2. Fuse(d, comments, given) = F(InScope(d, given))
  BY DEF Fuse
<1> HIDE DEF F
<1> QED
  BY <1>1, <1>2

LEMMA FinishGood ==
  ASSUME NEW tr, TreeOk(tr), NEW to, ToolOk(to), NEW me, Shape(me), Good(tr, to, me),
         me.phase = "ask", me.next > Len(Providers),
         NEW loaded, NEW told, \A w \in told : Accepts(loaded, w),
         NEW v, v = [me EXCEPT !.phase = "report", !.keys = None, !.hashes = None,
                               !.comments = Fuse(me.cfg, me.comments, me.found),
                               !.found = Unattached(me.comments, InScope(me.cfg, me.found)),
                               !.loaded = loaded, !.told = told]
  PROVE  Good(tr, to, v)
<1> DEFINE comments == Fuse(me.cfg, me.comments, me.found)
           found == Unattached(me.comments, InScope(me.cfg, me.found))
<1>1. /\ v.phase = "report" /\ v.next = me.next /\ v.states = me.states /\ v.found = found
      /\ v.taken = me.taken /\ v.cfg = me.cfg /\ v.comments = comments /\ v.stale = me.stale
      /\ v.disturbed = me.disturbed /\ v.sound = me.sound /\ v.loaded = loaded /\ v.told = told
  <2> HIDE DEF comments, found
  <2>1. v = [me EXCEPT !.phase = "report", !.keys = None, !.hashes = None,
                               !.comments = comments, !.found = found,
                               !.loaded = loaded, !.told = told]
    BY DEF comments, found
  <2> QED
    BY <2>1 DEF Shape
<1> HIDE DEF comments, found
<1>2. Fields(v)
  BY <1>1 DEF Good, Fields
<1>3. Current(tr, to, v) /\ AtHand(tr, to, v) /\ Gathered(tr, to, v)
  BY <1>1 DEF Current, AtHand, Gathered
<1>4. Accepting(tr, to, v)
  BY <1>1 DEF Accepting
<1>5. ASSUME ~v.disturbed, v.sound
      PROVE  LET all == SoFar(tr, to, v.cfg, v.taken, Len(Providers))
             IN  /\ v.comments = Fuse(v.cfg, ScanIn(tr, v.cfg), all)
                 /\ v.found = Unattached(ScanIn(tr, v.cfg), all)
                 /\ \A t \in Tools : Outcome(tr, to, v, t)
  <2>1. me.next - 1 = Len(Providers) /\ Len(Providers) \in 0..Len(Providers)
    BY ProvidersAre DEF Good, Fields
  <2>2. PICK all : all = SoFar(tr, to, me.cfg, me.taken, Len(Providers))
    OBVIOUS
  <2>3. /\ me.comments = ScanIn(tr, me.cfg)
        /\ InScope(me.cfg, me.found) = all
        /\ \A i \in 1..Len(Providers) : Outcome(tr, to, me, Providers[i])
    BY <1>1, <1>5, <2>1, <2>2 DEF Good, Gathered
  <2>4. InScope(me.cfg, all) = all
    BY <2>1, <2>2, SoFarInScope
  <2>5. Fuse(me.cfg, me.comments, me.found) = Fuse(me.cfg, me.comments, all)
    BY <2>3, <2>4, FuseScope
  <2>6. ASSUME NEW t \in Tools  PROVE Outcome(tr, to, v, t)
    <3>1. Outcome(tr, to, me, t)
      BY <2>3, ProvidersAre
    <3> QED
      BY <1>1, <3>1 DEF Outcome
  <2> QED
    BY <1>1, <2>2, <2>3, <2>5, <2>6 DEF comments, found
<1>6. Shows(tr, to, v)
  BY <1>5 DEF Shows
<1> QED
  BY <1>2, <1>3, <1>4, <1>6 DEF Good

\* A check that every provider answered, in a world that stood still, shows all
\* of it.
LEMMA ShownIsFull ==
  ASSUME NEW tr, TreeOk(tr), NEW to, ToolOk(to), NEW me, Good(tr, to, me),
         me.phase = "report", Trusted(me)
  PROVE  me.comments = Full(WorldIn(tr, to, me))
<1> DEFINE n == Len(Providers)
           cfg == me.cfg
<1>1. PICK d : d = [cfg EXCEPT !.failOn = Info]
  OBVIOUS
<1>2. cfg \in Configs
  BY DEF Good, Fields
<1>3. /\ d.over = cfg.over /\ d.markers = cfg.markers
      /\ Universe(d) = Universe(cfg) /\ Walked(d) = Walked(cfg)
  BY <1>1, <1>2, SameScope
<1>4. PICK w : w = WorldIn(tr, to, me)
  OBVIOUS
<1>5. /\ w.tree = tr /\ w.tool = to /\ w.cfg = d
      /\ w.ranks = [t \in Tools |-> Ranks(cfg, me.taken[t])]
      /\ w.heard = {t \in Tools : me.states[t] \in {"SUCCESS", "EMPTY"}}
  BY <1>1, <1>4 DEF WorldIn
<1>6. ScanIn(tr, d) = ScanIn(tr, cfg)
  BY <1>3 DEF ScanIn
<1> DEFINE ss == [i \in 1..n |-> CountOf(tr, to, cfg, me.taken, i)]
           tt == [i \in 1..n |-> Counts(Providers[i], ScanIn(tr, d), Said(w, Providers[i]))]
<1>7. ASSUME NEW i \in 1..n
      PROVE  ss[i] = tt[i]
  <2> DEFINE t == Providers[i]
  <2>1. t \in Tools
    BY ProvidersAre
  <2>2. PICK from : from = me.taken[t]
    OBVIOUS
  <2>3. Outcome(tr, to, me, t)
    BY <2>1 DEF Good, Shows, Trusted
  <2>4. NowIn(tr, to, t, cfg, from).findings = Said(w, t)
    <3>1. CASE t \in w.heard
      <4>1. Said(w, t) = Truth(tr, to, t, cfg, Ranks(cfg, from))
        BY <1>3, <1>5, <2>1, <2>2, <3>1 DEF Said, Truth
      <4>2. Heard(to, t, from)
        BY <1>5, <2>2, <2>3, <3>1 DEF Outcome, Heard
      <4> QED
        BY <2>1, <4>1, <4>2, NowIsTruth
    <3>2. CASE t \notin w.heard
      <4>1. me.states[t] \in {"SKIPPED", "PARTIAL"}
        BY <1>5, <2>1, <2>3, <3>2 DEF Outcome, RunStates
      <4> QED
        BY <2>2, <2>3, <3>2, <4>1 DEF Outcome, Said
    <3> QED
      BY <3>1, <3>2
  <2>5. InScope(cfg, Said(w, t)) = Said(w, t)
    <3>1. InScope(cfg, <<>>) = <<>>
      BY KeepOfNone DEF InScope, OfFiles
    <3>2. Truth(tr, to, t, d, w.ranks[t]) = Truth(tr, to, t, cfg, w.ranks[t])
      BY <1>3 DEF Truth
    <3>3. InScope(cfg, Truth(tr, to, t, cfg, w.ranks[t])) = Truth(tr, to, t, cfg, w.ranks[t])
      BY <2>1, TruthInScope
    <3> QED
      BY <1>5, <3>1, <3>2, <3>3 DEF Said
  <2>8. CountOf(tr, to, cfg, me.taken, i) = Counts(t, ScanIn(tr, cfg), Said(w, t))
    BY <2>2, <2>4, <2>5 DEF CountOf
  <2> QED
    BY <1>6, <2>8
<1>8. ss = tt
  BY <1>7
<1>9. SoFar(tr, to, cfg, me.taken, n) = FlattenSeq(tt)
  <2>1. n \in 0..n
    BY ProvidersAre
  <2>2. SoFar(tr, to, cfg, me.taken, n) = FlattenSeq(ss)
    BY <2>1, SoFarLists
  <2> HIDE DEF ss, tt
  <2> QED
    BY <1>8, <2>2
<1>10. Full(w) = Fuse(d, ScanIn(tr, d), FlattenSeq(tt))
  BY <1>5 DEF Full
<1> HIDE DEF tt
<1>11. me.comments = Fuse(cfg, ScanIn(tr, cfg), FlattenSeq(tt))
  BY <1>9 DEF Good, Shows, Trusted
<1>12. InScope(cfg, FlattenSeq(tt)) = InScope(d, FlattenSeq(tt))
  BY <1>3 DEF InScope
<1>13. Fuse(cfg, ScanIn(tr, cfg), FlattenSeq(tt)) = Fuse(d, ScanIn(tr, cfg), FlattenSeq(tt))
  BY <1>12, FuseScope
<1> QED
  BY <1>4, <1>6, <1>10, <1>11, <1>13

\* What `baseline accept` writes accepts the world, when the check can be trusted.
LEMMA AcceptGood ==
  ASSUME NEW tr, TreeOk(tr), NEW to, ToolOk(to), NEW me, Shape(me), Good(tr, to, me),
         me.phase = "report",
         NEW v, v = [me EXCEPT !.phase = "write", !.op = "accept", !.entries = Accept(me.comments)]
  PROVE  Good(tr, to, v)
<1> DEFINE accepted == Accept(me.comments)
<1>1. /\ v.phase = "write" /\ v.next = me.next /\ v.states = me.states /\ v.taken = me.taken
      /\ v.cfg = me.cfg /\ v.stale = me.stale /\ v.disturbed = me.disturbed
      /\ v.sound = me.sound /\ v.entries = accepted
  <2> HIDE DEF accepted
  <2>1. v = [me EXCEPT !.phase = "write", !.op = "accept", !.entries = accepted]
    BY DEF accepted
  <2> QED
    BY <2>1 DEF Shape
<1>2. Fields(v)
  BY <1>1 DEF Good, Fields
<1>3. Current(tr, to, v) /\ AtHand(tr, to, v) /\ Gathered(tr, to, v) /\ Shows(tr, to, v)
  BY <1>1 DEF Current, AtHand, Gathered, Shows
<1>4. ASSUME Trusted(v)
      PROVE  Accepts(v.entries, WorldIn(tr, to, v))
  <2>1. Trusted(me)
    BY <1>1, <1>4 DEF Trusted
  <2>2. me.comments = Full(WorldIn(tr, to, me))
    BY <2>1, ShownIsFull
  <2>9. WorldIn(tr, to, v) = WorldIn(tr, to, me)
    BY <1>1 DEF WorldIn
  <2> QED
    BY <1>1, <2>2, <2>9 DEF Accepts
<1>5. Accepting(tr, to, v)
  BY <1>1, <1>4 DEF Accepting
<1> QED
  BY <1>2, <1>3, <1>5 DEF Good

\* What `baseline prune` leaves still accepts what the file accepted.
LEMMA PruneGood ==
  ASSUME NEW tr, TreeOk(tr), NEW to, ToolOk(to), NEW me, Shape(me), Good(tr, to, me),
         me.phase = "report",
         NEW loaded, NEW told, \A w \in told : Accepts(loaded, w),
         NEW v, v = [me EXCEPT !.phase = "write", !.op = "prune", !.loaded = loaded,
                               !.told = told, !.entries = Prune(loaded, me.comments)]
  PROVE  Good(tr, to, v)
<1> DEFINE left == Prune(loaded, me.comments)
<1>1. /\ v.phase = "write" /\ v.op = "prune" /\ v.next = me.next /\ v.states = me.states
      /\ v.taken = me.taken /\ v.cfg = me.cfg /\ v.stale = me.stale /\ v.disturbed = me.disturbed
      /\ v.sound = me.sound /\ v.entries = left /\ v.told = told
  <2> HIDE DEF left
  <2>1. v = [me EXCEPT !.phase = "write", !.op = "prune", !.loaded = loaded,
                       !.told = told, !.entries = left]
    BY DEF left
  <2> QED
    BY <2>1 DEF Shape
<1>2. Fields(v)
  BY <1>1 DEF Good, Fields
<1>3. Current(tr, to, v) /\ AtHand(tr, to, v) /\ Gathered(tr, to, v) /\ Shows(tr, to, v)
  BY <1>1 DEF Current, AtHand, Gathered, Shows
<1>4. ASSUME Trusted(v), WorldIn(tr, to, v) \in v.told
      PROVE  Accepts(v.entries, WorldIn(tr, to, v))
  <2>1. Trusted(me)
    BY <1>1, <1>4 DEF Trusted
  <2>2. me.comments = Full(WorldIn(tr, to, me))
    BY <2>1, ShownIsFull
  <2>9. WorldIn(tr, to, v) = WorldIn(tr, to, me)
    BY <1>1 DEF WorldIn
  <2>3. Accept(me.comments) \subseteq loaded
    BY <1>1, <1>4, <2>2, <2>9 DEF Accepts
  <2>4. Accept(me.comments) \subseteq Prune(loaded, me.comments)
    BY <2>3 DEF Accept, Prune
  <2> QED
    BY <1>1, <2>2, <2>4, <2>9 DEF Accepts
<1>5. Accepting(tr, to, v)
  BY <1>1, <1>4 DEF Accepting
<1> QED
  BY <1>2, <1>3, <1>5 DEF Good

LEMMA TruncateGood ==
  ASSUME NEW tr, NEW to, NEW me, Shape(me), Good(tr, to, me), me.phase = "write",
         NEW v, v = [me EXCEPT !.phase = "fill", !.comments = <<>>, !.found = <<>>, !.loaded = {}]
  PROVE  Good(tr, to, v)
<1>1. /\ v.phase = "fill" /\ v.op = me.op /\ v.next = me.next /\ v.states = me.states
      /\ v.taken = me.taken /\ v.cfg = me.cfg /\ v.stale = me.stale /\ v.disturbed = me.disturbed
      /\ v.sound = me.sound /\ v.entries = me.entries /\ v.told = me.told
  BY DEF Shape
<1>2. Fields(v)
  BY <1>1 DEF Good, Fields
<1>3. Current(tr, to, v) /\ AtHand(tr, to, v) /\ Gathered(tr, to, v) /\ Shows(tr, to, v)
  BY <1>1 DEF Current, AtHand, Gathered, Shows
<1>4. (Trusted(v) <=> Trusted(me)) /\ WorldIn(tr, to, v) = WorldIn(tr, to, me)
  BY <1>1 DEF Trusted, WorldIn
<1>5. Accepting(tr, to, v)
  BY <1>1, <1>4 DEF Good, Accepting
<1> QED
  BY <1>2, <1>3, <1>5 DEF Good

-----------------------------------------------------------------------------
(* Another world                                                            *)

LEMMA IdleStaysGood ==
  ASSUME NEW tr, NEW to, NEW tr2, NEW to2, NEW me, Good(tr, to, me), me.phase = "idle"
  PROVE  Good(tr2, to2, me)
BY DEF Good, Fields, Current, AtHand, Gathered, Shows, Accepting

Disturbed(me) == [me EXCEPT !.disturbed = TRUE, !.stale = me.phase \in {"ask", "store"}]

LEMMA DisturbGood ==
  ASSUME NEW tr, NEW to, NEW tr2, NEW to2, NEW me, Shape(me), Good(tr, to, me), me.phase # "idle"
  PROVE  Good(tr2, to2, Disturbed(me))
<1>1. PICK v : v = Disturbed(me)
  OBVIOUS
<1>2. /\ v.phase = me.phase /\ v.next = me.next /\ v.states = me.states /\ v.found = me.found
      /\ v.taken = me.taken /\ v.cfg = me.cfg /\ v.keys = me.keys /\ v.hashes = me.hashes
      /\ v.ran = me.ran /\ v.crossed = me.crossed /\ v.sound = me.sound
      /\ v.loaded = me.loaded /\ v.told = me.told /\ v.disturbed = TRUE
  BY <1>1 DEF Shape, Disturbed
<1>3. v.stale = (me.phase \in {"ask", "store"})
  BY <1>1 DEF Shape, Disturbed
<1>4. v.phase \in {"ask", "store"} => v.stale
  BY <1>2, <1>3
<1>5. v.phase = "walked" => ~v.stale
  BY <1>2, <1>3
<1>6. Fields(v)
  BY <1>2, <1>5 DEF Good, Fields
<1>7. Current(tr2, to2, v)
  BY <1>4 DEF Current
<1>8. Provider(v) = Provider(me)
  BY <1>2 DEF Provider
<1>9. AtHand(tr2, to2, v)
  BY <1>2, <1>8 DEF Good, AtHand
<1>10. Gathered(tr2, to2, v) /\ Shows(tr2, to2, v)
  BY <1>2 DEF Gathered, Shows
<1>11. Accepting(tr2, to2, v)
  BY <1>2 DEF Good, Accepting, Trusted
<1> QED
  BY <1>1, <1>6, <1>7, <1>9, <1>10, <1>11 DEF Good

-----------------------------------------------------------------------------
(* The invariant holds                                                      *)

\* The operators of a check are those of its world.
LEMMA InThisWorld ==
  /\ \A cfg : Scan(cfg) = ScanIn(tree, cfg)
  /\ \A t, cfg : ProviderRun(t, cfg) = RunIn(tree, tool, t, cfg)
  /\ \A t, cfg : InputHash(t, cfg) = HashIn(tree, t, cfg)
  /\ \A v : World(v) = WorldIn(tree, tool, v)
<1>1. ASSUME NEW cfg  PROVE Scan(cfg) = ScanIn(tree, cfg)
  BY DEF Scan, ScanIn, ScanOf
<1>2. ASSUME NEW t, NEW cfg  PROVE ProviderRun(t, cfg) = RunIn(tree, tool, t, cfg)
  BY DEF ProviderRun, RunIn, ContentHash, HashOf
<1>3. ASSUME NEW t, NEW cfg  PROVE InputHash(t, cfg) = HashIn(tree, t, cfg)
  BY DEF InputHash, HashIn, ContentHash, HashOf
<1>4. ASSUME NEW v  PROVE World(v) = WorldIn(tree, tool, v)
  BY DEF World, WorldIn
<1> QED
  BY <1>1, <1>2, <1>3, <1>4

\* A step of one runner that leaves the rest alone.
LEMMA BecomeRight ==
  ASSUME Holds, Right, NEW r \in Runners, NEW v, Become(r, v), Good(tree, tool, v),
         UNCHANGED <<tree, config, tool, rows, baseline, agreed>>
  PROVE  Right'
<1>1. \A q \in Runners : run'[q] = IF q = r THEN v ELSE run[q]
  BY DEF Become, Holds
<1>2. \A q \in Runners : Good(tree, tool, run'[q])
  BY <1>1 DEF Right
<1>3. \A q \in Runners : Good(tree', tool', run'[q])
  BY <1>2
<1> QED
  BY <1>3 DEF Right

LEMMA RightInit == Init => Right
<1> SUFFICES ASSUME Init  PROVE Right
  OBVIOUS
<1>1. TreeOk(tree)
  BY DEF Init, TreeOk
<1>2. config \in Configs
  BY WorldAssumption DEF Init
<1>3. ToolOk(tool)
  <2> DEFINE v == CHOOSE v \in Versions : TRUE
  <2>1. v \in Versions
    BY WorldAssumption
  <2>2. tool = [t \in Tools |-> [version |-> v, health |-> "ok"]]
    BY DEF Init
  <2> HIDE DEF v
  <2> QED
    BY <2>1, <2>2 DEF ToolOk, Healths
<1>4. rows = {} /\ agreed = {} /\ run = [r \in Runners |-> Idle]
  BY DEF Init
<1>5. \A r \in Runners : Good(tree, tool, run[r])
  <2> HIDE DEF Idle
  <2>1. \A r \in Runners : run[r] = Idle
    BY <1>4
  <2> QED
    BY <2>1, IdleGood
<1> QED
  BY <1>1, <1>2, <1>3, <1>4, <1>5 DEF Right

LEMMA KeysRight ==
  ASSUME Holds, Right, NEW r \in Runners, ComputeKeys(r)
  PROVE  Right'
<1> DEFINE me == run[r]
<1>0. Shape(me) /\ Good(tree, tool, me) /\ me.phase = "walked"
  BY DEF Holds, Right, ComputeKeys
<1>1. UNCHANGED <<tree, config, tool, rows, baseline, agreed>>
  BY DEF ComputeKeys
<1>2. CASE Become(r, [me EXCEPT !.phase = "ask", !.stale = FALSE,
                        !.keys = [t \in Tools |-> VersionKey(t)],
                        !.hashes = [t \in Tools |-> InputHash(t, me.cfg)]])
  <2> DEFINE keys == [t \in Tools |-> VersionKey(t)]
             hashes == [t \in Tools |-> InputHash(t, me.cfg)]
  <2>1. \A t \in Tools : keys[t] # None => keys[t] = tool[t].version /\ hashes[t] = HashIn(tree, t, me.cfg)
    BY InThisWorld DEF VersionKey
  <2>2. PICK v : v = [me EXCEPT !.phase = "ask", !.stale = FALSE, !.keys = keys, !.hashes = hashes]
    OBVIOUS
  <2>3. Become(r, v)
    BY <1>2, <2>2
  <2> HIDE DEF keys, hashes
  <2>4. Good(tree, tool, v)
    BY <1>0, <2>1, <2>2, KeysGood
  <2> QED
    BY <1>1, <2>3, <2>4, BecomeRight
<1>3. CASE Become(r, [me EXCEPT !.phase = "ask", !.keys = [t \in Tools |-> None]])
  <2> DEFINE keys == [t \in Tools |-> None]
  <2>1. \A t \in Tools : keys[t] = None
    OBVIOUS
  <2>2. PICK v : v = [me EXCEPT !.phase = "ask", !.keys = keys]
    OBVIOUS
  <2>3. Become(r, v)
    BY <1>3, <2>2
  <2> HIDE DEF keys
  <2>4. v = [me EXCEPT !.phase = "ask", !.stale = FALSE, !.keys = keys, !.hashes = me.hashes]
    <3>1. me.stale = FALSE
      BY <1>0 DEF Good, Fields
    <3> QED
      BY <1>0, <2>2, <3>1 DEF Shape
  <2>5. Good(tree, tool, v)
    BY <1>0, <2>1, <2>4, KeysGood
  <2> QED
    BY <1>1, <2>3, <2>5, BecomeRight
<1> QED
  BY <1>2, <1>3 DEF ComputeKeys

LEMMA ReuseRight ==
  ASSUME Holds, Right, NEW r \in Runners, Reuse(r)
  PROVE  Right'
<1> DEFINE me == run[r]
<1>0. /\ Shape(me) /\ Good(tree, tool, me) /\ TreeOk(tree) /\ ToolOk(tool)
      /\ me.phase = "ask" /\ me.next <= Len(Providers) /\ me.keys[Provider(me)] # None
      /\ UNCHANGED <<tree, config, tool, rows, baseline, agreed>>
  BY DEF Holds, Right, Reuse
<1>1. PICK row \in RowFor(me) :
        Become(r, [Found(me, row.ran) EXCEPT
                     !.sound = @ /\ ~row.crossed,
                     !.taken = [@ EXCEPT ![row.tool] = row.over]])
  BY DEF Reuse
<1>2. /\ RowOk(row) /\ row.tool = Provider(me) /\ row.version = me.keys[Provider(me)]
      /\ row.hash = me.hashes[Provider(me)]
  BY DEF Right, RowFor
<1>3. PICK w : w = Found(me, row.ran)
  OBVIOUS
<1>4. w.sound = me.sound /\ w.taken = me.taken
  BY <1>0, <1>3, FoundIs
<1> DEFINE sound == w.sound /\ ~row.crossed
           taken == [me.taken EXCEPT ![row.tool] = row.over]
<1>5. sound => me.sound /\ ~row.crossed
  BY <1>4
<1>6. PICK v : v = [Found(me, row.ran) EXCEPT !.sound = sound, !.taken = taken]
  OBVIOUS
<1>7. Become(r, v)
  <2>1. [Found(me, row.ran) EXCEPT !.sound = @ /\ ~row.crossed,
                     !.taken = [@ EXCEPT ![row.tool] = row.over]]
          = [w EXCEPT !.sound = sound, !.taken = [w.taken EXCEPT ![row.tool] = row.over]]
    BY <1>3
  <2>2. v = [w EXCEPT !.sound = sound, !.taken = [w.taken EXCEPT ![row.tool] = row.over]]
    BY <1>3, <1>4, <1>6
  <2> QED
    BY <1>1, <2>1, <2>2
<1>8. me.next \in 1..Len(Providers)
  BY <1>0, ProvidersAre DEF Good, Fields
<1>50. taken = [me.taken EXCEPT ![row.tool] = row.over]
  OBVIOUS
<1> HIDE DEF sound, taken
<1>9. Good(tree, tool, v)
  BY <1>0, <1>2, <1>5, <1>50, <1>6, <1>8, ReuseGood
<1> QED
  BY <1>0, <1>7, <1>9, BecomeRight

LEMMA RunRight ==
  ASSUME Holds, Right, NEW r \in Runners, RunProvider(r)
  PROVE  Right'
<1> DEFINE me == run[r]
           t == Provider(me)
<1>0. /\ Shape(me) /\ Good(tree, tool, me) /\ TreeOk(tree) /\ ToolOk(tool)
      /\ me.phase = "ask" /\ me.next <= Len(Providers)
      /\ UNCHANGED <<tree, config, tool, rows, baseline, agreed>>
  BY DEF Holds, Right, RunProvider
<1>1. me.next \in 1..Len(Providers)
  BY <1>0, ProvidersAre DEF Good, Fields
<1>2. PICK ran : ran = RunIn(tree, tool, t, me.cfg)
  OBVIOUS
<1>3. ProviderRun(t, me.cfg) = ran
  BY <1>2, InThisWorld
<1>4. CASE me.keys[t] = None
  <2>1. Become(r, Found(me, ran))
    BY <1>3, <1>4 DEF RunProvider
  <2>2. t \in Tools
    BY <1>1, ProvidersAre DEF Provider
  <2>3. IsRun(ran)
    BY <1>0, <1>2, <2>2, RunIsRun
  <2>4. Good(tree, tool, Found(me, ran))
    BY <1>0, <1>1, <1>2, <2>3, RanGood
  <2> QED
    BY <1>0, <2>1, <2>4, BecomeRight
<1>5. CASE me.keys[t] # None
  <2>1. PICK v : v = [me EXCEPT !.phase = "store", !.crossed = me.stale, !.ran = ran]
    OBVIOUS
  <2>2. Become(r, v)
    BY <1>3, <1>5, <2>1 DEF RunProvider
  <2>3. Good(tree, tool, v)
    BY <1>0, <1>1, <1>2, <1>5, <2>1, RunGood
  <2> QED
    BY <1>0, <2>2, <2>3, BecomeRight
<1> QED
  BY <1>4, <1>5

LEMMA StoreRight ==
  ASSUME Holds, Right, NEW r \in Runners, StoreResult(r)
  PROVE  Right'
<1> DEFINE me == run[r]
           t == Provider(me)
           row == [tool |-> t, version |-> me.keys[t], hash |-> me.hashes[t], ran |-> me.ran,
                   over |-> me.cfg.over, crossed |-> me.crossed]
<1>0. /\ Shape(me) /\ Good(tree, tool, me) /\ TreeOk(tree) /\ ToolOk(tool)
      /\ me.phase = "store" /\ Become(r, Found(me, me.ran))
      /\ UNCHANGED <<tree, config, tool, baseline, agreed>>
  BY DEF Holds, Right, StoreResult
<1>1. me.next \in 1..Len(Providers)
  BY <1>0, ProvidersAre DEF Good, Fields
<1>2. t \in Tools
  BY <1>1, ProvidersAre DEF Provider
<1>3. IsRun(me.ran) /\ (~me.disturbed => me.ran = RunIn(tree, tool, t, me.cfg))
  BY <1>0 DEF Good, AtHand
<1>4. Good(tree, tool, Found(me, me.ran))
  BY <1>0, <1>1, <1>3, RanGood
<1>5. ASSUME Usable(me.ran)  PROVE RowOk(row)
  <2>1. ~me.crossed => Fits(t, me.keys[t], me.hashes[t], me.cfg.over, me.ran)
    BY <1>0, <1>5 DEF Good, AtHand
  <2>2. PICK x : x = row
    OBVIOUS
  <2>3. /\ x.tool = t /\ x.version = me.keys[t] /\ x.hash = me.hashes[t] /\ x.ran = me.ran
        /\ x.over = me.cfg.over /\ x.crossed = me.crossed
    BY <2>2
  <2>5. me.cfg.over # None
    BY <1>0, WorldAssumption DEF Good, Fields
  <2>4. RowOk(x)
    BY <1>2, <1>3, <1>5, <2>1, <2>3, <2>5 DEF RowOk
  <2> QED
    BY <2>2, <2>4
<1>6. \A x \in rows' : RowOk(x)
  <2>1. rows' \subseteq rows \/ (Usable(me.ran) /\ rows' \subseteq rows \cup {row})
    BY DEF StoreResult
  <2> QED
    BY <1>5, <2>1 DEF Right
<1>7. \A q \in Runners : run'[q] = IF q = r THEN Found(me, me.ran) ELSE run[q]
  BY <1>0 DEF Become, Holds
<1>8. \A q \in Runners : Good(tree, tool, run'[q])
  BY <1>4, <1>7 DEF Right
<1>9. \A q \in Runners : Good(tree', tool', run'[q])
  BY <1>0, <1>8
<1> QED
  BY <1>0, <1>6, <1>9 DEF Right

LEMMA FinishRight ==
  ASSUME Holds, Right, NEW r \in Runners, Finish(r)
  PROVE  Right'
<1> DEFINE me == run[r]
<1>0. /\ Shape(me) /\ Good(tree, tool, me) /\ TreeOk(tree) /\ ToolOk(tool)
      /\ me.phase = "ask" /\ me.next > Len(Providers)
      /\ UNCHANGED <<tree, config, tool, rows, baseline, agreed>>
  BY DEF Holds, Right, Finish
<1>1. CASE baseline = Torn
  BY <1>0, <1>1, IdleGood, BecomeRight DEF Finish
<1>2. CASE baseline # Torn
  <2> DEFINE loaded == IF baseline = None THEN {} ELSE baseline
             told == IF baseline = None THEN {} ELSE agreed
  <2>1. \A w \in told : Accepts(loaded, w)
    BY DEF Right
  <2>2. PICK v : v = [me EXCEPT !.phase = "report", !.keys = None, !.hashes = None,
                                !.comments = Fuse(me.cfg, me.comments, me.found),
                                !.found = Unattached(me.comments, InScope(me.cfg, me.found)),
                                !.loaded = loaded, !.told = told]
    OBVIOUS
  <2>3. Become(r, v)
    BY <1>2, <2>2 DEF Finish
  <2> HIDE DEF loaded, told
  <2>4. Good(tree, tool, v)
    BY <1>0, <2>1, <2>2, FinishGood
  <2> QED
    BY <1>0, <2>3, <2>4, BecomeRight
<1> QED
  BY <1>1, <1>2

LEMMA PrepareRight ==
  ASSUME Holds, Right, NEW r \in Runners, Prepare(r)
  PROVE  Right'
<1> DEFINE me == run[r]
<1>0. /\ Shape(me) /\ Good(tree, tool, me) /\ TreeOk(tree) /\ ToolOk(tool)
      /\ me.phase = "report"
      /\ UNCHANGED <<tree, config, tool, rows, baseline, agreed>>
  BY DEF Holds, Right, Prepare
<1>1. PICK a : a = [me EXCEPT !.phase = "write", !.op = "accept", !.entries = Accept(me.comments)]
  OBVIOUS
<1>2. PICK p : p = [me EXCEPT !.phase = "write", !.op = "prune", !.loaded = baseline,
                              !.told = agreed, !.entries = Prune(baseline, me.comments)]
  OBVIOUS
<1>3. Become(r, Idle) \/ Become(r, a) \/ Become(r, p)
  BY <1>1, <1>2 DEF Prepare
<1>4. Good(tree, tool, a)
  BY <1>0, <1>1, AcceptGood
<1>5. Good(tree, tool, p)
  <2>1. \A w \in agreed : Accepts(baseline, w)
    BY DEF Right
  <2> QED
    BY <1>0, <1>2, <2>1, PruneGood
<1> QED
  BY <1>0, <1>3, <1>4, <1>5, IdleGood, BecomeRight

LEMMA WriteRight ==
  ASSUME Holds, Right, NEW r \in Runners, Truncate(r) \/ Fill(r)
  PROVE  Right'
<1> DEFINE me == run[r]
<1>0. Shape(me) /\ Good(tree, tool, me)
  BY DEF Holds, Right
<1>1. UNCHANGED <<tree, config, tool, rows>>
  BY DEF Truncate, Fill
<1>2. ASSUME NEW v, Become(r, v), Good(tree, tool, v)
      PROVE  \A q \in Runners : Good(tree', tool', run'[q])
  <2>1. \A q \in Runners : run'[q] = IF q = r THEN v ELSE run[q]
    BY <1>2 DEF Become, Holds
  <2>2. \A q \in Runners : Good(tree, tool, run'[q])
    BY <1>2, <2>1 DEF Right
  <2> QED
    BY <1>1, <2>2
<1>3. CASE Truncate(r)
  <2>1. PICK v : v = [me EXCEPT !.phase = "fill", !.comments = <<>>, !.found = <<>>, !.loaded = {}]
    OBVIOUS
  <2>2. Become(r, v) /\ agreed' = {} /\ me.phase = "write"
    BY <1>3, <2>1 DEF Truncate
  <2>3. Good(tree, tool, v)
    BY <1>0, <2>1, <2>2, TruncateGood
  <2> QED
    BY <1>1, <1>2, <2>2, <2>3 DEF Right
<1>4. CASE Fill(r)
  <2>1. Become(r, Idle) /\ baseline' = me.entries /\ me.phase = "fill"
    BY <1>4 DEF Fill
  <2>2. \A w \in agreed' : Accepts(baseline', w)
    <3>1. SUFFICES ASSUME NEW w \in agreed'  PROVE Accepts(baseline', w)
      OBVIOUS
    <3>2. /\ w = WorldIn(tree, tool, me) /\ Trusted(me)
          /\ me.op = "accept" \/ WorldIn(tree, tool, me) \in me.told
      <4>1. World(me) = WorldIn(tree, tool, me)
        BY InThisWorld
      <4> QED
        BY <1>4, <4>1 DEF Fill
    <3>3. Accepts(me.entries, w)
      BY <1>0, <2>1, <3>2 DEF Good, Accepting
    <3> QED
      BY <2>1, <3>3
  <2>3. \A q \in Runners : Good(tree', tool', run'[q])
    BY <1>2, <2>1, IdleGood
  <2> QED
    BY <1>1, <2>2, <2>3 DEF Right
<1> QED
  BY <1>3, <1>4

LEMMA ChangeRight ==
  ASSUME Holds, Right, Change
  PROVE  Right'
<1>1. ASSUME Disturb, NEW tr2, NEW to2, NEW r \in Runners
      PROVE  Good(tr2, to2, run'[r])
  <2>1. Shape(run[r]) /\ Good(tree, tool, run[r])
    BY DEF Holds, Right
  <2>2. run'[r] = IF run[r].phase = "idle" THEN run[r] ELSE Disturbed(run[r])
    BY <1>1 DEF Disturb, Disturbed
  <2>3. CASE run[r].phase = "idle"
    BY <2>1, <2>2, <2>3, IdleStaysGood
  <2>4. CASE run[r].phase # "idle"
    BY <2>1, <2>2, <2>4, DisturbGood
  <2> QED
    BY <2>3, <2>4
<1>2. ASSUME NEW f \in Files, Edit(f)  PROVE Right'
  <2>1. PICK c \in Contents[f] : tree' = [tree EXCEPT ![f] = c]
    BY <1>2 DEF Edit
  <2>2. Disturb /\ UNCHANGED <<config, tool, rows, baseline, agreed>>
    BY <1>2 DEF Edit
  <2>3. TreeOk(tree')
    BY <2>1 DEF Right, TreeOk
  <2>4. \A r \in Runners : Good(tree', tool', run'[r])
    BY <1>1, <2>2
  <2> QED
    BY <2>2, <2>3, <2>4 DEF Right
<1>3. ASSUME NEW t \in Tools, ToolTurn(t)  PROVE Right'
  <2>1. Disturb /\ UNCHANGED <<tree, config, rows, baseline, agreed>>
    BY <1>3 DEF ToolTurn
  <2>2. ToolOk(tool')
    BY <1>3 DEF ToolTurn, Right, ToolOk
  <2>3. \A r \in Runners : Good(tree', tool', run'[r])
    BY <1>1, <2>1
  <2> QED
    BY <2>1, <2>2, <2>3 DEF Right
<1>4. CASE Reconfigure
  <2>1. config' \in Configs /\ UNCHANGED <<tree, tool, rows, baseline, run, agreed>>
    BY <1>4 DEF Reconfigure
  <2> QED
    BY <2>1 DEF Right
<1>5. CASE WriteByHand
  <2>1. agreed' = {} /\ UNCHANGED <<tree, config, tool, rows, run>>
    BY <1>5 DEF WriteByHand
  <2> QED
    BY <2>1 DEF Right
<1> QED
  BY <1>2, <1>3, <1>4, <1>5 DEF Change

LEMMA RightNext == Holds /\ Right /\ [Next]_vars => Right'
<1> SUFFICES ASSUME Holds, Right, [Next]_vars  PROVE Right'
  OBVIOUS
<1>1. ASSUME NEW r \in Runners, Begin(r)  PROVE Right'
  <2>1. PICK v : v = [Idle EXCEPT !.phase = "walked", !.cfg = config, !.comments = ScanIn(tree, config)]
    OBVIOUS
  <2>2. Scan(config) = ScanIn(tree, config) /\ config \in Configs
    BY InThisWorld DEF Right
  <2>3. Become(r, v) /\ UNCHANGED <<tree, config, tool, rows, baseline, agreed>>
    BY <1>1, <2>1, <2>2 DEF Begin
  <2>4. Good(tree, tool, v)
    BY <2>1, <2>2, BeginGood
  <2> QED
    BY <2>3, <2>4, BecomeRight
<1>2. ASSUME NEW r \in Runners, Report(r) \/ Stop(r)  PROVE Right'
  BY <1>2, IdleGood, BecomeRight DEF Report, Stop
<1>3. CASE UNCHANGED vars
  BY <1>3 DEF vars, Right
<1> QED
  BY <1>1, <1>2, <1>3, KeysRight, ReuseRight, RunRight, StoreRight, FinishRight, PrepareRight,
     WriteRight, ChangeRight
  DEF Next, Providing, Ending

-----------------------------------------------------------------------------
(* What the invariant says of a report                                      *)

\* All that is found of runs whose findings are those of now.
LEMMA AllCount ==
  ASSUME NEW tr, TreeOk(tr), NEW to, ToolOk(to), NEW cfg, NEW taken, NEW runs,
         \A i \in 1..Len(Providers) : IsRun(runs[i]),
         \A i \in 1..Len(Providers) :
           runs[i].findings = NowIn(tr, to, Providers[i], cfg, taken[Providers[i]]).findings
  PROVE  InScope(cfg, FlattenSeq([i \in 1..Len(Providers) |->
                        CommentScopedRun(Providers[i], ScanIn(tr, cfg), runs[i]).findings]))
           = SoFar(tr, to, cfg, taken, Len(Providers))
<1>1. PICK n : n = Len(Providers)
  OBVIOUS
<1>2. n \in Nat /\ n \in 0..Len(Providers)
  BY <1>1, ProvidersAre
<1>3. PICK scan : scan = ScanIn(tr, cfg)
  OBVIOUS
<1> DEFINE ss == [i \in 1..n |-> CommentScopedRun(Providers[i], scan, runs[i]).findings]
           tt == [i \in 1..n |-> CountOf(tr, to, cfg, taken, i)]
<1>4. ASSUME NEW i \in 1..n
      PROVE  List(ss[i]) /\ InScope(cfg, ss[i]) = tt[i]
  <2>1. IsRun(runs[i])
    BY <1>1
  <2>2. ss[i] = Counts(Providers[i], scan, runs[i].findings)
    BY <2>1, CountsIs
  <2>3. List(runs[i].findings)
    BY <2>1 DEF IsRun
  <2>4. List(ss[i])
    BY <2>2, <2>3, CountsIsList
  <2>5. OfFiles(Universe(cfg), Counts(Providers[i], scan, runs[i].findings))
          = Counts(Providers[i], scan, OfFiles(Universe(cfg), runs[i].findings))
    BY <2>3, OfFilesCounts
  <2>6. tt[i] = Counts(Providers[i], scan, InScope(cfg, runs[i].findings))
    BY <1>1, <1>3 DEF CountOf
  <2> HIDE DEF ss, tt
  <2> QED
    BY <2>2, <2>4, <2>5, <2>6 DEF InScope
<1>5. Lists(ss, n)
  <2>1. Len(ss) = n /\ List(ss)
    BY <1>2 DEF List
  <2> HIDE DEF ss
  <2> QED
    BY <1>4, <2>1 DEF Lists
<1>6. [i \in 1..n |-> InScope(cfg, ss[i])] = tt
  BY <1>4
<1>7. SoFar(tr, to, cfg, taken, n) = FlattenSeq(tt)
  <2>1. SoFar(tr, to, cfg, taken, n) = FlattenSeq([i \in 1..n |-> CountOf(tr, to, cfg, taken, i)])
    BY <1>2, SoFarLists
  <2> QED
    BY <2>1
<1> HIDE DEF tt
<1>8. InScope(cfg, FlattenSeq(ss)) = FlattenSeq(tt)
  <2> HIDE DEF ss
  <2>1. OfFiles(Universe(cfg), FlattenSeq(ss)) = FlattenSeq([i \in 1..n |-> OfFiles(Universe(cfg), ss[i])])
    BY <1>2, <1>5, OfFilesFlatten
  <2> QED
    BY <1>6, <2>1 DEF InScope
<1> QED
  BY <1>1, <1>3, <1>7, <1>8

\* A check without the cache finds what the invariant speaks of.
LEMMA FoundNowIs ==
  ASSUME Right, NEW me
  PROVE  FoundNow(me) = SoFar(tree, tool, me.cfg, me.taken, Len(Providers))
<1>0. TreeOk(tree) /\ ToolOk(tool)
  BY DEF Right
<1> DEFINE runs == [i \in 1..Len(Providers) |-> Now(Providers[i], me)]
<1>1. ASSUME NEW i \in 1..Len(Providers)
      PROVE  runs[i] = NowIn(tree, tool, Providers[i], me.cfg, me.taken[Providers[i]])
  <2>1. PICK t : t = Providers[i]
    OBVIOUS
  <2>2. Now(t, me) = NowIn(tree, tool, t, me.cfg, me.taken[t])
    BY InThisWorld DEF Now, NowIn, Truth, ContentHash, HashOf
  <2> QED
    BY <2>1, <2>2
<1>2. FoundNow(me) = InScope(me.cfg, FlattenSeq([i \in 1..Len(Providers) |->
                        CommentScopedRun(Providers[i], ScanIn(tree, me.cfg), runs[i]).findings]))
  <2>1. Scan(me.cfg) = ScanIn(tree, me.cfg)
    BY InThisWorld
  <2> QED
    BY <2>1 DEF FoundNow
<1> HIDE DEF runs
<1>3. ASSUME NEW i \in 1..Len(Providers)
      PROVE  /\ IsRun(runs[i])
             /\ runs[i].findings
                  = NowIn(tree, tool, Providers[i], me.cfg, me.taken[Providers[i]]).findings
  <2>1. Providers[i] \in Tools
    BY ProvidersAre
  <2>2. IsRun(NowIn(tree, tool, Providers[i], me.cfg, me.taken[Providers[i]]))
    BY <1>0, <2>1, NowIsRun
  <2> QED
    BY <1>1, <2>2
<1>4. InScope(me.cfg, FlattenSeq([i \in 1..Len(Providers) |->
                        CommentScopedRun(Providers[i], ScanIn(tree, me.cfg), runs[i]).findings]))
        = SoFar(tree, tool, me.cfg, me.taken, Len(Providers))
  BY <1>0, <1>3, AllCount
<1> QED
  BY <1>2, <1>4

LEMMA RowsAreRight == Right => RowIsOfItsKey
BY DEF Right, RowOk, Fits, RowIsOfItsKey

LEMMA ReportsAreRight == Right => ReportIsFresh
<1> SUFFICES ASSUME Right, NEW r \in Runners, run[r].phase = "report", ~run[r].disturbed, run[r].sound
             PROVE  /\ run[r].comments = Fuse(run[r].cfg, Scan(run[r].cfg), FoundNow(run[r]))
                    /\ run[r].found = Unattached(Scan(run[r].cfg), FoundNow(run[r]))
  BY DEF ReportIsFresh, Fresh
<1>1. PICK me : me = run[r]
  OBVIOUS
<1>2. Shows(tree, tool, me) /\ me.phase = "report" /\ ~me.disturbed /\ me.sound
  BY <1>1 DEF Right, Good
<1>3. FoundNow(me) = SoFar(tree, tool, me.cfg, me.taken, Len(Providers))
  BY FoundNowIs
<1>4. Scan(me.cfg) = ScanIn(tree, me.cfg)
  BY InThisWorld
<1> QED
  BY <1>1, <1>2, <1>3, <1>4 DEF Shows

-----------------------------------------------------------------------------
(* A missing result never makes a pass                                      *)

\* No provider failed where a check passes.
LEMMA PassIsWhole ==
  ASSUME NEW me, NEW comments, NEW partial, VerdictOf(me, comments, partial) = "pass"
  PROVE  ~partial /\ VerdictOf(me, comments, FALSE) = "pass"
BY DEF VerdictOf, Verdict

LEMMA RepairedIs ==
  ASSUME Right, NEW me, \A t \in Tools : Outcome(tree, tool, me, t),
         \A t \in Tools : me.states[t] # "PARTIAL", NEW i \in 1..Len(Providers)
  PROVE  /\ IsRun(Repaired(Providers[i], me))
         /\ Repaired(Providers[i], me).findings
              = NowIn(tree, tool, Providers[i], me.cfg, me.taken[Providers[i]]).findings
<1>0. TreeOk(tree) /\ ToolOk(tool)
  BY DEF Right
<1>1. PICK t : t = Providers[i]
  OBVIOUS
<1>2. t \in Tools
  BY <1>1, ProvidersAre
<1>3. PICK from : from = me.taken[t]
  OBVIOUS
<1>4. CASE me.states[t] = "SKIPPED"
  <2>1. Repaired(t, me) = Skipped
    BY <1>4 DEF Repaired
  <2>2. NowIn(tree, tool, t, me.cfg, from).findings = <<>>
    BY <1>2, <1>3, <1>4 DEF Outcome
  <2>3. IsRun(Skipped) /\ Skipped.findings = <<>>
    BY EmptyIsList DEF IsRun, Skipped, RunStates
  <2> QED
    BY <1>1, <1>3, <2>1, <2>2, <2>3
<1>5. CASE me.states[t] # "SKIPPED"
  <2>1. Repaired(t, me) = Ran(Truth(tree, tool, t, me.cfg, Ranks(me.cfg, from)))
    BY <1>3, <1>5 DEF Repaired, Truth, ContentHash, HashOf
  <2>2. me.states[t] \in {"SUCCESS", "EMPTY"}
    BY <1>2, <1>5 DEF Outcome, RunStates
  <2>3. Heard(tool, t, from)
    BY <1>2, <1>3, <2>2 DEF Outcome, Heard
  <2>4. NowIn(tree, tool, t, me.cfg, from).findings = Truth(tree, tool, t, me.cfg, Ranks(me.cfg, from))
    BY <1>0, <1>2, <2>3, NowIsTruth
  <2>5. List(Truth(tree, tool, t, me.cfg, Ranks(me.cfg, from)))
    BY <1>0, <1>2, TruthInScope
  <2>6. /\ IsRun(Ran(Truth(tree, tool, t, me.cfg, Ranks(me.cfg, from))))
        /\ Ran(Truth(tree, tool, t, me.cfg, Ranks(me.cfg, from))).findings = Truth(tree, tool, t, me.cfg, Ranks(me.cfg, from))
    BY <2>5 DEF IsRun, Ran, RunStates
  <2> QED
    BY <1>1, <1>3, <2>1, <2>4, <2>6
<1> QED
  BY <1>4, <1>5

LEMMA PassesAreRight == Right => PassSurvivesRepair
<1> SUFFICES ASSUME Right, NEW r \in Runners, run[r].phase = "report", ~run[r].disturbed,
                    run[r].sound,
                    VerdictOf(run[r], run[r].comments,
                              \E t \in Tools : run[r].states[t] = "PARTIAL") = "pass"
             PROVE  VerdictOf(run[r], Fuse(run[r].cfg, Scan(run[r].cfg), FoundRepaired(run[r])),
                              FALSE) = "pass"
  BY DEF PassSurvivesRepair
<1>1. PICK me : me = run[r]
  OBVIOUS
<1>2. Shows(tree, tool, me) /\ me.phase = "report" /\ ~me.disturbed /\ me.sound
      /\ TreeOk(tree) /\ ToolOk(tool)
  BY <1>1 DEF Right, Good
<1>3. PICK partial : partial = (\E t \in Tools : me.states[t] = "PARTIAL")
  OBVIOUS
<1>4. VerdictOf(me, me.comments, partial) = "pass"
  BY <1>1, <1>3
<1>5. ~partial /\ VerdictOf(me, me.comments, FALSE) = "pass"
  BY <1>4, PassIsWhole
<1>6. \A t \in Tools : me.states[t] # "PARTIAL"
  BY <1>3, <1>5
<1>7. \A t \in Tools : Outcome(tree, tool, me, t)
  BY <1>2 DEF Shows
<1> DEFINE runs == [i \in 1..Len(Providers) |-> Repaired(Providers[i], me)]
<1>8. FoundRepaired(me) = FlattenSeq([i \in 1..Len(Providers) |->
                        CommentScopedRun(Providers[i], ScanIn(tree, me.cfg), runs[i]).findings])
  <2>1. Scan(me.cfg) = ScanIn(tree, me.cfg)
    BY InThisWorld
  <2> QED
    BY <2>1 DEF FoundRepaired
<1>9. ASSUME NEW i \in 1..Len(Providers)
      PROVE  /\ IsRun(runs[i])
             /\ runs[i].findings
                  = NowIn(tree, tool, Providers[i], me.cfg, me.taken[Providers[i]]).findings
  BY <1>6, <1>7, RepairedIs
<1> HIDE DEF runs
<1>10. PICK all : all = SoFar(tree, tool, me.cfg, me.taken, Len(Providers))
  OBVIOUS
<1>11. InScope(me.cfg, FoundRepaired(me)) = all
  BY <1>2, <1>8, <1>9, <1>10, AllCount
<1>12. InScope(me.cfg, all) = all
  <2>1. Len(Providers) \in 0..Len(Providers)
    BY ProvidersAre
  <2> QED
    BY <1>2, <1>10, <2>1, SoFarInScope
<1>13. Fuse(me.cfg, ScanIn(tree, me.cfg), FoundRepaired(me)) = Fuse(me.cfg, ScanIn(tree, me.cfg), all)
  BY <1>11, <1>12, FuseScope
<1>14. me.comments = Fuse(me.cfg, ScanIn(tree, me.cfg), all)
  BY <1>2, <1>10 DEF Shows
<1>15. Scan(me.cfg) = ScanIn(tree, me.cfg)
  BY InThisWorld
<1> QED
  BY <1>1, <1>5, <1>13, <1>14, <1>15

-----------------------------------------------------------------------------
(* What an accepted world shows                                             *)

HasFindings(c) == "findings" \in DOMAIN c

\* Comments whose findings have a place and a rule.
SitedComments(s) ==
  List(s) /\ \A n \in 1..Len(s) : HasFindings(s[n]) /\ SitedList(s[n].findings)

\* Comments whose findings are as a tool or a detector makes them.
FairComments(s) ==
  List(s) /\ \A n \in 1..Len(s) : HasFindings(s[n]) /\ FairList(s[n].findings)

\* What is found in a comment without a provider.
LEMMA DetectedIsFair ==
  ASSUME NEW f, NEW c, Placed(c),
         NEW severities, \A name \in DOMAIN severities : severities[name] \in Severities
  PROVE  HasFindings(Detected(f, c, severities)) /\ FairList(Detected(f, c, severities).findings)
<1>1. ASSUME NEW start \in Nat, NEW end \in Nat, start <= end, NEW rule \in Mapped,
             NEW severity \in Nat
      PROVE  Fair(NativeFinding(f, start, end, c.line, rule, severity))
  <2>1. PICK category \in Categories : category = CategoryMap[rule]
    BY FindingsAssumption DEF Mapped
  <2>2. NativeFinding(f, start, end, c.line, rule, severity)
          = [file |-> f, start |-> start, end |-> end, line |-> c.line, rule |-> rule,
             category |-> category, severity |-> severity, also |-> {}]
    BY <2>1 DEF NativeFinding
  <2>3. rule \in Rules /\ c.line \in Nat
    BY DEF Mapped, Placed
  <2> QED
    BY <1>1, <2>2, <2>3 DEF Fair, Sited, Keyed
<1>2. FairList(MarkerFindings(f, c, severities))
  <2> DEFINE Severity(m) == IF m.name \in DOMAIN severities THEN severities[m.name]
                            ELSE CanonicalSeverity("marker_stale")
  <2>1. PICK out : out = MarkerFindings(f, c, severities)
    OBVIOUS
  <2>2. out = [i \in 1..Len(c.markers) |->
                LET m == c.markers[i]
                IN  IF m.at = None THEN NativeFinding(f, c.start, c.end, c.line, m.rule, Severity(m))
                    ELSE NativeFinding(f, c.start + m.at, c.start + m.at + m.len, c.line, m.rule,
                                       Severity(m))]
    BY <2>1 DEF MarkerFindings
  <2>0. \A m : Severity(m) \in Nat
    BY CanonicalIsSeverity, SeverityIsNat
  <2> HIDE DEF Severity
  <2>3. Len(out) = Len(c.markers) /\ List(out)
    BY <2>2 DEF Placed, List
  <2>4. ASSUME NEW i \in 1..Len(out)
        PROVE  Fair(out[i])
    <3>1. PICK m : m = c.markers[i]
      OBVIOUS
    <3>2. m.rule \in Mapped /\ (m.at = None \/ (m.at \in Nat /\ m.len \in Nat))
      BY <2>3, <3>1 DEF Placed
    <3>3. PICK severity \in Nat : severity = Severity(m)
      BY <2>0
    <3>4. out[i] = IF m.at = None THEN NativeFinding(f, c.start, c.end, c.line, m.rule, severity)
                   ELSE NativeFinding(f, c.start + m.at, c.start + m.at + m.len, c.line, m.rule,
                                      severity)
      BY <2>2, <2>3, <3>1, <3>3
    <3>5. c.start \in Nat /\ c.end \in Nat /\ c.start <= c.end
      BY DEF Placed
    <3>6. m.at # None => /\ c.start + m.at \in Nat /\ c.start + m.at + m.len \in Nat
                         /\ c.start + m.at <= c.start + m.at + m.len
      BY <3>2, <3>5
    <3> QED
      BY <1>1, <3>2, <3>4, <3>5, <3>6
  <2> QED
    BY <2>1, <2>3, <2>4 DEF FairList
<1>3. FairList(RotFindings(f, c))
  <2>1. PICK out : out = RotFindings(f, c)
    OBVIOUS
  <2> DEFINE Severity(rule) == CanonicalSeverity(CategoryMap[rule])
  <2>2. out = [i \in 1..Len(c.rot) |->
                NativeFinding(f, c.start, c.end, c.line, c.rot[i], Severity(c.rot[i]))]
    BY <2>1 DEF RotFindings
  <2>0. \A rule : Severity(rule) \in Nat
    BY CanonicalIsSeverity, SeverityIsNat
  <2> HIDE DEF Severity
  <2>3. c.rot \in Seq(Mapped) /\ c.start \in Nat /\ c.end \in Nat /\ c.start <= c.end
    BY DEF Placed
  <2>4. Len(out) = Len(c.rot) /\ List(out)
    BY <2>2, <2>3, LenProperties DEF List
  <2>5. ASSUME NEW i \in 1..Len(out)
        PROVE  Fair(out[i])
    <3>1. PICK rule \in Mapped : rule = c.rot[i]
      BY <2>3, <2>4, ElementOfSeq
    <3>2. PICK severity \in Nat : severity = Severity(rule)
      BY <2>0
    <3>3. out[i] = NativeFinding(f, c.start, c.end, c.line, rule, severity)
      BY <2>2, <2>4, <3>1, <3>2
    <3> QED
      BY <1>1, <2>3, <3>3
  <2> QED
    BY <2>1, <2>4, <2>5 DEF FairList
<1>4. PICK marked : marked = MarkerFindings(f, c, severities)
  OBVIOUS
<1>5. PICK rotten : rotten = RotFindings(f, c)
  OBVIOUS
<1>6. Detected(f, c, severities) =
        [file |-> f, symbol |-> c.symbol, print |-> c.print, start |-> c.start, end |-> c.end,
         line |-> c.line, directive |-> c.directive, findings |-> marked \o rotten]
  BY <1>4, <1>5 DEF Detected
<1>7. FairList(marked \o rotten)
  BY <1>2, <1>3, <1>4, <1>5, ConcatFair
<1>8. PICK all : all = marked \o rotten
  OBVIOUS
<1> QED
  BY <1>6, <1>7, <1>8 DEF HasFindings

LEMMA ScanIsFair ==
  ASSUME NEW tr, TreeOk(tr), NEW cfg \in Configs
  PROVE  FairComments(ScanIn(tr, cfg))
<1> DEFINE Here(i) == IF FileList[i] \in Walked(cfg) THEN CommentsIn[tr[FileList[i]]] ELSE <<>>
           ss == [i \in 1..Len(FileList) |->
                   [n \in 1..Len(Here(i)) |-> Detected(FileList[i], Here(i)[n], cfg.markers)]]
           S == UNION {{ss[i][n] : n \in 1..Len(ss[i])} : i \in 1..Len(FileList)}
           Fine(c) == HasFindings(c) /\ FairList(c.findings)
<1>1. ScanIn(tr, cfg) = FlattenSeq(ss)
  BY DEF ScanIn, ScanOf
<1>2. PICK n : n = Len(FileList)
  OBVIOUS
<1>3. n \in Nat
  BY <1>2, CheckRunAssumption, LenProperties
<1>4. ASSUME NEW i \in 1..n
      PROVE  List(ss[i]) /\ \A k \in 1..Len(ss[i]) : Fine(ss[i][k])
  <2>1. PICK here : here = Here(i)
    OBVIOUS
  <2>2. Len(here) \in Nat /\ \A k \in 1..Len(here) : Placed(here[k])
    <3>1. CASE FileList[i] \in Walked(cfg)
      <4>1. FileList[i] \in Files
        BY <1>2 DEF Files
      <4>2. tr[FileList[i]] \in Contents[FileList[i]]
        BY <4>1 DEF TreeOk
      <4> QED
        BY <2>1, <3>1, <4>1, <4>2, WorldAssumption
    <3>2. CASE FileList[i] \notin Walked(cfg)
      BY <2>1, <3>2
    <3> QED
      BY <3>1, <3>2
  <2>3. ss[i] = [k \in 1..Len(here) |-> Detected(FileList[i], here[k], cfg.markers)]
    BY <1>2, <2>1
  <2>4. \A k \in 1..Len(here) : Fine(Detected(FileList[i], here[k], cfg.markers))
    BY <2>2, DetectedIsFair, WorldAssumption
  <2> HIDE DEF ss, Fine
  <2>5. Len(ss[i]) = Len(here) /\ List(ss[i])
    BY <2>2, <2>3 DEF List
  <2> QED
    BY <2>3, <2>4, <2>5
<1>5. Len(ss) = n /\ List(ss)
  BY <1>2, <1>3 DEF List
<1> HIDE DEF ss, Fine
<1>6. \A x \in S : Fine(x)
  BY <1>2, <1>4
<1>7. \A i \in 1..n : \A k \in 1..Len(ss[i]) : ss[i][k] \in S
  BY <1>2
<1> HIDE DEF S
<1>8. \A i \in 1..n : ss[i] \in Seq(S)
  BY <1>4, <1>7, ListOver
<1>9. ss \in Seq(Seq(S))
  BY <1>5, <1>8, ListOver
<1>10. FlattenSeq(ss) \in Seq(S)
  BY <1>9, FlattenIsList
<1>11. List(FlattenSeq(ss)) /\ \A k \in 1..Len(FlattenSeq(ss)) : FlattenSeq(ss)[k] \in S
  BY <1>10, SeqIsList
<1> QED
  BY <1>1, <1>6, <1>11 DEF FairComments, Fine

LEMMA FuseHasFindings ==
  ASSUME NEW cfg, NEW comments, NEW found, Len(comments) \in Nat,
         \A n \in 1..Len(comments) : HasFindings(comments[n])
  PROVE  LET fused == Fuse(cfg, comments, found)
         IN  Len(fused) = Len(comments) /\ \A n \in 1..Len(fused) : HasFindings(fused[n])
<1> DEFINE attached == AttachFindings(comments, InScope(cfg, found))
<1>1. \A n \in 1..Len(comments) : HasFindings(attached[n])
  BY DEF AttachFindings, HasFindings
<1> HIDE DEF attached
<1> DEFINE F(n) == [attached[n] EXCEPT !.findings = DedupFindings(attached[n].findings)]
<1>2. Fuse(cfg, comments, found) = [n \in 1..Len(comments) |-> F(n)]
  BY DEF Fuse, attached
<1>3. \A n \in 1..Len(comments) : HasFindings(F(n))
  BY <1>1 DEF HasFindings
<1> HIDE DEF F
<1> QED
  BY <1>2, <1>3

\* When the baseline has an entry for each finding, nothing is shown.
LEMMA AllHidden ==
  ASSUME NEW comments, NEW entries, Accept(comments) \subseteq entries,
         NEW n \in 1..Len(comments), HasFindings(comments[n])
  PROVE  LiveComments(comments, entries)[n].findings = <<>>
<1> DEFINE hidden == Suppressed(comments, entries)
           fs == comments[n].findings
           left == {i \in 1..Len(fs) : <<n, i>> \notin hidden}
           shown == [k \in 1..Cardinality(left) |->
                       fs[CHOOSE i \in left : Cardinality({j \in left : j <= i}) = k]]
<1>1. \A i \in 1..Len(fs) : <<n, i>> \in hidden
  <2> SUFFICES ASSUME NEW i \in 1..Len(fs)  PROVE <<n, i>> \in hidden
    OBVIOUS
  <2>1. Entry(comments[n], fs[i].rule) \in entries
    BY CurrentIsKept DEF Accept
  <2>2. Baselined(entries, comments[n], fs[i])
    BY <2>1 DEF Baselined
  <2>3. <<n, i>> \in UNION {{m} \X (1..Len(comments[m].findings)) : m \in 1..Len(comments)}
    OBVIOUS
  <2> QED
    BY <2>2, <2>3 DEF Suppressed
<1>2. left = {}
  BY <1>1
<1>3. shown = <<>>
  <2>1. Cardinality(left) = 0
    BY <1>2, FS_EmptySet
  <2> HIDE DEF left, fs
  <2> QED
    BY <2>1
<1>4. LiveComments(comments, entries)[n] = [comments[n] EXCEPT !.findings = shown]
  BY DEF LiveComments
<1> HIDE DEF shown
<1> QED
  BY <1>3, <1>4 DEF HasFindings

LEMMA AcceptedAreRight == Right => AcceptedIsClean
<1> SUFFICES ASSUME Right, NEW r \in Runners, run[r].phase = "report", Trusted(run[r]),
                    World(run[r]) \in run[r].told, NEW n \in 1..Len(run[r].comments)
             PROVE  Live(run[r])[n].findings = <<>>
  BY DEF AcceptedIsClean
<1>1. PICK me : me = run[r]
  OBVIOUS
<1>2. Good(tree, tool, me) /\ TreeOk(tree) /\ ToolOk(tool) /\ me.phase = "report" /\ Trusted(me)
  BY <1>1 DEF Right
<1>3. PICK w : w = WorldIn(tree, tool, me)
  OBVIOUS
<1>4. w \in me.told
  BY <1>1, <1>3, InThisWorld
<1>5. me.comments = Full(w)
  BY <1>2, <1>3, ShownIsFull
<1>6. Accept(me.comments) \subseteq me.loaded
  BY <1>2, <1>4, <1>5 DEF Good, Accepting, Accepts
<1>7. \A k \in 1..Len(me.comments) : HasFindings(me.comments[k])
  <2>1. PICK scan : scan = ScanIn(tree, me.cfg)
    OBVIOUS
  <2>2. me.comments = Fuse(me.cfg, scan, SoFar(tree, tool, me.cfg, me.taken, Len(Providers)))
    BY <1>2, <2>1 DEF Good, Shows, Trusted
  <2>3. Len(scan) \in Nat /\ \A k \in 1..Len(scan) : HasFindings(scan[k])
    BY <1>2, <2>1, ScanIsFair, ListIs DEF FairComments, Good, Fields
  <2> QED
    BY <2>2, <2>3, FuseHasFindings
<1> QED
  BY <1>1, <1>6, <1>7, AllHidden DEF Live

-----------------------------------------------------------------------------
(* Types                                                                    *)

\* A usable result is empty when its state says so.
Tells(ran) == Usable(ran) => (ran.state = "EMPTY" <=> ran.findings = <<>>)

TypedRow(row) == row.tool \in Tools \ Unkeyed /\ Usable(row.ran) /\ Tells(row.ran)

Typed(v) ==
  /\ v.phase \in Phases
  /\ v.phase \in {"ask", "store"} => \A t \in Unkeyed : v.keys[t] = None
  /\ v.phase = "store" => v.keys[Provider(v)] # None /\ Tells(v.ran)

Typing ==
  /\ events \in 0..MaxEvents
  /\ \A row \in rows : TypedRow(row)
  /\ \A r \in Runners : Typed(run[r])

LEMMA IdleTyped == Typed(Idle)
BY DEF Typed, Idle, Phases

LEMMA EventCounts == ASSUME events \in 0..MaxEvents, Event PROVE events' \in 0..MaxEvents
BY CheckRunAssumption DEF Event

LEMMA BecomeTyped ==
  ASSUME Holds, Typing, NEW r \in Runners, NEW v, Become(r, v), Typed(v), UNCHANGED rows,
         UNCHANGED events \/ Event
  PROVE  Typing'
<1>1. \A q \in Runners : run'[q] = IF q = r THEN v ELSE run[q]
  BY DEF Become, Holds
<1>2. \A q \in Runners : Typed(run'[q])
  BY <1>1 DEF Typing
<1>3. events' \in 0..MaxEvents
  BY EventCounts DEF Typing
<1> QED
  BY <1>2, <1>3 DEF Typing, Typed

LEMMA RunTells == ASSUME NEW t, NEW cfg PROVE Tells(ProviderRun(t, cfg))
<1>1. \A found : Tells(Ran(found))
  BY DEF Tells, Usable, Ran
<1>2. Tells(Skipped) /\ Tells(Partial)
  BY DEF Tells, Usable, Skipped, Partial
<1> QED
  BY <1>1, <1>2 DEF ProviderRun

\* With a provider's result it asks on, under the same keys.
LEMMA FoundTyped ==
  ASSUME NEW me, Shape(me), Typed(me), me.phase \in {"ask", "store"}, NEW ran
  PROVE  Typed(Found(me, ran))
<1>1. PICK v : v = Found(me, ran)
  OBVIOUS
<1>2. Adds(me, ran, v)
  BY <1>1, FoundIs
<1>4. v.phase = "ask" /\ v.keys = me.keys
  BY <1>2 DEF Adds
<1>3. Typed(v)
  BY <1>4 DEF Typed, Phases
<1> QED
  BY <1>1, <1>3

LEMMA ProvidingTyped ==
  ASSUME Holds, Right, Typing, NEW r \in Runners, Providing(r)
  PROVE  Typing'
<1> DEFINE me == run[r]
           t == Provider(me)
<1>0. Shape(me) /\ Typed(me)
  BY DEF Holds, Typing
<1>1. CASE ComputeKeys(r)
  <2> DEFINE some == [u \in Tools |-> VersionKey(u)]
             none == [u \in Tools |-> None]
             hashes == [u \in Tools |-> InputHash(u, me.cfg)]
  <2>1. \A u \in Unkeyed : some[u] = None /\ none[u] = None
    BY CheckRunAssumption DEF VersionKey
  <2>2. PICK v : v = [me EXCEPT !.phase = "ask", !.stale = FALSE, !.keys = some, !.hashes = hashes]
    OBVIOUS
  <2>3. PICK w : w = [me EXCEPT !.phase = "ask", !.keys = none]
    OBVIOUS
  <2>4. (Become(r, v) \/ Become(r, w)) /\ UNCHANGED <<rows, events>>
    BY <1>1, <2>2, <2>3 DEF ComputeKeys
  <2> HIDE DEF some, none, hashes
  <2>5. v.phase = "ask" /\ v.keys = some /\ w.phase = "ask" /\ w.keys = none
    BY <1>0, <2>2, <2>3 DEF Shape
  <2>6. Typed(v) /\ Typed(w)
    BY <2>1, <2>5 DEF Typed, Phases
  <2> QED
    BY <2>4, <2>6, BecomeTyped
<1>2. CASE Reuse(r)
  <2>1. PICK row \in RowFor(me) :
          Become(r, [Found(me, row.ran) EXCEPT
                       !.sound = @ /\ ~row.crossed,
                       !.taken = [@ EXCEPT ![row.tool] = row.over]])
    BY <1>2 DEF Reuse
  <2>2. PICK w : w = Found(me, row.ran)
    OBVIOUS
  <2>3. Shape(w) /\ Typed(w) /\ w.phase = "ask"
    <3>1. me.phase = "ask"
      BY <1>2 DEF Reuse
    <3>2. Shape(w) /\ Typed(w)
      BY <1>0, <2>2, <3>1, FoundHolds, FoundTyped
    <3>3. Adds(me, row.ran, w)
      BY <1>0, <2>2, FoundIs
    <3> QED
      BY <3>2, <3>3 DEF Adds
  <2> DEFINE sound == w.sound /\ ~row.crossed
             taken == [w.taken EXCEPT ![row.tool] = row.over]
  <2>4. PICK v : v = [w EXCEPT !.sound = sound, !.taken = taken]
    OBVIOUS
  <2>5. Become(r, v) /\ UNCHANGED <<rows, events>>
    BY <1>2, <2>1, <2>2, <2>4 DEF Reuse
  <2> HIDE DEF sound, taken
  <2>6. v.phase = "ask" /\ v.keys = w.keys
    BY <2>3, <2>4 DEF Shape
  <2>7. Typed(v)
    BY <2>3, <2>6 DEF Typed
  <2> QED
    BY <2>5, <2>7, BecomeTyped
<1>3. CASE RunProvider(r)
  <2>1. PICK ran : ran = ProviderRun(t, me.cfg)
    OBVIOUS
  <2>2. PICK v : v = [me EXCEPT !.phase = "store", !.crossed = me.stale, !.ran = ran]
    OBVIOUS
  <2>3. /\ me.phase = "ask" /\ UNCHANGED <<rows, events>>
        /\ Become(r, Found(me, ran)) \/ (me.keys[t] # None /\ Become(r, v))
    BY <1>3, <2>1, <2>2 DEF RunProvider
  <2>4. Typed(Found(me, ran))
    BY <1>0, <2>3, FoundTyped
  <2>5. ASSUME me.keys[t] # None  PROVE Typed(v)
    <3>1. v.phase = "store" /\ v.keys = me.keys /\ v.next = me.next /\ v.ran = ran
      BY <1>0, <2>2 DEF Shape
    <3>2. Provider(v) = t
      BY <3>1 DEF Provider
    <3>3. Tells(ran)
      BY <2>1, RunTells
    <3> HIDE DEF t
    <3> QED
      BY <1>0, <2>3, <2>5, <3>1, <3>2, <3>3 DEF Typed, Phases
  <2> QED
    BY <2>3, <2>4, <2>5, BecomeTyped
<1>4. CASE StoreResult(r)
  <2> DEFINE row == [tool |-> t, version |-> me.keys[t], hash |-> me.hashes[t], ran |-> me.ran,
                     over |-> me.cfg.over, crossed |-> me.crossed]
  <2>1. /\ me.phase = "store" /\ Become(r, Found(me, me.ran))
        /\ UNCHANGED events \/ Event
        /\ rows' \subseteq rows \/ (Usable(me.ran) /\ rows' \subseteq rows \cup {row})
    BY <1>4 DEF StoreResult
  <2>2. ASSUME Usable(me.ran)  PROVE TypedRow(row)
    <3>1. PICK x : x = row
      OBVIOUS
    <3>2. x.tool = t /\ x.ran = me.ran
      BY <3>1
    <3>3. me.next \in 1..Len(Providers)
      <4>1. Fields(me)
        BY DEF Right, Good
      <4> QED
        BY <2>1, <4>1, ProvidersAre DEF Fields
    <3>4. t \in Tools /\ t \notin Unkeyed
      BY <1>0, <2>1, <3>3, ProvidersAre DEF Typed, Provider
    <3>5. TypedRow(x)
      BY <1>0, <2>1, <2>2, <3>2, <3>4 DEF TypedRow, Typed
    <3> QED
      BY <3>1, <3>5
  <2> HIDE DEF row
  <2>3. \A x \in rows' : TypedRow(x)
    BY <2>1, <2>2 DEF Typing
  <2>4. Typed(Found(me, me.ran))
    BY <1>0, <2>1, FoundTyped
  <2>5. \A q \in Runners : run'[q] = IF q = r THEN Found(me, me.ran) ELSE run[q]
    BY <2>1 DEF Become, Holds
  <2>6. \A q \in Runners : Typed(run'[q])
    BY <2>4, <2>5 DEF Typing
  <2>7. events' \in 0..MaxEvents
    BY <2>1, EventCounts DEF Typing
  <2> QED
    BY <2>3, <2>6, <2>7 DEF Typing, Typed, TypedRow, Tells
<1> QED
  BY <1>1, <1>2, <1>3, <1>4 DEF Providing

LEMMA EndingTyped ==
  ASSUME Holds, Right, Typing, NEW r \in Runners, Ending(r)
  PROVE  Typing'
<1>0. Shape(run[r])
  BY DEF Holds
<1>1. /\ UNCHANGED rows
      /\ UNCHANGED events \/ Event
      /\ \/ Become(r, Idle)
         \/ \E v : v.phase \in {"report", "write", "fill"} /\ Become(r, v)
  <2>1. CASE Finish(r)
    <3> DEFINE comments == Fuse(run[r].cfg, run[r].comments, run[r].found)
               found == Unattached(run[r].comments, InScope(run[r].cfg, run[r].found))
               loaded == IF baseline = None THEN {} ELSE baseline
               told == IF baseline = None THEN {} ELSE agreed
    <3>1. PICK v : v = [run[r] EXCEPT !.phase = "report", !.keys = None, !.hashes = None,
                                      !.comments = comments, !.found = found,
                                      !.loaded = loaded, !.told = told]
      OBVIOUS
    <3>2. Become(r, Idle) \/ Become(r, v)
      BY <2>1, <3>1 DEF Finish
    <3> HIDE DEF comments, found, loaded, told
    <3>3. v.phase = "report"
      BY <1>0, <3>1 DEF Shape
    <3> QED
      BY <2>1, <3>2, <3>3 DEF Finish
  <2>2. CASE Prepare(r)
    <3> DEFINE accepted == Accept(run[r].comments)
               left == Prune(baseline, run[r].comments)
    <3>1. PICK a : a = [run[r] EXCEPT !.phase = "write", !.op = "accept", !.entries = accepted]
      OBVIOUS
    <3>2. PICK p : p = [run[r] EXCEPT !.phase = "write", !.op = "prune", !.loaded = baseline,
                                      !.told = agreed, !.entries = left]
      OBVIOUS
    <3>3. Become(r, Idle) \/ Become(r, a) \/ Become(r, p)
      BY <2>2, <3>1, <3>2 DEF Prepare
    <3> HIDE DEF accepted, left
    <3>4. a.phase = "write" /\ p.phase = "write"
      BY <1>0, <3>1, <3>2 DEF Shape
    <3> QED
      BY <2>2, <3>3, <3>4 DEF Prepare
  <2>3. CASE Truncate(r)
    <3>1. PICK v : v = [run[r] EXCEPT !.phase = "fill", !.comments = <<>>, !.found = <<>>, !.loaded = {}]
      OBVIOUS
    <3>2. v.phase = "fill" /\ Become(r, v)
      BY <1>0, <2>3, <3>1 DEF Shape, Truncate
    <3> QED
      BY <2>3, <3>2 DEF Truncate
  <2>4. CASE Report(r) \/ Fill(r) \/ Stop(r)
    BY <2>4 DEF Report, Fill, Stop
  <2> QED
    BY <2>1, <2>2, <2>3, <2>4 DEF Ending
<1>2. CASE Become(r, Idle)
  BY <1>1, <1>2, IdleTyped, BecomeTyped
<1>3. ASSUME NEW v, v.phase \in {"report", "write", "fill"}, Become(r, v)
      PROVE  Typing'
  <2>1. Typed(v)
    BY <1>3 DEF Typed, Phases
  <2> QED
    BY <1>1, <1>3, <2>1, BecomeTyped
<1> QED
  BY <1>1, <1>2, <1>3

LEMMA TypingNext == Holds /\ Right /\ Typing /\ [Next]_vars => Typing'
<1> SUFFICES ASSUME Holds, Right, Typing, [Next]_vars  PROVE Typing'
  OBVIOUS
<1>1. ASSUME NEW r \in Runners, Begin(r)  PROVE Typing'
  <2>1. PICK v : v = [Idle EXCEPT !.phase = "walked", !.cfg = config, !.comments = Scan(config)]
    OBVIOUS
  <2>2. Become(r, v) /\ UNCHANGED rows /\ (UNCHANGED events \/ Event)
    BY <1>1, <2>1 DEF Begin
  <2>3. v.phase = "walked"
    BY <2>1 DEF Idle
  <2>4. Typed(v)
    BY <2>3 DEF Typed, Phases
  <2> QED
    BY <2>2, <2>4, BecomeTyped
<1>2. CASE Change
  <2>1. UNCHANGED rows /\ Event /\ (UNCHANGED run \/ Disturb)
    BY <1>2 DEF Change, Edit, ToolTurn, Reconfigure, WriteByHand
  <2>2. ASSUME Disturb, NEW r \in Runners  PROVE Typed(run'[r])
    <3>1. Shape(run[r]) /\ Typed(run[r])
      BY DEF Holds, Typing
    <3>2. PICK v : v = Disturbed(run[r])
      OBVIOUS
    <3>3. run'[r] = run[r] \/ run'[r] = v
      BY <2>2, <3>2 DEF Disturb, Disturbed
    <3>4. v.phase = run[r].phase /\ v.keys = run[r].keys /\ v.next = run[r].next /\ v.ran = run[r].ran
      BY <3>1, <3>2 DEF Shape, Disturbed
    <3>5. Provider(v) = Provider(run[r])
      BY <3>4 DEF Provider
    <3>6. Typed(v)
      BY <3>1, <3>4, <3>5 DEF Typed
    <3> QED
      BY <3>1, <3>3, <3>6
  <2>3. \A r \in Runners : Typed(run'[r])
    BY <2>1, <2>2 DEF Typing
  <2>4. events' \in 0..MaxEvents
    BY <2>1, EventCounts DEF Typing
  <2> QED
    BY <2>1, <2>3, <2>4 DEF Typing, Typed
<1>3. CASE UNCHANGED vars
  BY <1>3 DEF vars, Typing, Typed
<1> QED
  BY <1>1, <1>2, <1>3, ProvidingTyped, EndingTyped DEF Next

LEMMA TypingInit == Init => Typing
<1> SUFFICES ASSUME Init  PROVE Typing
  OBVIOUS
<1>1. events = 0 /\ rows = {} /\ run = [r \in Runners |-> Idle]
  BY DEF Init
<1>2. events \in 0..MaxEvents
  BY <1>1, CheckRunAssumption
<1>3. \A r \in Runners : run[r] = Idle
  <2> HIDE DEF Idle
  <2> QED
    BY <1>1
<1> HIDE DEF Idle
<1> QED
  BY <1>1, <1>2, <1>3, IdleTyped DEF Typing

LEMMA TypesAreRight == Right /\ Typing => Types
<1> SUFFICES ASSUME Right, Typing  PROVE Types
  OBVIOUS
<1>1. tree \in [Files -> UNION {Contents[f] : f \in Files}]
  BY DEF Right, TreeOk
<1>2. \A r \in Runners : run[r].next \in 1..(Len(Providers) + 1)
  BY DEF Right, Good, Fields
<1>3. \A row \in rows : /\ row.tool \in Tools \ Unkeyed /\ Usable(row.ran)
                        /\ row.ran.state = "EMPTY" <=> row.ran.findings = <<>>
  BY DEF Typing, TypedRow, Tells
<1> QED
  BY <1>1, <1>2, <1>3 DEF Types, Right, ToolOk, Typing, Typed

-----------------------------------------------------------------------------
(* Rules                                                                    *)

\* Each entry has a provider's rule, or an author wrote it.
Ruled(entries) == \A e \in entries : e.rule \in Rules \/ \E h \in Baselines : e \in h

\* What a check holds on its way to a baseline.
RuledBy(v) ==
  /\ v.phase \in {"walked", "ask", "store"} => FairComments(v.comments) /\ FairList(v.found)
  /\ v.phase = "store" => FairList(v.ran.findings)
  /\ v.phase = "report" => SitedComments(v.comments)
  /\ v.phase \in {"write", "fill"} => Ruled(v.entries)

Ruling ==
  /\ \A row \in rows : FairList(row.ran.findings)
  /\ BaselineFile(baseline)
  /\ \A r \in Runners : RuledBy(run[r])

LEMMA IdleIsRuled == RuledBy(Idle)
BY DEF RuledBy, Idle

LEMMA BecomeRuled ==
  ASSUME Holds, Ruling, NEW r \in Runners, NEW v, Become(r, v), RuledBy(v),
         UNCHANGED rows, BaselineFile(baseline')
  PROVE  Ruling'
<1>1. \A q \in Runners : run'[q] = IF q = r THEN v ELSE run[q]
  BY DEF Become, Holds
<1>2. \A q \in Runners : RuledBy(run'[q])
  BY <1>1 DEF Ruling
<1> QED
  BY <1>2 DEF Ruling, RuledBy, BaselineFile

LEMMA RunIsFair ==
  ASSUME Right, NEW t \in Tools, NEW cfg \in Configs
  PROVE  FairList(ProviderRun(t, cfg).findings)
<1>1. TreeOk(tree) /\ tool[t].version \in Versions
  BY DEF Right, ToolOk
<1>2. FairList(Reports(t, tool[t].version, HashOf(tree, LooksAt(t, cfg)), cfg.over))
  BY <1>1, HashIsPossible, ReportsAreFair
<1>3. FairList(RunIn(tree, tool, t, cfg).findings)
  BY <1>2, EmptyIsFair DEF RunIn, Ran, Skipped, Partial
<1> QED
  BY <1>3, InThisWorld

LEMMA FoundIsRuled ==
  ASSUME NEW me, Shape(me), RuledBy(me), me.phase \in {"ask", "store"},
         NEW ran, IsRun(ran), FairList(ran.findings)
  PROVE  RuledBy(Found(me, ran))
<1>1. PICK v : v = Found(me, ran)
  OBVIOUS
<1>2. Adds(me, ran, v)
  BY <1>1, FoundIs
<1>3. PICK counted : counted = CommentScopedRun(Provider(me), me.comments, ran).findings
  OBVIOUS
<1>4. counted = Counts(Provider(me), me.comments, ran.findings)
  BY <1>3, CountsIs
<1>5. FairList(counted)
  BY <1>4, KeepFair DEF Counts
<1>6. v.phase = "ask" /\ v.comments = me.comments /\ v.found = me.found \o counted
  BY <1>2, <1>3 DEF Adds
<1>7. FairComments(me.comments) /\ FairList(me.found)
  BY DEF RuledBy
<1>8. FairList(v.found)
  BY <1>5, <1>6, <1>7, ConcatFair
<1>9. RuledBy(v)
  BY <1>6, <1>7, <1>8 DEF RuledBy
<1> QED
  BY <1>1, <1>9

LEMMA ProvidingRuled ==
  ASSUME Holds, Right, Ruling, NEW r \in Runners, Providing(r)
  PROVE  Ruling'
<1> DEFINE me == run[r]
           t == Provider(me)
<1>0. Shape(me) /\ RuledBy(me) /\ Good(tree, tool, me)
  BY DEF Holds, Right, Ruling
<1>00. BaselineFile(baseline') /\ UNCHANGED baseline
  BY DEF Providing, ComputeKeys, Reuse, RunProvider, StoreResult, Ruling
<1>01. me.next <= Len(Providers) /\ me.phase \in {"ask", "store"} => t \in Tools /\ me.cfg \in Configs
  BY <1>0, ProvidersAre DEF Good, Fields, Provider
<1>1. CASE ComputeKeys(r)
  <2> DEFINE some == [u \in Tools |-> VersionKey(u)]
             none == [u \in Tools |-> None]
             hashes == [u \in Tools |-> InputHash(u, me.cfg)]
  <2>2. PICK v : v = [me EXCEPT !.phase = "ask", !.stale = FALSE, !.keys = some, !.hashes = hashes]
    OBVIOUS
  <2>3. PICK w : w = [me EXCEPT !.phase = "ask", !.keys = none]
    OBVIOUS
  <2>4. (Become(r, v) \/ Become(r, w)) /\ UNCHANGED rows /\ me.phase = "walked"
    BY <1>1, <2>2, <2>3 DEF ComputeKeys
  <2> HIDE DEF some, none, hashes
  <2>5. \A x \in {v, w} : x.phase = "ask" /\ x.comments = me.comments /\ x.found = me.found
    BY <1>0, <2>2, <2>3 DEF Shape
  <2>6. RuledBy(v) /\ RuledBy(w)
    BY <1>0, <2>4, <2>5 DEF RuledBy
  <2> QED
    BY <1>00, <2>4, <2>6, BecomeRuled
<1>2. CASE Reuse(r)
  <2>1. PICK row \in RowFor(me) :
          Become(r, [Found(me, row.ran) EXCEPT
                       !.sound = @ /\ ~row.crossed,
                       !.taken = [@ EXCEPT ![row.tool] = row.over]])
    BY <1>2 DEF Reuse
  <2>2. PICK w : w = Found(me, row.ran)
    OBVIOUS
  <2>3. IsRun(row.ran) /\ FairList(row.ran.findings) /\ me.phase = "ask"
    BY <1>2, <2>1 DEF RowFor, Right, RowOk, Ruling, Reuse
  <2>4. Shape(w) /\ RuledBy(w)
    BY <1>0, <2>2, <2>3, FoundHolds, FoundIsRuled
  <2>5. w.phase = "ask"
    <3>1. Adds(me, row.ran, w)
      BY <1>0, <2>2, FoundIs
    <3> QED
      BY <3>1 DEF Adds
  <2> DEFINE sound == w.sound /\ ~row.crossed
             taken == [w.taken EXCEPT ![row.tool] = row.over]
  <2>6. PICK v : v = [w EXCEPT !.sound = sound, !.taken = taken]
    OBVIOUS
  <2>7. Become(r, v) /\ UNCHANGED rows
    BY <1>2, <2>1, <2>2, <2>6 DEF Reuse
  <2> HIDE DEF sound, taken
  <2>8. v.phase = "ask" /\ v.comments = w.comments /\ v.found = w.found
    BY <2>4, <2>5, <2>6 DEF Shape
  <2>9. RuledBy(v)
    BY <2>4, <2>5, <2>8 DEF RuledBy
  <2> QED
    BY <1>00, <2>7, <2>9, BecomeRuled
<1>3. CASE RunProvider(r)
  <2>1. PICK ran : ran = ProviderRun(t, me.cfg)
    OBVIOUS
  <2>2. PICK v : v = [me EXCEPT !.phase = "store", !.crossed = me.stale, !.ran = ran]
    OBVIOUS
  <2>3. /\ me.phase = "ask" /\ me.next <= Len(Providers) /\ UNCHANGED rows
        /\ Become(r, Found(me, ran)) \/ Become(r, v)
    BY <1>3, <2>1, <2>2 DEF RunProvider
  <2>4. IsRun(ran) /\ FairList(ran.findings)
    <3>1. t \in Tools /\ me.cfg \in Configs
      BY <1>01, <2>3
    <3> HIDE DEF t
    <3>2. IsRun(RunIn(tree, tool, t, me.cfg))
      BY <3>1, RunIsRun DEF Right
    <3>3. ran = RunIn(tree, tool, t, me.cfg)
      BY <2>1, InThisWorld
    <3> QED
      BY <2>1, <3>1, <3>2, <3>3, RunIsFair
  <2>5. RuledBy(Found(me, ran))
    BY <1>0, <2>3, <2>4, FoundIsRuled
  <2>6. v.phase = "store" /\ v.ran = ran /\ v.comments = me.comments /\ v.found = me.found
    BY <1>0, <2>2 DEF Shape
  <2>7. RuledBy(v)
    BY <1>0, <2>3, <2>4, <2>6 DEF RuledBy
  <2> QED
    BY <1>00, <2>3, <2>5, <2>7, BecomeRuled
<1>4. CASE StoreResult(r)
  <2> DEFINE row == [tool |-> t, version |-> me.keys[t], hash |-> me.hashes[t], ran |-> me.ran,
                     over |-> me.cfg.over, crossed |-> me.crossed]
  <2>1. /\ me.phase = "store" /\ Become(r, Found(me, me.ran))
        /\ rows' \subseteq rows \cup {row}
    BY <1>4 DEF StoreResult
  <2>2. FairList(me.ran.findings) /\ IsRun(me.ran)
    BY <1>0, <2>1 DEF RuledBy, Good, AtHand
  <2>3. row.ran = me.ran
    OBVIOUS
  <2> HIDE DEF row
  <2>4. \A x \in rows' : FairList(x.ran.findings)
    BY <2>1, <2>2, <2>3 DEF Ruling
  <2>5. RuledBy(Found(me, me.ran))
    BY <1>0, <2>1, <2>2, FoundIsRuled
  <2>6. \A q \in Runners : run'[q] = IF q = r THEN Found(me, me.ran) ELSE run[q]
    BY <2>1 DEF Become, Holds
  <2>7. \A q \in Runners : RuledBy(run'[q])
    BY <2>5, <2>6 DEF Ruling
  <2> QED
    BY <1>00, <2>4, <2>7 DEF Ruling, RuledBy, BaselineFile
<1> QED
  BY <1>1, <1>2, <1>3, <1>4 DEF Providing

LEMMA FairCommentsAreSited ==
  ASSUME NEW s, FairComments(s)
  PROVE  SitedComments(s)
BY FairIsSited DEF FairComments, SitedComments

\* Attached and deduplicated, the findings still have a place and a rule.
LEMMA FuseIsSited ==
  ASSUME NEW cfg, NEW comments, SitedComments(comments), NEW found, SitedList(found)
  PROVE  SitedComments(Fuse(cfg, comments, found))
<1> DEFINE Mine(n) == {f \in Range(InScope(cfg, found)) :
             AttachesTo(comments[n], f) /\ \A m \in 1..(n - 1) : ~AttachesTo(comments[m], f)}
           All(n) == comments[n].findings \o Keep(InScope(cfg, found), Mine(n))
           F(n) == [[comments[n] EXCEPT !.findings = All(n)] EXCEPT !.findings = DedupFindings(All(n))]
<1>1. PICK n \in Nat : n = Len(comments)
  BY ListIs DEF SitedComments
<1>2. \A k \in 1..n : HasFindings(comments[k]) /\ SitedList(comments[k].findings)
  BY <1>1 DEF SitedComments
<1>3. SitedList(InScope(cfg, found))
  BY KeepSited DEF InScope, OfFiles
<1> HIDE DEF Mine
<1>4. ASSUME NEW k \in 1..n
      PROVE  SitedList(All(k))
  <2>1. SitedList(Keep(InScope(cfg, found), Mine(k)))
    BY <1>3, KeepSited
  <2> QED
    BY <1>2, <2>1, ConcatSited
<1>5. ASSUME NEW k \in 1..n
      PROVE  Fuse(cfg, comments, found)[k] = F(k)
  <2> DEFINE attached == AttachFindings(comments, InScope(cfg, found))
  <2>1. attached[k] = [comments[k] EXCEPT !.findings = All(k)]
    <3>1. comments[k].findings \o Keep(InScope(cfg, found), Mine(k)) = All(k)
      OBVIOUS
    <3>2. attached[k] = [comments[k] EXCEPT !.findings = @ \o Keep(InScope(cfg, found), Mine(k))]
      BY <1>1 DEF AttachFindings, Mine
    <3> HIDE DEF attached
    <3> QED
      BY <1>2, <3>2 DEF HasFindings
  <2>2. Fuse(cfg, comments, found)[k]
          = [attached[k] EXCEPT !.findings = DedupFindings(attached[k].findings)]
    BY <1>1 DEF Fuse
  <2> HIDE DEF attached, All
  <2>3. attached[k].findings = All(k)
    BY <1>2, <2>1 DEF HasFindings
  <2> QED
    BY <2>1, <2>2, <2>3
<1> HIDE DEF All
<1>6. ASSUME NEW k \in 1..n
      PROVE  HasFindings(F(k)) /\ SitedList(F(k).findings)
  <2>1. PICK all : all = All(k)
    OBVIOUS
  <2>2. PICK left : left = DedupFindings(all)
    OBVIOUS
  <2>3. F(k) = [[comments[k] EXCEPT !.findings = all] EXCEPT !.findings = left]
    BY <2>1, <2>2
  <2>4. SitedList(left)
    BY <1>4, <2>1, <2>2, DedupSited
  <2> HIDE DEF F
  <2> QED
    BY <1>2, <2>3, <2>4 DEF HasFindings
<1> HIDE DEF F
<1>7. PICK out : out = Fuse(cfg, comments, found)
  OBVIOUS
<1>8. out = [k \in 1..n |-> out[k]] /\ Len(out) = n
  BY <1>1, <1>7 DEF Fuse
<1> QED
  BY <1>5, <1>6, <1>7, <1>8 DEF SitedComments, List

\* What fusion deduplicates, comment by comment.
LEMMA FuseMerges ==
  ASSUME NEW cfg, NEW comments, FairComments(comments), NEW found, FairList(found)
  PROVE  LET attached == AttachFindings(comments, InScope(cfg, found))
         IN  /\ Len(attached) = Len(comments)
             /\ \A n \in 1..Len(comments) :
                  OnePerCluster(Fuse(cfg, comments, found)[n].findings, attached[n].findings)
<1> DEFINE Mine(n) == {f \in Range(InScope(cfg, found)) :
             AttachesTo(comments[n], f) /\ \A m \in 1..(n - 1) : ~AttachesTo(comments[m], f)}
           attached == AttachFindings(comments, InScope(cfg, found))
<1>1. PICK n \in Nat : n = Len(comments)
  BY ListIs DEF FairComments
<1>2. Len(attached) = n
  BY <1>1 DEF AttachFindings
<1>3. FairList(InScope(cfg, found))
  BY KeepFair DEF InScope, OfFiles
<1>4. ASSUME NEW k \in 1..n
      PROVE  OnePerCluster(Fuse(cfg, comments, found)[k].findings, attached[k].findings)
  <2>1. HasFindings(comments[k]) /\ FairList(comments[k].findings)
    BY <1>1 DEF FairComments
  <2>2. PICK more : more = Keep(InScope(cfg, found), Mine(k))
    OBVIOUS
  <2>3. FairList(more)
    BY <1>3, <2>2, KeepFair
  <2>4. PICK all : all = comments[k].findings \o more
    OBVIOUS
  <2>5. FairList(all)
    BY <2>1, <2>3, <2>4, ConcatFair
  <2>6. attached[k] = [comments[k] EXCEPT !.findings = all]
    <3>1. attached[k] = [comments[k] EXCEPT !.findings = @ \o Keep(InScope(cfg, found), Mine(k))]
      BY <1>1 DEF AttachFindings
    <3> HIDE DEF attached, Mine
    <3> QED
      BY <2>1, <2>2, <2>4, <3>1 DEF HasFindings
  <2>7. Fuse(cfg, comments, found)[k]
          = [attached[k] EXCEPT !.findings = DedupFindings(attached[k].findings)]
    BY <1>1 DEF Fuse
  <2> HIDE DEF attached, Mine
  <2>8. attached[k].findings = all /\ HasFindings(attached[k])
    BY <2>1, <2>6 DEF HasFindings
  <2>9. PICK a : a = attached[k]
    OBVIOUS
  <2>10. PICK left : left = DedupFindings(all)
    OBVIOUS
  <2>11. Fuse(cfg, comments, found)[k] = [a EXCEPT !.findings = left]
    BY <2>7, <2>8, <2>9, <2>10
  <2>12. Fuse(cfg, comments, found)[k].findings = left
    BY <2>8, <2>9, <2>11 DEF HasFindings
  <2>13. OnePerCluster(left, all)
    BY <2>5, <2>10, DedupIsOnePerCluster
  <2> QED
    BY <2>8, <2>12, <2>13
<1> QED
  BY <1>1, <1>2, <1>4

\* The step that shows them.
LEMMA FinishMerges ==
  ASSUME Holds, Ruling, NEW r \in Runners, Finish(r), run'[r].phase = "report"
  PROVE  LET me == run[r]
             attached == AttachFindings(me.comments, InScope(me.cfg, me.found))
         IN  \A n \in 1..Len(attached) :
               OnePerCluster(run'[r].comments[n].findings, attached[n].findings)
<1>1. PICK me : me = run[r]
  OBVIOUS
<1>2. PICK attached : attached = AttachFindings(me.comments, InScope(me.cfg, me.found))
  OBVIOUS
<1>3. Shape(me) /\ RuledBy(me) /\ me.phase = "ask"
  BY <1>1 DEF Holds, Ruling, Finish
<1>4. FairComments(me.comments) /\ FairList(me.found)
  BY <1>3 DEF RuledBy
<1>5. PICK fused : fused = Fuse(me.cfg, me.comments, me.found)
  OBVIOUS
<1>6. run'[r].comments = fused
  <2> DEFINE found == Unattached(me.comments, InScope(me.cfg, me.found))
             loaded == IF baseline = None THEN {} ELSE baseline
             told == IF baseline = None THEN {} ELSE agreed
  <2>1. PICK v : v = [me EXCEPT !.phase = "report", !.keys = None, !.hashes = None,
                                !.comments = fused, !.found = found, !.loaded = loaded,
                                !.told = told]
    OBVIOUS
  <2>2. Become(r, Idle) \/ Become(r, v)
    BY <1>1, <1>5, <2>1 DEF Finish
  <2>3. run'[r] = Idle \/ run'[r] = v
    BY <2>2 DEF Become, Holds
  <2>4. Idle.phase # "report"
    BY DEF Idle
  <2>5. run'[r] = v
    BY <2>3, <2>4
  <2> HIDE DEF found, loaded, told
  <2>6. v.comments = fused
    BY <1>3, <2>1 DEF Shape
  <2> QED
    BY <2>5, <2>6
<1>7. /\ Len(attached) = Len(me.comments)
      /\ \A n \in 1..Len(me.comments) : OnePerCluster(fused[n].findings, attached[n].findings)
  BY <1>2, <1>4, <1>5, FuseMerges
<1> QED
  BY <1>1, <1>2, <1>6, <1>7

\* What leads from the providers to a report is the fusion.
LEMMA OnlyFinishReports ==
  ASSUME Holds, [Next]_vars, NEW r \in Runners,
         run[r].phase = "ask", run'[r].phase = "report"
  PROVE  Finish(r)
<1>1. DOMAIN run = Runners /\ Shape(run[r])
  BY DEF Holds
<1>2. ASSUME NEW p \in Runners, NEW v, Become(p, v), v.phase # "report"
      PROVE  FALSE
  <2>1. run'[r] = IF p = r THEN v ELSE run[r]
    BY <1>1, <1>2 DEF Become
  <2> QED
    BY <1>2, <2>1
<1>3. ASSUME NEW p \in Runners, NEW v, Become(p, v), p # r
      PROVE  FALSE
  <2>1. run'[r] = run[r]
    BY <1>1, <1>3 DEF Become
  <2> QED
    BY <2>1
<1>4. ~UNCHANGED vars
  BY DEF vars
<1>5. ~Change
  <2>1. ~Disturb
    <3> SUFFICES ASSUME Disturb  PROVE FALSE
      OBVIOUS
    <3>1. run'[r] = IF run[r].phase = "idle" THEN run[r]
                    ELSE [run[r] EXCEPT !.disturbed = TRUE, !.stale = run[r].phase \in {"ask", "store"}]
      BY DEF Disturb
    <3>2. run'[r].phase = run[r].phase
      BY <1>1, <3>1 DEF Shape
    <3> QED
      BY <3>2
  <2>2. ~UNCHANGED run
    OBVIOUS
  <2> QED
    BY <2>1, <2>2 DEF Change, Edit, ToolTurn, Reconfigure, WriteByHand
<1>6. PICK p \in Runners : Begin(p) \/ Providing(p) \/ Ending(p)
  BY <1>4, <1>5 DEF Next
<1>7. p = r
  <2>1. ASSUME p # r, NEW v, Become(p, v)  PROVE FALSE
    BY <1>3, <2>1
  <2>2. ~Begin(p) \/ p = r
    BY <2>1 DEF Begin
  <2>3. ~Providing(p) \/ p = r
    BY <2>1 DEF Providing, ComputeKeys, Reuse, RunProvider, StoreResult
  <2>4. ~Ending(p) \/ p = r
    BY <2>1 DEF Ending, Finish, Report, Prepare, Truncate, Fill, Stop
  <2> QED
    BY <1>6, <2>2, <2>3, <2>4
<1>8. ~Begin(r)
  BY DEF Begin
<1>9. ~Providing(r)
  <2>1. \A ran : Found(run[r], ran).phase = "ask"
    BY <1>1 DEF Shape, Found
  <2>2. ~ComputeKeys(r) /\ ~StoreResult(r)
    BY DEF ComputeKeys, StoreResult
  <2>3. ~Reuse(r)
    <3> SUFFICES ASSUME Reuse(r)  PROVE FALSE
      OBVIOUS
    <3>1. PICK row \in RowFor(run[r]) :
            Become(r, [Found(run[r], row.ran) EXCEPT
                         !.sound = @ /\ ~row.crossed,
                         !.taken = [@ EXCEPT ![row.tool] = row.over]])
      BY DEF Reuse
    <3>2. PICK v : v = [Found(run[r], row.ran) EXCEPT
                         !.sound = @ /\ ~row.crossed,
                         !.taken = [@ EXCEPT ![row.tool] = row.over]]
      OBVIOUS
    <3>3. v.phase = Found(run[r], row.ran).phase
      BY <1>1, <3>2 DEF Shape, Found
    <3> QED
      BY <1>2, <2>1, <3>1, <3>2, <3>3
  <2>4. ~RunProvider(r)
    <3> SUFFICES ASSUME RunProvider(r)  PROVE FALSE
      OBVIOUS
    <3> DEFINE t == Provider(run[r])
               ran == ProviderRun(t, run[r].cfg)
    <3>1. \/ Become(r, Found(run[r], ran))
          \/ Become(r, [run[r] EXCEPT !.phase = "store", !.crossed = run[r].stale, !.ran = ran])
      BY DEF RunProvider
    <3> HIDE DEF ran
    <3>2. [run[r] EXCEPT !.phase = "store", !.crossed = run[r].stale, !.ran = ran].phase = "store"
      BY <1>1 DEF Shape
    <3> QED
      BY <1>2, <2>1, <3>1, <3>2
  <2> QED
    BY <2>2, <2>3, <2>4 DEF Providing
<1>10. ~(Report(r) \/ Prepare(r) \/ Truncate(r) \/ Fill(r) \/ Stop(r))
  <2>1. Idle.phase # "report"
    BY DEF Idle
  <2> QED
    BY <1>2, <2>1 DEF Report, Prepare, Truncate, Fill, Stop
<1> QED
  BY <1>6, <1>7, <1>8, <1>9, <1>10 DEF Ending

LEMMA AcceptIsRuled ==
  ASSUME NEW comments, SitedComments(comments)
  PROVE  Ruled(Accept(comments))
<1> SUFFICES ASSUME NEW e \in CurrentIdentities(comments)  PROVE e.rule \in Rules
  BY DEF Ruled, Accept
<1>1. PICK n \in 1..Len(comments) :
        \E i \in 1..Len(comments[n].findings) : e = Entry(comments[n], comments[n].findings[i].rule)
  BY DEF CurrentIdentities
<1>3. PICK i \in 1..Len(comments[n].findings) : e = Entry(comments[n], comments[n].findings[i].rule)
  BY <1>1
<1>2. comments[n].findings[i].rule \in Rules
  BY <1>1, <1>3 DEF SitedComments, SitedList, Sited, Keyed
<1> QED
  BY <1>2, <1>3 DEF Entry

LEMMA EndingRuled ==
  ASSUME Holds, Right, Ruling, NEW r \in Runners, Ending(r)
  PROVE  Ruling'
<1> DEFINE me == run[r]
<1>0. Shape(me) /\ RuledBy(me) /\ BaselineFile(baseline)
  BY DEF Holds, Ruling
<1>1. CASE Finish(r)
  <2> DEFINE comments == Fuse(me.cfg, me.comments, me.found)
             found == Unattached(me.comments, InScope(me.cfg, me.found))
             loaded == IF baseline = None THEN {} ELSE baseline
             told == IF baseline = None THEN {} ELSE agreed
  <2>1. PICK v : v = [me EXCEPT !.phase = "report", !.keys = None, !.hashes = None,
                                !.comments = comments, !.found = found, !.loaded = loaded,
                                !.told = told]
    OBVIOUS
  <2>2. (Become(r, Idle) \/ Become(r, v)) /\ UNCHANGED <<rows, baseline>> /\ me.phase = "ask"
    BY <1>1, <2>1 DEF Finish
  <2>3. SitedComments(comments)
    BY <1>0, <2>2, FuseIsSited, FairCommentsAreSited, FairIsSited DEF RuledBy
  <2> HIDE DEF comments, found, loaded, told
  <2>4. v.phase = "report" /\ v.comments = comments
    BY <1>0, <2>1 DEF Shape
  <2>5. RuledBy(v)
    BY <2>3, <2>4 DEF RuledBy
  <2> QED
    BY <1>0, <2>2, <2>5, IdleIsRuled, BecomeRuled
<1>2. CASE Prepare(r)
  <2> DEFINE accepted == Accept(me.comments)
             left == Prune(baseline, me.comments)
  <2>1. PICK a : a = [me EXCEPT !.phase = "write", !.op = "accept", !.entries = accepted]
    OBVIOUS
  <2>2. PICK p : p = [me EXCEPT !.phase = "write", !.op = "prune", !.loaded = baseline,
                                !.told = agreed, !.entries = left]
    OBVIOUS
  <2>3. /\ Become(r, Idle) \/ Become(r, a) \/ (baseline \notin {None, Torn} /\ Become(r, p))
        /\ UNCHANGED <<rows, baseline>> /\ me.phase = "report"
    BY <1>2, <2>1, <2>2 DEF Prepare
  <2>4. Ruled(accepted)
    BY <1>0, <2>3, AcceptIsRuled DEF RuledBy
  <2>5. baseline \notin {None, Torn} => Ruled(left)
    BY <1>0 DEF BaselineFile, Ruled, Prune
  <2> HIDE DEF accepted, left
  <2>6. a.phase = "write" /\ a.entries = accepted /\ p.phase = "write" /\ p.entries = left
    BY <1>0, <2>1, <2>2 DEF Shape
  <2>7. RuledBy(a) /\ (baseline \notin {None, Torn} => RuledBy(p))
    BY <2>4, <2>5, <2>6 DEF RuledBy
  <2> QED
    BY <1>0, <2>3, <2>7, IdleIsRuled, BecomeRuled
<1>3. CASE Truncate(r)
  <2>1. PICK v : v = [me EXCEPT !.phase = "fill", !.comments = <<>>, !.found = <<>>, !.loaded = {}]
    OBVIOUS
  <2>2. v.phase = "fill" /\ v.entries = me.entries
    BY <1>0, <2>1 DEF Shape
  <2>3. Become(r, v) /\ UNCHANGED rows /\ baseline' = Torn /\ me.phase = "write"
    BY <1>3, <2>1 DEF Truncate
  <2>4. RuledBy(v)
    BY <1>0, <2>2, <2>3 DEF RuledBy
  <2> QED
    BY <2>3, <2>4, BecomeRuled DEF BaselineFile
<1>4. CASE Fill(r)
  <2>1. Become(r, Idle) /\ UNCHANGED rows /\ baseline' = me.entries /\ me.phase = "fill"
    BY <1>4 DEF Fill
  <2>2. BaselineFile(baseline')
    BY <1>0, <2>1 DEF RuledBy, Ruled, BaselineFile
  <2> QED
    BY <2>1, <2>2, IdleIsRuled, BecomeRuled
<1>5. CASE Report(r) \/ Stop(r)
  <2>1. Become(r, Idle) /\ UNCHANGED <<rows, baseline>>
    BY <1>5 DEF Report, Stop
  <2> QED
    BY <1>0, <2>1, IdleIsRuled, BecomeRuled
<1> QED
  BY <1>1, <1>2, <1>3, <1>4, <1>5 DEF Ending

LEMMA RulingNext == Holds /\ Right /\ Ruling /\ [Next]_vars => Ruling'
<1> SUFFICES ASSUME Holds, Right, Ruling, [Next]_vars  PROVE Ruling'
  OBVIOUS
<1>1. ASSUME NEW r \in Runners, Begin(r)  PROVE Ruling'
  <2>1. PICK v : v = [Idle EXCEPT !.phase = "walked", !.cfg = config, !.comments = Scan(config)]
    OBVIOUS
  <2>2. Become(r, v) /\ UNCHANGED <<rows, baseline>>
    BY <1>1, <2>1 DEF Begin
  <2>3. v.phase = "walked" /\ v.comments = Scan(config) /\ v.found = <<>>
    BY <2>1 DEF Idle
  <2>4. FairComments(Scan(config))
    BY ScanIsFair, InThisWorld DEF Right
  <2>5. RuledBy(v)
    BY <2>3, <2>4, EmptyIsFair DEF RuledBy
  <2> QED
    BY <2>2, <2>5, BecomeRuled DEF Ruling
<1>2. CASE Change
  <2>1. UNCHANGED rows /\ (UNCHANGED run \/ Disturb) /\ (UNCHANGED baseline \/ baseline' \in Baselines)
    BY <1>2 DEF Change, Edit, ToolTurn, Reconfigure, WriteByHand
  <2>2. ASSUME Disturb, NEW r \in Runners  PROVE RuledBy(run'[r])
    <3>1. Shape(run[r]) /\ RuledBy(run[r])
      BY DEF Holds, Ruling
    <3>2. PICK v : v = Disturbed(run[r])
      OBVIOUS
    <3>3. run'[r] = run[r] \/ run'[r] = v
      BY <2>2, <3>2 DEF Disturb, Disturbed
    <3>4. /\ v.phase = run[r].phase /\ v.comments = run[r].comments /\ v.found = run[r].found
          /\ v.ran = run[r].ran /\ v.entries = run[r].entries
      BY <3>1, <3>2 DEF Shape, Disturbed
    <3>5. RuledBy(v)
      BY <3>1, <3>4 DEF RuledBy
    <3> QED
      BY <3>1, <3>3, <3>5
  <2>3. \A r \in Runners : RuledBy(run'[r])
    BY <2>1, <2>2 DEF Ruling
  <2>4. BaselineFile(baseline')
    BY <2>1 DEF Ruling, BaselineFile
  <2> QED
    BY <2>1, <2>3, <2>4 DEF Ruling, RuledBy, BaselineFile
<1>3. CASE UNCHANGED vars
  BY <1>3 DEF vars, Ruling, RuledBy, BaselineFile
<1> QED
  BY <1>1, <1>2, <1>3, ProvidingRuled, EndingRuled DEF Next

LEMMA RulingInit == Init => Ruling
<1> SUFFICES ASSUME Init  PROVE Ruling
  OBVIOUS
<1>1. rows = {} /\ baseline = None /\ run = [r \in Runners |-> Idle]
  BY DEF Init
<1>2. \A r \in Runners : run[r] = Idle
  <2> HIDE DEF Idle
  <2> QED
    BY <1>1
<1> HIDE DEF Idle
<1> QED
  BY <1>1, <1>2, IdleIsRuled DEF Ruling, BaselineFile

-----------------------------------------------------------------------------
(* The theorems                                                             *)

LEMMA RightAlways == Spec => [](Holds /\ Right)
<1>1. Init => Holds /\ Right
  BY HoldsInit, RightInit
<1>2. (Holds /\ Right) /\ [Next]_vars => (Holds /\ Right)'
  BY HoldsNext, RightNext
<1> QED
  BY <1>1, <1>2, PTL DEF Spec

LEMMA TypingAlways == Spec => []Typing
<1>1. Init => Holds /\ Right /\ Typing
  BY HoldsInit, RightInit, TypingInit
<1>2. (Holds /\ Right /\ Typing) /\ [Next]_vars => (Holds /\ Right /\ Typing)'
  BY HoldsNext, RightNext, TypingNext
<1> QED
  BY <1>1, <1>2, PTL DEF Spec

LEMMA RulingAlways == Spec => []Ruling
<1>1. Init => Holds /\ Right /\ Ruling
  BY HoldsInit, RightInit, RulingInit
<1>2. (Holds /\ Right /\ Ruling) /\ [Next]_vars => (Holds /\ Right /\ Ruling)'
  BY HoldsNext, RightNext, RulingNext
<1> QED
  BY <1>1, <1>2, PTL DEF Spec

\* Every variable has its type, under all interleavings, failures and changes: a
\* result that is stored has a key, only results of providers that ran are
\* cached, and whatever `baseline accept` and `baseline prune` have written, an
\* entry of the baseline file has a provider's rule or is one an author wrote.
THEOREM CheckTypes == Spec => []TypeOK
<1>1. Right /\ Typing => Types
  BY TypesAreRight
<1>2. Types /\ Ruling => TypeOK
  BY DEF Ruling, TypeOK
<1> QED
  BY <1>1, <1>2, RightAlways, TypingAlways, RulingAlways, PTL

\* One issue is shown once: whatever was edited, failed or cached on the way, each
\* comment a check shows has one finding for each cluster of overlapping findings of
\* a category that the detectors and the tools made of it, the worst of them, with
\* the names of the others (fuse in ops/check.rs, dedup.rs).
THEOREM IssuesAreMerged == Spec => EachIssueOnce
<1>1. Holds /\ Ruling /\ [Next]_vars =>
        [\A r \in Runners :
           LET me == run[r]
               attached == AttachFindings(me.comments, InScope(me.cfg, me.found))
           IN  me.phase = "ask" /\ run'[r].phase = "report" =>
                 \A n \in 1..Len(attached) :
                   OnePerCluster(run'[r].comments[n].findings, attached[n].findings)]_vars
  <2> SUFFICES ASSUME Holds, Ruling, [Next]_vars, NEW r \in Runners,
                      run[r].phase = "ask", run'[r].phase = "report"
               PROVE  LET me == run[r]
                          attached == AttachFindings(me.comments, InScope(me.cfg, me.found))
                      IN  \A n \in 1..Len(attached) :
                            OnePerCluster(run'[r].comments[n].findings, attached[n].findings)
    OBVIOUS
  <2>1. Finish(r)
    BY OnlyFinishReports
  <2> QED
    BY <2>1, FinishMerges
<1> QED
  BY <1>1, RightAlways, RulingAlways, PTL DEF Spec, EachIssueOnce

\* A `baseline prune`, whatever runs, is edited or fails beside it, uncovers no
\* finding of its own check that an entry with the finding's own rule hid, and
\* covers none: `prune` in baseline/mod.rs.
THEOREM PruneUncoversNothing == Spec => []PruneKeepsHiding
<1>1. Spec => []Holds  BY HoldsInit, HoldsNext, PTL DEF Spec
<1> QED  BY <1>1, PruneShows, PTL

\* Whatever checks, failures and configurations came before, a row of
\* provider_results is what that version of the tool says of the contents its
\* input hash stands for: `run` and `store` in provider_cache.rs.
THEOREM RowsAreOfTheirKeys == Spec => []RowIsOfItsKey
<1>1. Holds /\ Right => RowIsOfItsKey  BY RowsAreRight
<1> QED  BY <1>1, RightAlways, PTL

\* Of the cache only the severities can be seen: a check in a world that stands
\* still shows what it would show without one, but that the findings of a taken row
\* rank by the [severity] table the row was stored under; checks that took a row of
\* a run whose keys were no longer those of the tree or the tool are not spoken of
\* (ops/check.rs over provider_cache.rs).
THEOREM CacheIsUnseen == Spec => []ReportIsFresh
<1>1. Holds /\ Right => ReportIsFresh  BY ReportsAreRight
<1> QED  BY <1>1, RightAlways, PTL

\* What was accepted stays accepted: a check of the tree, tools and configuration
\* a baseline was accepted in, which the same tools answer and whose findings rank
\* by the same tables, shows nothing, also after any number of prunes and with rows
\* that other checks stored, but for those of crossed runs.
THEOREM AcceptedStaysClean == Spec => []AcceptedIsClean
<1>1. Holds /\ Right => AcceptedIsClean  BY AcceptedAreRight
<1> QED  BY <1>1, RightAlways, PTL

\* A CI diff never passes for want of a result: `verdict` in ci/diff.rs, over
\* the run states of ops/check.rs.
THEOREM NoPassForWantOfResults == Spec => []PassSurvivesRepair
<1>1. Holds /\ Right => PassSurvivesRepair  BY PassesAreRight
<1> QED  BY <1>1, RightAlways, PTL
=============================================================================
