-------------------------- MODULE IndexBuildProofs --------------------------
(***************************************************************************)
(* What a check leaves in the index when no other check crosses it: the    *)
(* vectors of one model, ids that keep their comments, and, once it has    *)
(* run to its end, the whole list.  Proved for every set of writers and    *)
(* clients, every tree and any number of checks.                           *)
(***************************************************************************)
EXTENDS IndexStoreProofs

-----------------------------------------------------------------------------
(* The inductive invariant                                                  *)

Crossed(c) == begun[c].crossed

\* Every check persisting was entered when it began, as the last one unless
\* another crossed it.
Checks ==
  /\ \A p, q \in Writers :
       p # q /\ Active(p) /\ Active(q) => run[p].check # run[q].check /\ Crossed(run[p].check)
  /\ \A p \in Writers : Active(p) =>
       LET c == begun[run[p].check] IN
         /\ c.tree = run[p].tree /\ c.model = run[p].model /\ ~c.whole
         /\ Crossed(Len(begun)) \/ run[p].check = Len(begun)

\* A writer that nobody crossed opens no other check's file, and keeps the
\* file it opened; whoever shares a file with another is crossed.
OursAt(p) ==
  /\ run[p].pc = "open" /\ ~Crossed(run[p].check) => path = None \/ made[path] = 0
  /\ run[p].pc \in Inserting \cup {"next"} =>
       LET m == made[run[p].file] IN
         /\ m # 0 /\ (m = run[p].check \/ Crossed(m))
         /\ ~Crossed(run[p].check) => path = run[p].file /\ m = run[p].check

\* What a session creates is empty until a check opens it.
Ours ==
  /\ \A p \in Writers : OursAt(p)
  /\ \A f \in 1..Len(files) : made[f] = 0 => files[f] = EmptyFile

\* What one check writes starts its list and has its model's vectors.
OfOneCheck(f, cs, model) ==
  /\ Len(f.rows) <= Len(cs) /\ \A i \in 1..Len(f.rows) : f.rows[i] = cs[i]
  /\ \A e \in f.vec : e.vector.of = model

FileOfOneCheck(f) ==
  Uncrossed(made[f]) => OfOneCheck(files[f], CommentsOf[begun[made[f]].tree], begun[made[f]].model)

Files ==
  /\ \A e \in cache : e.vector.of = e.model
  /\ \A p \in Writers : run[p].pc \in {"store", "vec"} => run[p].vector.of = run[p].model
  /\ \A f \in 1..Len(files) : FileOfOneCheck(f)

\* How far the three other tables are while comment `at` is inserted.
Texted(r) == IF r.pc = "fts" THEN r.at - 1 ELSE r.at
Vectored(r) == IF r.pc \in {"fts", "embed", "store", "vec"} THEN r.at - 1 ELSE r.at
Settled(r) == IF r.pc \in Inserting THEN r.at - 1 ELSE r.at

\* The findings at the end are the first ones of the comment being inserted.
Latest(stored, n, expected, filed) ==
  /\ filed <= Len(stored) /\ filed <= Len(expected)
  /\ \A j \in 1..Len(stored) : stored[j].id = n <=> j > Len(stored) - filed
  /\ \A i \in 1..filed : stored[Len(stored) - filed + i].finding = expected[i]

\* What is in the file of a check that nobody crossed, at each stage.
Progress(f, cs, r) ==
  /\ Len(f.rows) = r.at /\ r.at <= Len(cs)
  /\ {e.id : e \in f.fts} = 1..Texted(r)
  /\ {e.id : e \in f.vec} = 1..Vectored(r)
  /\ {e.id : e \in f.identity} = 1..Settled(r)
  /\ \A e \in f.identity : e.is = Identity(cs, e.id)
  /\ \A n \in 1..Settled(r) : InOrder(f.findings, n, cs[n].findings)
  /\ \A j \in 1..Len(f.findings) : f.findings[j].id <= r.at
  /\ r.pc \in Inserting => r.id = r.at /\ Latest(f.findings, r.at, cs[r.at].findings, r.filed)

BuildingAt(p) ==
  /\ run[p].pc \in {"exists", "remove", "open"} => run[p].at = 0
  /\ run[p].pc \in Inserting \cup {"next"} /\ ~Crossed(run[p].check) =>
       Progress(File(p), CommentsHeld(p), run[p])

Building == \A p \in Writers : BuildingAt(p)

\* What a client holds was read from the list of the check it remembers.
AskedAt(a) ==
  /\ a.pc = "fetch" => a.id \in 1..Len(files[a.file].rows)
  /\ a.hit # None =>
       /\ a.hit.check \in 0..Len(begun) /\ a.id \in Ids
       /\ Uncrossed(a.hit.check) => a.hit.comment = CommentsOf[begun[a.hit.check].tree][a.id]
  /\ a.pc = "answered" =>
       /\ a.hit # None /\ a.answer.check \in 0..Len(begun)
       /\ Uncrossed(a.answer.check) =>
            a.answer.comment \in {None, CommentsOf[begun[a.answer.check].tree][a.id]}

Asked == \A s \in Clients : AskedAt(ask[s])

OneBuild == Checks /\ Ours /\ Files /\ Building /\ Asked /\ WholeWhenDone

-----------------------------------------------------------------------------
(* What each step does                                                      *)

\* The other writers keep what they hold.
OnlyOf(p) == \A q \in Writers : q # p => run'[q] = run[q]

\* A writer goes on with the same check.
Continues(p) ==
  /\ run'[p].tree = run[p].tree /\ run'[p].model = run[p].model /\ run'[p].check = run[p].check

LEMMA BeginDoes ==
  ASSUME Sound, NEW p \in Writers, Begin(p)
  PROVE  /\ OnlyOf(p) /\ ~Active(p)
         /\ run'[p].pc = "exists" /\ run'[p].at = 0 /\ run'[p].check = Len(begun) + 1
         /\ Len(begun') = Len(begun) + 1 /\ Len(begun) \in Nat
         /\ \A c \in 1..Len(begun) :
              /\ begun'[c].tree = begun[c].tree /\ begun'[c].model = begun[c].model
              /\ begun'[c].whole = begun[c].whole
              /\ begun'[c].crossed <=> begun[c].crossed \/ \E q \in Writers : run[q].check = c
         /\ LET b == begun'[Len(begun) + 1] IN
              /\ b.tree = run'[p].tree /\ b.model = run'[p].model /\ ~b.whole
              /\ b.crossed <=> \E q \in Writers : Active(q)
  <1>1. PICK t \in Trees, m \in Models :
          /\ run' = [run EXCEPT ![p] = [Idle EXCEPT !.pc = "exists", !.tree = t, !.model = m,
                                                    !.check = Len(begun) + 1]]
          /\ begun' = Append([c \in 1..Len(begun) |->
                                [begun[c] EXCEPT !.crossed = @ \/ \E q \in Writers : run[q].check = c]],
                             [tree |-> t, model |-> m, whole |-> FALSE,
                              crossed |-> \E q \in Writers : Active(q)])
    BY DEF Begin
  <1> DEFINE x(c) == \E q \in Writers : run[q].check = c
             old == [c \in 1..Len(begun) |-> [begun[c] EXCEPT !.crossed = @ \/ x(c)]]
             y == \E q \in Writers : Active(q)
             one == [tree |-> t, model |-> m, whole |-> FALSE, crossed |-> y]
             r == [Idle EXCEPT !.pc = "exists", !.tree = t, !.model = m, !.check = Len(begun) + 1]
             Check == [tree : Trees, model : Models, whole : BOOLEAN, crossed : BOOLEAN]
  <1>2. Len(begun) \in Nat
    BY DEF Sound, TypeOK
  <1>3. begun' = Append(old, one) /\ run' = [run EXCEPT ![p] = r]
    BY <1>1
  <1>4. ASSUME NEW c \in 1..Len(begun)
        PROVE  /\ old[c] \in Check /\ old[c].tree = begun[c].tree /\ old[c].model = begun[c].model
               /\ old[c].whole = begun[c].whole /\ (old[c].crossed <=> begun[c].crossed \/ x(c))
    <2>1. begun[c] \in Check
      BY BegunTrees
    <2> DEFINE z == x(c)
    <2> HIDE DEF x
    <2>2. old[c] = [begun[c] EXCEPT !.crossed = @ \/ z]
      OBVIOUS
    <2> HIDE DEF z, old
    <2>3. z \in BOOLEAN
      BY DEF z, x
    <2>4. /\ old[c] \in Check /\ old[c].tree = begun[c].tree /\ old[c].model = begun[c].model
          /\ old[c].whole = begun[c].whole /\ old[c].crossed = (begun[c].crossed \/ z)
      BY <2>1, <2>2, <2>3
    <2>5. QED
      BY <2>4 DEF z
  <1>5. one \in Check /\ one.tree = t /\ one.model = m /\ ~one.whole /\ (one.crossed <=> y)
    OBVIOUS
  <1>6. DOMAIN old = 1..Len(begun) /\ old = [c \in 1..Len(begun) |-> old[c]]
    OBVIOUS
  <1> HIDE DEF old, one, Check, x, y
  <1>7. old \in Seq(Check) /\ Len(old) = Len(begun)
    BY <1>2, <1>4, <1>6
  <1>8. /\ Len(begun') = Len(begun) + 1 /\ begun'[Len(begun) + 1] = one
        /\ \A c \in 1..Len(begun) : begun'[c] = old[c]
    BY <1>2, <1>3, <1>5, <1>7, OneMore
  <1>9. r.pc = "exists" /\ r.at = 0 /\ r.check = Len(begun) + 1 /\ r.tree = t /\ r.model = m
    BY DEF Idle
  <1> HIDE DEF r
  <1>10. run'[p] = r /\ OnlyOf(p)
    BY <1>3 DEF Sound, TypeOK, OnlyOf
  <1>11. ~Active(p)
    BY DEF Begin
  <1>12. QED
    BY <1>2, <1>4, <1>5, <1>8, <1>9, <1>10, <1>11 DEF x, y

LEMMA IdleHolds == Idle.pc = "idle" /\ Idle.at = 0 /\ Idle.check = 0
  BY DEF Idle

LEMMA LookForStaleDoes ==
  ASSUME Sound, NEW p \in Writers, LookForStale(p)
  PROVE  /\ OnlyOf(p) /\ Continues(p) /\ run[p].pc = "exists" /\ run'[p].at = run[p].at
         /\ run'[p].pc = IF path # None THEN "remove" ELSE "open"
  <1>1. run[p] \in Run /\ run \in [Writers -> Run]
    BY DEF Sound, TypeOK
  <1>2. PICK v : v = IF StaleBuild THEN "remove" ELSE "open"
    OBVIOUS
  <1>3. run' = [run EXCEPT ![p].pc = v] /\ run[p].pc = "exists"
    BY <1>2 DEF LookForStale
  <1>4. QED
    BY <1>1, <1>2, <1>3 DEF Run, OnlyOf, Continues, StaleBuild

LEMMA RemoveStaleDoes ==
  ASSUME Sound, NEW p \in Writers, RemoveStale(p)
  PROVE  /\ OnlyOf(p) /\ run[p].pc = "remove" /\ path' = None
         /\ \/ run'[p] = Idle
            \/ Continues(p) /\ run'[p].pc = "open" /\ run'[p].at = run[p].at
  <1>1. run[p] \in Run /\ run \in [Writers -> Run]
    BY DEF Sound, TypeOK
  <1>2. CASE path = None
    BY <1>1, <1>2 DEF RemoveStale, OnlyOf
  <1>3. CASE path # None
    <2>1. run' = [run EXCEPT ![p] = [@ EXCEPT !.pc = "open"]] /\ run[p].pc = "remove" /\ path' = None
      BY <1>3 DEF RemoveStale
    <2>2. QED
      BY <1>1, <2>1 DEF Run, OnlyOf, Continues
  <1>4. QED
    BY <1>2, <1>3

LEMMA OpenIndexDoes ==
  ASSUME Sound, NEW p \in Writers, OpenIndex(p)
  PROVE  /\ OnlyOf(p) /\ Continues(p) /\ run[p].pc = "open"
         /\ run'[p].pc = "next" /\ run'[p].at = run[p].at /\ run'[p].file = path'
         /\ path' # None /\ path' \in 1..Len(files')
         /\ made'[path'] = run[p].check
         /\ \A f \in 1..Len(files) : f # path' => made'[f] = made[f]
         /\ \A f \in 1..Len(files) : files'[f] = files[f]
         /\ Len(files) \in Nat
         /\ \/ /\ path = None /\ path' = Len(files) + 1 /\ Len(files') = Len(files) + 1
               /\ files'[path'] = EmptyFile
            \/ path # None /\ path' = path /\ files' = files
  <1>1. run[p] \in Run /\ run \in [Writers -> Run] /\ run[p].check \in Nat
    BY DEF Sound, TypeOK, Run
  <1>2. /\ files' \in Seq(IndexFile) /\ path' \in 1..Len(files') /\ Len(files) \in Nat
        /\ \A f \in 1..Len(files) : files'[f] = files[f]
    BY Opened DEF OpenIndex, Sound, TypeOK
  <1>3. path' # None /\ path' \in Nat
    BY <1>2, IndexAssumption
  <1>4. run' = [run EXCEPT ![p].pc = "next", ![p].file = path'] /\ run[p].pc = "open"
    BY DEF OpenIndex
  <1>5. /\ OnlyOf(p) /\ Continues(p)
        /\ run'[p].pc = "next" /\ run'[p].at = run[p].at /\ run'[p].file = path'
    BY <1>1, <1>3, <1>4 DEF Run, OnlyOf, Continues
  <1>6. made \in Seq(Nat) /\ Len(made) = Len(files)
    BY DEF Sound, TypeOK
  <1>7. CASE path = None
    <2>1. /\ files' = Append(files, EmptyFile) /\ path' = Len(files) + 1 /\ made' = Append(made, run[p].check)
      BY <1>7 DEF OpenIndex
    <2>2. files \in Seq(IndexFile) /\ EmptyFile \in IndexFile
      BY DEF Sound, TypeOK, EmptyFile, IndexFile
    <2>3. Len(files') = Len(files) + 1 /\ files'[Len(files) + 1] = EmptyFile
      BY <2>1, <2>2, OneMore
    <2>4. made'[Len(made) + 1] = run[p].check /\ \A f \in 1..Len(made) : made'[f] = made[f]
      BY <1>1, <1>6, <2>1, OneMore
    <2>5. QED
      BY <1>2, <1>3, <1>4, <1>5, <1>6, <1>7, <2>1, <2>3, <2>4
  <1>8. CASE path # None
    <2>1. files' = files /\ path' = path /\ made' = [made EXCEPT ![path] = run[p].check]
      BY <1>8 DEF OpenIndex
    <2>2. made'[path] = run[p].check /\ \A f \in 1..Len(made) : f # path => made'[f] = made[f]
      BY <1>1, <1>2, <1>6, <2>1, ReplaceOne
    <2>3. QED
      BY <1>2, <1>3, <1>4, <1>5, <1>6, <1>8, <2>1, <2>2
  <1>9. QED
    BY <1>7, <1>8

\* The file a writer has open becomes g, the others stay.
Writes(p, g) ==
  /\ Len(files') = Len(files) /\ files'[run[p].file] = g
  /\ \A f \in 1..Len(files) : f # run[p].file => files'[f] = files[f]

\* The writer is at the same comment of the same file.
StaysAt(p) ==
  /\ Continues(p) /\ run'[p].file = run[p].file /\ run'[p].at = run[p].at /\ run'[p].id = run[p].id

\* A writer that has its index open, and the file as it is.
LEMMA FileHeld ==
  ASSUME Sound, NEW p \in Writers, run[p].pc \in Inserting \cup {"next"}
  PROVE  /\ run[p] \in Run /\ run \in [Writers -> Run] /\ Held(p)
         /\ run[p].file \in 1..Len(files) /\ files[run[p].file] = File(p)
         /\ File(p) \in IndexFile /\ File(p).rows \in Seq(Comments)
         /\ File(p).findings \in Seq([id : Ids, finding : Findings])
         /\ CommentsHeld(p) \in Seq(Comments)
  <1>1. run[p] \in Run /\ run \in [Writers -> Run] /\ Held(p) /\ files \in Seq(IndexFile)
    BY DEF Sound, TypeOK
  <1>2. run[p].file \in 1..Len(files) /\ files[run[p].file] = File(p)
    BY <1>1 DEF Held, File
  <1>3. File(p) \in IndexFile
    BY <1>1, <1>2
  <1>4. File(p).rows \in Seq(Comments) /\ File(p).findings \in Seq([id : Ids, finding : Findings])
    BY <1>3 DEF IndexFile
  <1>5. CommentsHeld(p) \in Seq(Comments)
    BY <1>1, IndexAssumption DEF CommentsHeld, Run
  <1>6. QED
    BY <1>1, <1>2, <1>3, <1>4, <1>5

LEMMA WritesOne ==
  ASSUME Sound, NEW p \in Writers, run[p].file \in 1..Len(files), NEW g \in IndexFile,
         files' = [files EXCEPT ![run[p].file] = g]
  PROVE  Writes(p, g)
  <1>1. files \in Seq(IndexFile)
    BY DEF Sound, TypeOK
  <1>2. QED
    BY <1>1, ReplaceOne DEF Writes

LEMMA InsertCommentDoes ==
  ASSUME Sound, NEW p \in Writers, InsertComment(p)
  PROVE  /\ OnlyOf(p) /\ Continues(p) /\ run[p].pc = "next" /\ run'[p].pc = "fts"
         /\ run'[p].file = run[p].file /\ run'[p].filed = 0
         /\ run'[p].at = run[p].at + 1 /\ run'[p].at \in 1..Len(CommentsHeld(p))
         /\ run'[p].id = Len(File(p).rows) + 1
         /\ \E g \in IndexFile :
              /\ Writes(p, g)
              /\ g.rows = Append(File(p).rows, CommentsHeld(p)[run'[p].at])
              /\ g.fts = File(p).fts /\ g.vec = File(p).vec /\ g.findings = File(p).findings
              /\ g.identity = File(p).identity
  <1>1. PICK n \in Upcoming(p) :
          /\ files' = [files EXCEPT ![run[p].file].rows = Append(@, CommentsHeld(p)[n])]
          /\ run' = [run EXCEPT ![p].pc = "fts", ![p].at = n, ![p].filed = 0,
                                ![p].id = Len(File(p).rows) + 1]
    BY DEF InsertComment
  <1>2. run[p].pc = "next"
    BY DEF InsertComment
  <1>3. /\ run[p] \in Run /\ run \in [Writers -> Run]
        /\ run[p].file \in 1..Len(files) /\ files[run[p].file] = File(p)
        /\ File(p) \in IndexFile /\ File(p).rows \in Seq(Comments) /\ CommentsHeld(p) \in Seq(Comments)
    BY <1>2, FileHeld
  <1>4. n = run[p].at + 1 /\ n \in 1..Len(CommentsHeld(p)) /\ n \in Nat
    BY <1>3 DEF Upcoming, Run
  <1>5. PICK id : id = Len(File(p).rows) + 1
    OBVIOUS
  <1>6. id \in Nat
    BY <1>3, <1>5
  <1>7. run' = [run EXCEPT ![p].pc = "fts", ![p].at = n, ![p].filed = 0, ![p].id = id]
    BY <1>1, <1>5
  <1>8. /\ OnlyOf(p) /\ Continues(p) /\ run'[p].pc = "fts" /\ run'[p].file = run[p].file
        /\ run'[p].filed = 0 /\ run'[p].at = n /\ run'[p].id = id
    BY <1>3, <1>4, <1>6, <1>7 DEF Run, OnlyOf, Continues
  <1>9. PICK rows : rows = Append(File(p).rows, CommentsHeld(p)[n])
    OBVIOUS
  <1>10. rows \in Seq(Comments)
    <2>1. CommentsHeld(p)[n] \in Comments
      BY <1>3, <1>4
    <2>2. QED
      BY <1>3, <1>9, <2>1
  <1>11. PICK g : g = [File(p) EXCEPT !.rows = rows]
    OBVIOUS
  <1>12. /\ g \in IndexFile /\ g.rows = rows /\ g.fts = File(p).fts /\ g.vec = File(p).vec
         /\ g.findings = File(p).findings /\ g.identity = File(p).identity
    BY <1>3, <1>10, <1>11 DEF IndexFile
  <1>13. files' = [files EXCEPT ![run[p].file] = g]
    BY <1>1, <1>3, <1>9, <1>11 DEF File
  <1>14. Writes(p, g)
    BY <1>3, <1>12, <1>13, WritesOne
  <1>15. QED
    BY <1>2, <1>4, <1>5, <1>8, <1>9, <1>12, <1>14

LEMMA IndexTextDoes ==
  ASSUME Sound, NEW p \in Writers, IndexText(p)
  PROVE  /\ OnlyOf(p) /\ StaysAt(p) /\ run[p].pc = "fts" /\ run'[p].pc = "embed"
         /\ run'[p].filed = run[p].filed
         /\ \E g \in IndexFile :
              /\ Writes(p, g) /\ g.rows = File(p).rows
              /\ {e.id : e \in g.fts} = {e.id : e \in File(p).fts} \cup {run[p].id}
              /\ g.vec = File(p).vec /\ g.findings = File(p).findings /\ g.identity = File(p).identity
  <1>1. run[p].pc = "fts" /\ run' = [run EXCEPT ![p].pc = "embed"]
    BY DEF IndexText
  <1>2. /\ run[p] \in Run /\ run \in [Writers -> Run] /\ Held(p)
        /\ run[p].file \in 1..Len(files) /\ files[run[p].file] = File(p) /\ File(p) \in IndexFile
    BY <1>1, FileHeld DEF Inserting
  <1>3. run[p].id \in Ids /\ Current(p).text \in Texts
    BY <1>1, <1>2, CurrentComment DEF Sound, Held, Inserting, Ids
  <1>4. /\ OnlyOf(p) /\ StaysAt(p) /\ run'[p].pc = "embed" /\ run'[p].filed = run[p].filed
    BY <1>1, <1>2 DEF Run, OnlyOf, StaysAt, Continues
  <1>5. PICK e : e = [id |-> run[p].id, text |-> Current(p).text]
    OBVIOUS
  <1>6. PICK fts : fts = File(p).fts \cup {e}
    OBVIOUS
  <1>7. e \in [id : Ids, text : Texts] /\ e.id = run[p].id
    BY <1>3, <1>5
  <1>8. fts \in SUBSET [id : Ids, text : Texts]
    BY <1>2, <1>6, <1>7 DEF IndexFile
  <1>9. {d.id : d \in fts} = {d.id : d \in File(p).fts} \cup {run[p].id}
    BY <1>6, <1>7
  <1>10. PICK g : g = [File(p) EXCEPT !.fts = fts]
    OBVIOUS
  <1>11. /\ g \in IndexFile /\ g.rows = File(p).rows /\ g.fts = fts /\ g.vec = File(p).vec
         /\ g.findings = File(p).findings /\ g.identity = File(p).identity
    BY <1>2, <1>8, <1>10 DEF IndexFile
  <1>12. files' = [files EXCEPT ![run[p].file] = g]
    BY <1>2, <1>5, <1>6, <1>10 DEF IndexText, File, RowId
  <1>13. Writes(p, g)
    BY <1>2, <1>11, <1>12, WritesOne
  <1>14. QED
    BY <1>1, <1>4, <1>9, <1>11, <1>13

LEMMA IndexVectorDoes ==
  ASSUME Sound, NEW p \in Writers, IndexVector(p)
  PROVE  /\ OnlyOf(p) /\ StaysAt(p) /\ run[p].pc = "vec" /\ run'[p].pc = "findings"
         /\ run'[p].filed = run[p].filed
         /\ \E g \in IndexFile :
              /\ Writes(p, g) /\ g.rows = File(p).rows
              /\ {e.id : e \in g.vec} = {e.id : e \in File(p).vec} \cup {run[p].id}
              /\ \A e \in g.vec : e \in File(p).vec \/ e.vector = run[p].vector
              /\ g.fts = File(p).fts /\ g.findings = File(p).findings /\ g.identity = File(p).identity
  <1>1. run[p].pc = "vec" /\ run' = [run EXCEPT ![p].pc = "findings"]
    BY DEF IndexVector
  <1>2. /\ run[p] \in Run /\ run \in [Writers -> Run] /\ Held(p)
        /\ run[p].file \in 1..Len(files) /\ files[run[p].file] = File(p) /\ File(p) \in IndexFile
    BY <1>1, FileHeld DEF Inserting
  <1>3. run[p].id \in Ids /\ run[p].vector \in Vectors
    BY <1>1, <1>2 DEF Held, Inserting, Ids
  <1>4. /\ OnlyOf(p) /\ StaysAt(p) /\ run'[p].pc = "findings" /\ run'[p].filed = run[p].filed
    BY <1>1, <1>2 DEF Run, OnlyOf, StaysAt, Continues
  <1>5. PICK e : e = [id |-> run[p].id, vector |-> run[p].vector]
    OBVIOUS
  <1>6. PICK vec : vec = File(p).vec \cup {e}
    OBVIOUS
  <1>7. e \in [id : Ids, vector : Vectors] /\ e.id = run[p].id /\ e.vector = run[p].vector
    BY <1>3, <1>5
  <1>8. vec \in SUBSET [id : Ids, vector : Vectors]
    BY <1>2, <1>6, <1>7 DEF IndexFile
  <1>9. /\ {d.id : d \in vec} = {d.id : d \in File(p).vec} \cup {run[p].id}
        /\ \A d \in vec : d \in File(p).vec \/ d.vector = run[p].vector
    BY <1>6, <1>7
  <1>10. PICK g : g = [File(p) EXCEPT !.vec = vec]
    OBVIOUS
  <1>11. /\ g \in IndexFile /\ g.rows = File(p).rows /\ g.vec = vec /\ g.fts = File(p).fts
         /\ g.findings = File(p).findings /\ g.identity = File(p).identity
    BY <1>2, <1>8, <1>10 DEF IndexFile
  <1>12. files' = [files EXCEPT ![run[p].file] = g]
    BY <1>2, <1>5, <1>6, <1>10 DEF IndexVector, File, RowId
  <1>13. Writes(p, g)
    BY <1>2, <1>11, <1>12, WritesOne
  <1>14. QED
    BY <1>1, <1>4, <1>9, <1>11, <1>13

LEMMA InsertFindingDoes ==
  ASSUME Sound, NEW p \in Writers, InsertFinding(p)
  PROVE  /\ OnlyOf(p) /\ StaysAt(p) /\ run[p].pc = "findings" /\ run'[p].pc = "findings"
         /\ run'[p].filed = run[p].filed + 1 /\ run'[p].filed \in 1..Len(Current(p).findings)
         /\ \E g \in IndexFile :
              /\ Writes(p, g) /\ g.rows = File(p).rows
              /\ \E e \in [id : Ids, finding : Findings] :
                   /\ g.findings = Append(File(p).findings, e)
                   /\ e.id = run[p].id /\ e.finding = Current(p).findings[run'[p].filed]
              /\ g.fts = File(p).fts /\ g.vec = File(p).vec /\ g.identity = File(p).identity
  <1>1. run[p].pc = "findings" /\ run' = [run EXCEPT ![p].filed = @ + 1]
        /\ run[p].filed < Len(Current(p).findings)
    BY DEF InsertFinding
  <1>2. /\ run[p] \in Run /\ run \in [Writers -> Run] /\ Held(p)
        /\ run[p].file \in 1..Len(files) /\ files[run[p].file] = File(p) /\ File(p) \in IndexFile
    BY <1>1, FileHeld DEF Inserting
  <1>3. run[p].id \in Ids /\ Current(p).findings \in Seq(Findings)
    BY <1>1, <1>2, CurrentComment DEF Sound, Held, Inserting, Ids
  <1>4. /\ OnlyOf(p) /\ StaysAt(p) /\ run'[p].pc = "findings" /\ run'[p].filed = run[p].filed + 1
    BY <1>1, <1>2 DEF Run, OnlyOf, StaysAt, Continues
  <1>5. run[p].filed \in Nat /\ run[p].filed + 1 \in 1..Len(Current(p).findings)
    BY <1>1, <1>2, <1>3 DEF Run
  <1>6. PICK e : e = [id |-> run[p].id, finding |-> Current(p).findings[run[p].filed + 1]]
    OBVIOUS
  <1>7. Current(p).findings[run[p].filed + 1] \in Findings
    BY <1>3, <1>5
  <1>8. /\ e \in [id : Ids, finding : Findings] /\ e.id = run[p].id
        /\ e.finding = Current(p).findings[run[p].filed + 1]
    BY <1>3, <1>6, <1>7
  <1>9. PICK found : found = Append(File(p).findings, e)
    OBVIOUS
  <1>10. found \in Seq([id : Ids, finding : Findings])
    BY <1>2, <1>8, <1>9 DEF IndexFile
  <1>11. PICK g : g = [File(p) EXCEPT !.findings = found]
    OBVIOUS
  <1>12. /\ g \in IndexFile /\ g.rows = File(p).rows /\ g.fts = File(p).fts /\ g.vec = File(p).vec
         /\ g.findings = found /\ g.identity = File(p).identity
    BY <1>2, <1>10, <1>11 DEF IndexFile
  <1>13. files' = [files EXCEPT ![run[p].file] = g]
    BY <1>2, <1>6, <1>9, <1>11 DEF InsertFinding, File, RowId
  <1>14. Writes(p, g)
    BY <1>2, <1>12, <1>13, WritesOne
  <1>15. QED
    BY <1>1, <1>4, <1>5, <1>8, <1>9, <1>12, <1>14

LEMMA StoreIdentityDoes ==
  ASSUME Sound, NEW p \in Writers, StoreIdentity(p)
  PROVE  /\ OnlyOf(p) /\ StaysAt(p) /\ run[p].pc = "findings" /\ run'[p].pc = "next"
         /\ run[p].filed = Len(Current(p).findings)
         /\ \E g \in IndexFile :
              /\ Writes(p, g) /\ g.rows = File(p).rows
              /\ {e.id : e \in g.identity} = {e.id : e \in File(p).identity} \cup {run[p].id}
              /\ \A e \in g.identity :
                   \/ e \in File(p).identity
                   \/ e.id = run[p].id /\ e.is = Identity(CommentsHeld(p), run[p].at)
              /\ g.fts = File(p).fts /\ g.vec = File(p).vec /\ g.findings = File(p).findings
  <1>1. run[p].pc = "findings" /\ run' = [run EXCEPT ![p].pc = "next"]
        /\ run[p].filed = Len(Current(p).findings)
    BY DEF StoreIdentity
  <1>2. /\ run[p] \in Run /\ run \in [Writers -> Run] /\ Held(p)
        /\ run[p].file \in 1..Len(files) /\ files[run[p].file] = File(p) /\ File(p) \in IndexFile
        /\ CommentsHeld(p) \in Seq(Comments)
    BY <1>1, FileHeld DEF Inserting
  <1>3. run[p].id \in Ids /\ run[p].at \in 1..Len(CommentsHeld(p))
    BY <1>1, <1>2 DEF Held, Inserting, Ids
  <1>4. /\ OnlyOf(p) /\ StaysAt(p) /\ run'[p].pc = "next"
    BY <1>1, <1>2 DEF Run, OnlyOf, StaysAt, Continues
  <1>5. PICK is : is = Identity(CommentsHeld(p), run[p].at)
    OBVIOUS
  <1>6. is \in [base : Bases, ordinal : Nat]
    BY <1>2, <1>3, <1>5, IdentityType
  <1>7. PICK e : e = [id |-> run[p].id, is |-> is]
    OBVIOUS
  <1>8. PICK ident : ident = {d \in File(p).identity : d.id # run[p].id} \cup {e}
    OBVIOUS
  <1>9. e.id = run[p].id /\ e.is = is /\ e \in [id : Ids, is : [base : Bases, ordinal : Nat]]
    BY <1>3, <1>6, <1>7
  <1>10. ident \in SUBSET [id : Ids, is : [base : Bases, ordinal : Nat]]
    BY <1>2, <1>8, <1>9 DEF IndexFile
  <1>11. /\ {d.id : d \in ident} = {d.id : d \in File(p).identity} \cup {run[p].id}
         /\ \A d \in ident : d \in File(p).identity \/ (d.id = run[p].id /\ d.is = is)
    BY <1>8, <1>9
  <1>12. PICK g : g = [File(p) EXCEPT !.identity = ident]
    OBVIOUS
  <1>13. /\ g \in IndexFile /\ g.rows = File(p).rows /\ g.fts = File(p).fts /\ g.vec = File(p).vec
         /\ g.findings = File(p).findings /\ g.identity = ident
    BY <1>2, <1>10, <1>12 DEF IndexFile
  <1>14. files' = [files EXCEPT ![run[p].file] = g]
    BY <1>2, <1>5, <1>7, <1>8, <1>12 DEF StoreIdentity, File, RowId, WithIdentity
  <1>15. Writes(p, g)
    BY <1>2, <1>13, <1>14, WritesOne
  <1>16. QED
    BY <1>1, <1>4, <1>5, <1>11, <1>13, <1>15

\* The three steps that find or make the vector of a comment.
LEMMA VectorDoes ==
  ASSUME Sound, NEW p \in Writers, ReuseVector(p) \/ ComputeVector(p) \/ StoreVector(p)
  PROVE  /\ OnlyOf(p) /\ StaysAt(p) /\ run'[p].filed = run[p].filed
         /\ run[p].pc \in {"embed", "store"} /\ run'[p].pc \in {"store", "vec"}
         /\ \/ \E e \in cache : e.model = run[p].model /\ run'[p].vector = e.vector
            \/ run'[p].vector.of = run[p].model
            \/ run'[p].vector = run[p].vector /\ run[p].pc = "store"
         /\ \A e \in cache' : e \in cache
              \/ (run[p].pc = "store" /\ e.model = run[p].model /\ e.vector = run[p].vector)
  <1>1. run[p] \in Run /\ run \in [Writers -> Run]
    BY DEF Sound, TypeOK
  <1>2. CASE ReuseVector(p)
    <2>1. PICK e \in Cached(Current(p).text, run[p].model) :
            run' = [run EXCEPT ![p].pc = "vec", ![p].vector = e.vector]
      BY <1>2 DEF ReuseVector
    <2>2. e \in cache /\ e.model = run[p].model /\ cache' = cache /\ run[p].pc = "embed"
      BY <1>2 DEF ReuseVector, Cached
    <2>3. OnlyOf(p) /\ StaysAt(p) /\ run'[p].pc = "vec" /\ run'[p].vector = e.vector
          /\ run'[p].filed = run[p].filed
      BY <1>1, <2>1 DEF Run, OnlyOf, StaysAt, Continues
    <2>4. QED
      BY <2>2, <2>3
  <1>3. CASE ComputeVector(p)
    <2>1. PICK v : v = Embed(Current(p).text, run[p].model)
      OBVIOUS
    <2>2. v.of = run[p].model
      BY <2>1 DEF Embed
    <2>3. run' = [run EXCEPT ![p].pc = "store", ![p].vector = v] /\ cache' = cache /\ run[p].pc = "embed"
      BY <1>3, <2>1 DEF ComputeVector
    <2>4. OnlyOf(p) /\ StaysAt(p) /\ run'[p].pc = "store" /\ run'[p].vector = v
          /\ run'[p].filed = run[p].filed
      BY <1>1, <2>3 DEF Run, OnlyOf, StaysAt, Continues
    <2>5. QED
      BY <2>2, <2>3, <2>4
  <1>4. CASE StoreVector(p)
    <2>1. PICK e : e = [text |-> Current(p).text, model |-> run[p].model, vector |-> run[p].vector]
      OBVIOUS
    <2>2. run' = [run EXCEPT ![p].pc = "vec"] /\ cache' \subseteq cache \cup {e} /\ run[p].pc = "store"
      BY <1>4, <2>1 DEF StoreVector
    <2>3. e.model = run[p].model /\ e.vector = run[p].vector
      BY <2>1
    <2>4. OnlyOf(p) /\ StaysAt(p) /\ run'[p].pc = "vec" /\ run'[p].vector = run[p].vector
          /\ run'[p].filed = run[p].filed
      BY <1>1, <2>2 DEF Run, OnlyOf, StaysAt, Continues
    <2>5. QED
      BY <2>2, <2>3, <2>4
  <1>5. QED
    BY <1>2, <1>3, <1>4

LEMMA FinishDoes ==
  ASSUME Sound, NEW p \in Writers, Finish(p)
  PROVE  /\ OnlyOf(p) /\ run'[p] = Idle /\ run[p].pc = "next" /\ Active(p)
         /\ run[p].at >= Len(CommentsHeld(p)) /\ run[p].check \in 1..Len(begun)
         /\ Len(begun') = Len(begun)
         /\ begun'[run[p].check].whole
         /\ \A c \in 1..Len(begun) :
              /\ begun'[c].tree = begun[c].tree /\ begun'[c].model = begun[c].model
              /\ begun'[c].crossed = begun[c].crossed
              /\ c # run[p].check => begun'[c] = begun[c]
  <1> DEFINE Check == [tree : Trees, model : Models, whole : BOOLEAN, crossed : BOOLEAN]
             n == run[p].check
             one == [begun[n] EXCEPT !.whole = TRUE]
  <1>1. run' = [run EXCEPT ![p] = Idle] /\ run[p].pc = "next" /\ Upcoming(p) = {}
        /\ begun' = [begun EXCEPT ![n] = one]
    BY DEF Finish
  <1>2. run[p] \in Run /\ run \in [Writers -> Run] /\ Held(p) /\ begun \in Seq(Check)
        /\ CommentsHeld(p) \in Seq(Comments)
    BY <1>1, FileHeld DEF Sound, TypeOK
  <1>3. n \in 1..Len(begun) /\ Len(begun) \in Nat
    BY <1>1, <1>2 DEF Held
  <1>4. run[p].at >= Len(CommentsHeld(p))
    BY <1>1, <1>2 DEF Upcoming, Run
  <1>5. begun[n] \in Check
    BY <1>3, BegunTrees
  <1>6. /\ one \in Check /\ one.whole /\ one.tree = begun[n].tree /\ one.model = begun[n].model
        /\ one.crossed = begun[n].crossed
    BY <1>5
  <1> HIDE DEF one, Check
  <1>7. /\ Len(begun') = Len(begun) /\ begun'[n] = one
        /\ \A c \in 1..Len(begun) : c # n => begun'[c] = begun[c]
    BY <1>1, <1>2, <1>3, <1>6, ReplaceOne
  <1>8. OnlyOf(p) /\ run'[p] = Idle /\ Active(p)
    BY <1>1, <1>2 DEF OnlyOf, Active
  <1>9. QED
    BY <1>1, <1>3, <1>4, <1>6, <1>7, <1>8

LEMMA BreakDoes ==
  ASSUME Sound, NEW p \in Writers, Break(p)
  PROVE  OnlyOf(p) /\ run'[p] = Idle
  BY DEF Break, Sound, TypeOK, OnlyOf

-----------------------------------------------------------------------------
(* The checks begun                                                         *)

\* A check entered stays entered with its tree and model, and once crossed it
\* stays crossed.
Entered ==
  /\ Len(begun) <= Len(begun')
  /\ \A c \in 1..Len(begun) :
       /\ begun'[c].tree = begun[c].tree /\ begun'[c].model = begun[c].model
       /\ begun[c].crossed => begun'[c].crossed

LEMMA StaysEntered == ASSUME Sound, [Next]_vars PROVE Entered
  <1>1. Len(begun) \in Nat
    BY DEF Sound, TypeOK
  <1>2. begun' = begun => Entered
    BY <1>1 DEF Entered
  <1>3. ASSUME NEW p \in Writers, Persist(p) PROVE Entered
    <2>1. CASE Begin(p)
      BY <2>1, BeginDoes DEF Entered
    <2>2. CASE Finish(p)
      BY <1>1, <2>2, FinishDoes DEF Entered
    <2>3. CASE ~Begin(p) /\ ~Finish(p)
      BY <1>2, <1>3, <2>3 DEF Persist, LookForStale, RemoveStale, OpenIndex, InsertComment, IndexText,
         ReuseVector, ComputeVector, StoreVector, IndexVector, InsertFinding, StoreIdentity, Break
    <2>4. QED
      BY <2>1, <2>2, <2>3
  <1>4. ASSUME NEW s \in Clients, Use(s) PROVE begun' = begun
    BY <1>4 DEF Use, FindIndex, OpenSession, Search, Fetch, Resolve, Leave
  <1>5. QED
    BY <1>2, <1>3, <1>4 DEF Next, vars

\* A writer goes on with its check, or it is idle now.
OnOrOff(p) == Active(p)' => Active(p) /\ Continues(p)

LEMMA GoesOn ==
  ASSUME Sound, NEW p \in Writers, Persist(p), ~Begin(p)
  PROVE  OnlyOf(p) /\ Active(p) /\ OnOrOff(p)
  <1>1. Idle.pc = "idle"
    BY IdleHolds
  <1>2. CASE LookForStale(p) \/ RemoveStale(p) \/ OpenIndex(p)
    BY <1>1, <1>2, LookForStaleDoes, RemoveStaleDoes, OpenIndexDoes DEF OnOrOff, Active
  <1>3. CASE InsertComment(p)
    BY <1>3, InsertCommentDoes DEF OnOrOff, Active
  <1>4. CASE IndexText(p) \/ IndexVector(p)
    BY <1>4, IndexTextDoes, IndexVectorDoes DEF OnOrOff, Active, StaysAt
  <1>5. CASE InsertFinding(p) \/ StoreIdentity(p)
    BY <1>5, InsertFindingDoes, StoreIdentityDoes DEF OnOrOff, Active, StaysAt
  <1>6. CASE ReuseVector(p) \/ ComputeVector(p) \/ StoreVector(p)
    BY <1>6, VectorDoes DEF OnOrOff, Active, StaysAt
  <1>7. CASE Finish(p)
    BY <1>1, <1>7, FinishDoes DEF OnOrOff, Active
  <1>8. CASE Break(p)
    BY <1>1, <1>8, BreakDoes DEF OnOrOff, Active, Break
  <1>9. QED
    BY <1>2, <1>3, <1>4, <1>5, <1>6, <1>7, <1>8 DEF Persist

LEMMA ChecksKept ==
  ASSUME Checks, begun' = begun, \A q \in Writers : OnOrOff(q)
  PROVE  Checks'
  <1>1. \A q \in Writers : Active(q)' =>
          /\ Active(q) /\ run'[q].tree = run[q].tree /\ run'[q].model = run[q].model
          /\ run'[q].check = run[q].check
    BY DEF OnOrOff, Continues
  <1>2. QED
    BY <1>1 DEF Checks, Crossed

LEMMA ChecksStep == ASSUME Sound, Checks, [Next]_vars PROVE Checks'
  <1>1. \A q \in Writers : Active(q) => run[q].check \in 1..Len(begun)
    BY DEF Sound, Held, Active
  <1>2. \A q \in Writers : run'[q] = run[q] => OnOrOff(q)
    BY DEF OnOrOff, Active, Continues
  <1>3. ASSUME NEW p \in Writers, Begin(p) PROVE Checks'
    <2>1. /\ OnlyOf(p) /\ ~Active(p) /\ run'[p].check = Len(begun) + 1
          /\ Len(begun') = Len(begun) + 1 /\ Len(begun) \in Nat
      BY <1>3, BeginDoes
    <2>2. \A c \in 1..Len(begun) :
            /\ begun'[c].tree = begun[c].tree /\ begun'[c].model = begun[c].model
            /\ begun'[c].whole = begun[c].whole
            /\ begun'[c].crossed <=> begun[c].crossed \/ \E q \in Writers : run[q].check = c
      BY <1>3, BeginDoes
    <2>3. LET b == begun'[Len(begun) + 1] IN
            /\ b.tree = run'[p].tree /\ b.model = run'[p].model /\ ~b.whole
            /\ b.crossed <=> \E q \in Writers : Active(q)
      BY <1>3, BeginDoes
    <2>4. \A q \in Writers : q # p => run'[q] = run[q] /\ (Active(q)' <=> Active(q))
      BY <2>1 DEF OnlyOf, Active
    <2>5. ASSUME NEW q \in Writers, q # p, Active(q)
          PROVE  /\ run'[q].check # run'[p].check
                 /\ begun'[run'[q].check].crossed /\ begun'[Len(begun')].crossed
                 /\ begun'[run'[q].check].tree = run'[q].tree
                 /\ begun'[run'[q].check].model = run'[q].model /\ ~begun'[run'[q].check].whole
      <3>1. run'[q] = run[q] /\ run[q].check \in 1..Len(begun)
        BY <1>1, <2>4, <2>5
      <3>2. begun[run[q].check].tree = run[q].tree /\ begun[run[q].check].model = run[q].model
            /\ ~begun[run[q].check].whole
        BY <2>5 DEF Checks
      <3>3. QED
        BY <2>1, <2>2, <2>3, <2>5, <3>1, <3>2 DEF Crossed
    <2>6. ASSUME NEW a \in Writers, NEW b \in Writers, a # b, Active(a)', Active(b)'
          PROVE  run'[a].check # run'[b].check /\ begun'[run'[a].check].crossed
      <3>1. CASE a # p /\ b # p
        BY <2>4, <2>5, <2>6, <3>1 DEF Checks
      <3>2. CASE a = p
        BY <2>1, <2>4, <2>5, <2>6, <3>2
      <3>3. CASE b = p
        BY <2>4, <2>5, <2>6, <3>3
      <3>4. QED
        BY <3>1, <3>2, <3>3
    <2>7. ASSUME NEW q \in Writers, Active(q)'
          PROVE  LET c == begun'[run'[q].check] IN
                   /\ c.tree = run'[q].tree /\ c.model = run'[q].model /\ ~c.whole
                   /\ begun'[Len(begun')].crossed \/ run'[q].check = Len(begun')
      <3>1. CASE q = p
        BY <2>1, <2>3, <3>1
      <3>2. CASE q # p
        BY <2>4, <2>5, <2>7, <3>2
      <3>3. QED
        BY <3>1, <3>2
    <2>8. QED
      BY <2>6, <2>7 DEF Checks, Crossed
  <1>4. ASSUME NEW p \in Writers, Finish(p) PROVE Checks'
    <2>1. /\ OnlyOf(p) /\ run'[p] = Idle /\ Active(p) /\ Len(begun') = Len(begun)
          /\ \A c \in 1..Len(begun) :
               begun'[c].crossed = begun[c].crossed /\ (c # run[p].check => begun'[c] = begun[c])
      BY <1>4, FinishDoes
    <2>2. \A q \in Writers : Active(q)' => q # p /\ run'[q] = run[q] /\ Active(q)
      BY <2>1 DEF OnlyOf, Active, Idle
    <2>3. \A q \in Writers : Active(q)' => begun'[run'[q].check] = begun[run[q].check]
      BY <1>1, <2>1, <2>2 DEF Checks
    <2>4. Len(begun) \in Nat
      BY DEF Sound, TypeOK
    <2>5. \A q \in Writers : Active(q)' => (begun'[Len(begun')].crossed <=> Crossed(Len(begun)))
      <3>1. \A q \in Writers : Active(q)' => Len(begun) \in 1..Len(begun)
        BY <1>1, <2>2, <2>4
      <3>2. QED
        BY <2>1, <3>1 DEF Crossed
    <2>6. QED
      BY <2>1, <2>2, <2>3, <2>5 DEF Checks, Crossed
  <1>5. ASSUME NEW p \in Writers, Persist(p), ~Begin(p), ~Finish(p) PROVE Checks'
    <2>1. begun' = begun
      BY <1>5 DEF Persist, LookForStale, RemoveStale, OpenIndex, InsertComment, IndexText,
         ReuseVector, ComputeVector, StoreVector, IndexVector, InsertFinding, StoreIdentity, Break
    <2>2. \A q \in Writers : OnOrOff(q)
      BY <1>2, <1>5, GoesOn DEF OnlyOf
    <2>3. QED
      BY <2>1, <2>2, ChecksKept
  <1>6. ASSUME UNCHANGED <<run, begun>> PROVE Checks'
    BY <1>2, <1>6, ChecksKept
  <1>7. ASSUME NEW s \in Clients, Use(s) PROVE UNCHANGED <<run, begun>>
    BY <1>7 DEF Use, FindIndex, OpenSession, Search, Fetch, Resolve, Leave
  <1>8. QED
    BY <1>3, <1>4, <1>5, <1>6, <1>7 DEF Next, Persist, vars

-----------------------------------------------------------------------------
(* Whose file it is                                                         *)

\* A writer that only its own steps concern keeps its file while the path and
\* who opened what stay.
LEMMA OursAtKept ==
  ASSUME Sound, Entered, NEW q \in Writers, OursAt(q), path' = path, made' = made,
         run'[q].pc = "open" => run[q].pc = "open" /\ run'[q].check = run[q].check,
         run'[q].pc \in Inserting \cup {"next"} =>
           /\ run[q].pc \in Inserting \cup {"next"}
           /\ run'[q].check = run[q].check /\ run'[q].file = run[q].file
  PROVE  OursAt(q)'
  <1>1. Held(q) /\ Len(begun) \in Nat
    BY DEF Sound, TypeOK
  <1>2. \A f \in 1..Len(files) : made[f] \in 0..Len(begun)
    BY DEF Sound
  <1>3. CASE run'[q].pc = "open"
    <2>1. run[q].check \in 1..Len(begun)
      BY <1>1, <1>3 DEF Held
    <2>2. Crossed(run[q].check) => Crossed(run[q].check)'
      BY <1>3, <2>1 DEF Entered, Crossed
    <2>3. QED
      BY <1>3, <2>2 DEF OursAt, Inserting, Crossed
  <1>4. CASE run'[q].pc \in Inserting \cup {"next"}
    <2>1. run[q].check \in 1..Len(begun) /\ run[q].file \in 1..Len(files)
      BY <1>1, <1>4 DEF Held, Inserting
    <2>2. made[run[q].file] # 0 /\ made[run[q].file] \in 1..Len(begun)
      BY <1>1, <1>2, <1>4, <2>1 DEF OursAt
    <2>3. QED
      BY <1>4, <2>1, <2>2 DEF OursAt, Inserting, Crossed, Entered
  <1>5. QED
    BY <1>3, <1>4 DEF OursAt

\* A writer at work writes its own file only.
LEMMA OursWriting ==
  ASSUME Sound, Entered, Ours, NEW p \in Writers, OnlyOf(p), Continues(p),
         run[p].pc \in Inserting \cup {"next"}, run'[p].pc \in Inserting \cup {"next"},
         run'[p].file = run[p].file, path' = path, made' = made,
         Len(files') = Len(files), \A f \in 1..Len(files) : f # run[p].file => files'[f] = files[f]
  PROVE  Ours'
  <1>1. OursAt(p)'
    BY OursAtKept DEF Ours, Continues, Inserting
  <1>2. \A q \in Writers : q # p => OursAt(q)'
    BY OursAtKept DEF Ours, OnlyOf
  <1>3. made[run[p].file] # 0
    BY DEF Ours, OursAt
  <1>4. \A f \in 1..Len(files') : made'[f] = 0 => files'[f] = EmptyFile
    BY <1>3 DEF Ours
  <1>5. QED
    BY <1>1, <1>2, <1>4 DEF Ours

LEMMA OursOpening ==
  ASSUME Sound, Checks, Entered, Ours, NEW p \in Writers, OpenIndex(p)
  PROVE  Ours'
  <1> DEFINE c == run[p].check
  <1>1. /\ OnlyOf(p) /\ Continues(p) /\ run[p].pc = "open" /\ run'[p].pc = "next"
        /\ run'[p].file = path' /\ path' # None /\ path' \in 1..Len(files') /\ made'[path'] = c
        /\ \A f \in 1..Len(files) : f # path' => made'[f] = made[f]
        /\ \A f \in 1..Len(files) : files'[f] = files[f]
        /\ Len(files) \in Nat
        /\ \/ path = None /\ path' = Len(files) + 1 /\ Len(files') = Len(files) + 1
           \/ path # None /\ path' = path /\ files' = files
    BY OpenIndexDoes
  <1>2. begun' = begun
    BY DEF OpenIndex
  <1>3. c \in 1..Len(begun) /\ Active(p)
    BY <1>1 DEF Sound, Held, Active
  <1>4. OursAt(p)'
    BY <1>1, <1>3 DEF OursAt, Continues, Inserting
  <1>5. ASSUME NEW q \in Writers, q # p PROVE OursAt(q)'
    <2>1. run'[q] = run[q] /\ OursAt(q) /\ Held(q)
      BY <1>1, <1>5 DEF OnlyOf, Ours, Sound
    <2>2. Active(q) => Crossed(run[q].check) /\ Crossed(c)
      BY <1>3, <1>5 DEF Checks
    <2>3. CASE run[q].pc = "open"
      BY <1>2, <2>1, <2>2, <2>3 DEF OursAt, Active, Inserting, Crossed
    <2>4. CASE run[q].pc \in Inserting \cup {"next"}
      <3>1. run[q].file \in 1..Len(files) /\ Active(q)
        BY <2>1, <2>4 DEF Held, Active, Inserting
      <3>2. CASE run[q].file = path'
        BY <1>1, <1>2, <1>3, <2>1, <2>2, <2>4, <3>1, <3>2 DEF OursAt, Inserting, Crossed
      <3>3. CASE run[q].file # path'
        <4>1. made'[run[q].file] = made[run[q].file]
          BY <1>1, <3>1, <3>3
        <4>2. QED
          BY <1>2, <2>1, <2>2, <2>4, <3>1, <4>1 DEF OursAt, Inserting, Crossed
      <3>4. QED
        BY <3>2, <3>3
    <2>5. QED
      BY <2>1, <2>3, <2>4 DEF OursAt
  <1>6. ASSUME NEW f \in 1..Len(files'), made'[f] = 0 PROVE files'[f] = EmptyFile
    <2>1. f # path' /\ f \in 1..Len(files)
      BY <1>1, <1>3, <1>6
    <2>2. QED
      BY <1>1, <1>6, <2>1 DEF Ours
  <1>7. QED
    BY <1>4, <1>5, <1>6 DEF Ours

\* What a session does to the files.
LEMMA OpenSessionDoes ==
  ASSUME Sound, NEW s \in Clients, OpenSession(s)
  PROVE  /\ Len(files) \in Nat /\ path' # None
         /\ \A f \in 1..Len(files) : files'[f] = files[f] /\ made'[f] = made[f]
         /\ \/ /\ path = None /\ path' = Len(files) + 1 /\ Len(files') = Len(files) + 1
               /\ files'[path'] = EmptyFile /\ made'[path'] = 0
            \/ path # None /\ path' = path /\ files' = files /\ made' = made
  <1>1. files \in Seq(IndexFile) /\ EmptyFile \in IndexFile /\ made \in Seq(Nat) /\ Len(made) = Len(files)
    BY DEF Sound, TypeOK, EmptyFile, IndexFile
  <1>2. CASE path = None
    <2>1. files' = Append(files, EmptyFile) /\ made' = Append(made, 0) /\ path' = Len(files) + 1
      BY <1>2 DEF OpenSession
    <2>2. Len(files') = Len(files) + 1 /\ files'[Len(files) + 1] = EmptyFile
          /\ \A f \in 1..Len(files) : files'[f] = files[f]
      BY <1>1, <2>1, OneMore
    <2>3. made'[Len(files) + 1] = 0 /\ \A f \in 1..Len(files) : made'[f] = made[f]
      BY <1>1, <2>1, OneMore
    <2>4. path' # None
      BY <1>1, <2>1, IndexAssumption
    <2>5. QED
      BY <1>1, <1>2, <2>1, <2>2, <2>3, <2>4
  <1>3. CASE path # None
    BY <1>1, <1>3 DEF OpenSession
  <1>4. QED
    BY <1>2, <1>3

LEMMA OursStep == ASSUME Sound, Checks, Ours, [Next]_vars PROVE Ours'
  <1>1. Entered
    BY StaysEntered
  <1>2. \A q \in Writers : OursAt(q) /\ Held(q)
    BY DEF Ours, Sound
  <1>3. ASSUME NEW p \in Writers, LookForStale(p) PROVE Ours'
    <2>1. /\ OnlyOf(p) /\ Continues(p) /\ run[p].pc = "exists"
          /\ run'[p].pc = IF path # None THEN "remove" ELSE "open"
      BY <1>3, LookForStaleDoes
    <2>2. UNCHANGED <<path, files, made>>
      BY <1>3 DEF LookForStale
    <2>3. OursAt(p)'
      BY <2>1, <2>2 DEF OursAt, Inserting
    <2>4. \A q \in Writers : q # p => OursAt(q)'
      BY <1>1, <1>2, <2>1, <2>2, OursAtKept DEF OnlyOf
    <2>5. QED
      BY <2>2, <2>3, <2>4 DEF Ours
  <1>4. ASSUME NEW p \in Writers, RemoveStale(p) PROVE Ours'
    <2>1. OnlyOf(p) /\ run[p].pc = "remove" /\ path' = None /\ run'[p].pc \in {"idle", "open"}
      BY <1>4, RemoveStaleDoes, IdleHolds
    <2>2. UNCHANGED <<files, made, begun>>
      BY <1>4 DEF RemoveStale
    <2>3. OursAt(p)'
      BY <2>1 DEF OursAt, Inserting
    <2>4. ASSUME NEW q \in Writers, q # p PROVE OursAt(q)'
      <3>1. run'[q] = run[q] /\ Active(p)
        BY <2>1, <2>4 DEF OnlyOf, Active
      <3>2. Active(q) => Crossed(run[q].check)
        BY <2>4, <3>1 DEF Checks
      <3>3. QED
        BY <1>2, <2>1, <2>2, <3>1, <3>2 DEF OursAt, Active, Inserting, Crossed
    <2>5. QED
      BY <2>2, <2>3, <2>4 DEF Ours
  <1>5. ASSUME NEW p \in Writers, \/ InsertComment(p) \/ IndexText(p) \/ IndexVector(p)
                                  \/ InsertFinding(p) \/ StoreIdentity(p)
                                  \/ ReuseVector(p) \/ ComputeVector(p) \/ StoreVector(p)
        PROVE  Ours'
    <2>1. path' = path /\ made' = made
      BY <1>5 DEF InsertComment, IndexText, IndexVector, InsertFinding, StoreIdentity, ReuseVector,
         ComputeVector, StoreVector
    <2>2. CASE InsertComment(p)
      BY <1>1, <2>1, <2>2, InsertCommentDoes, OursWriting DEF Writes, Inserting
    <2>3. CASE IndexText(p)
      BY <1>1, <2>1, <2>3, IndexTextDoes, OursWriting DEF Writes, Inserting, StaysAt
    <2>4. CASE IndexVector(p)
      BY <1>1, <2>1, <2>4, IndexVectorDoes, OursWriting DEF Writes, Inserting, StaysAt
    <2>5. CASE InsertFinding(p)
      BY <1>1, <2>1, <2>5, InsertFindingDoes, OursWriting DEF Writes, Inserting, StaysAt
    <2>6. CASE StoreIdentity(p)
      BY <1>1, <2>1, <2>6, StoreIdentityDoes, OursWriting DEF Writes, Inserting, StaysAt
    <2>7. CASE ReuseVector(p) \/ ComputeVector(p) \/ StoreVector(p)
      <3>1. files' = files
        BY <2>7 DEF ReuseVector, ComputeVector, StoreVector
      <3>2. QED
        BY <1>1, <2>1, <2>7, <3>1, VectorDoes, OursWriting DEF Inserting, StaysAt
    <2>8. QED
      BY <1>5, <2>2, <2>3, <2>4, <2>5, <2>6, <2>7
  <1>6. ASSUME NEW p \in Writers, Begin(p) \/ Finish(p) \/ Break(p) PROVE Ours'
    <2>1. OnlyOf(p) /\ run'[p].pc \in {"exists", "idle"}
      BY <1>6, BeginDoes, FinishDoes, BreakDoes, IdleHolds
    <2>2. UNCHANGED <<path, files, made>>
      BY <1>6 DEF Begin, Finish, Break
    <2>3. OursAt(p)'
      BY <2>1 DEF OursAt, Inserting
    <2>4. \A q \in Writers : q # p => OursAt(q)'
      BY <1>1, <1>2, <2>1, <2>2, OursAtKept DEF OnlyOf
    <2>5. QED
      BY <2>2, <2>3, <2>4 DEF Ours
  <1>7. ASSUME NEW p \in Writers, OpenIndex(p) PROVE Ours'
    BY <1>1, <1>7, OursOpening
  <1>8. ASSUME UNCHANGED <<path, files, run, made>> PROVE Ours'
    <2>1. \A q \in Writers : OursAt(q)'
      BY <1>1, <1>2, <1>8, OursAtKept
    <2>2. QED
      BY <1>8, <2>1 DEF Ours
  <1>9. ASSUME NEW s \in Clients, OpenSession(s) PROVE Ours'
    <2>1. /\ Len(files) \in Nat
          /\ \A f \in 1..Len(files) : files'[f] = files[f] /\ made'[f] = made[f]
          /\ \/ /\ path = None /\ path' = Len(files) + 1 /\ Len(files') = Len(files) + 1
                /\ files'[path'] = EmptyFile /\ made'[path'] = 0
             \/ path # None /\ path' = path /\ files' = files /\ made' = made
      BY <1>9, OpenSessionDoes
    <2>2. run' = run /\ begun' = begun
      BY <1>9 DEF OpenSession
    <2>3. ASSUME NEW q \in Writers PROVE OursAt(q)'
      <3>1. CASE run[q].pc = "open"
        BY <1>2, <2>1, <2>2, <3>1 DEF OursAt, Crossed, Inserting
      <3>2. CASE run[q].pc \in Inserting \cup {"next"}
        <4>1. run[q].file \in 1..Len(files) /\ run[q].file # None
          BY <1>2, <3>2, IndexAssumption DEF Held
        <4>2. made'[run[q].file] = made[run[q].file] /\ (path = run[q].file => path' = path)
          BY <2>1, <4>1
        <4>3. OursAt(q) /\ run'[q].pc # "open"
          BY <1>2, <2>2, <3>2 DEF Inserting
        <4>4. QED
          BY <2>2, <3>2, <4>2, <4>3 DEF OursAt, Crossed
      <3>3. QED
        BY <2>2, <3>1, <3>2 DEF OursAt
    <2>4. \A f \in 1..Len(files') : made'[f] = 0 => files'[f] = EmptyFile
      BY <2>1 DEF Ours
    <2>5. QED
      BY <2>3, <2>4 DEF Ours
  <1>10. ASSUME NEW s \in Clients, Use(s), ~OpenSession(s) PROVE UNCHANGED <<path, files, run, made>>
    BY <1>10 DEF Use, FindIndex, Search, Fetch, Resolve, Leave
  <1>11. QED
    BY <1>3, <1>4, <1>5, <1>6, <1>7, <1>8, <1>9, <1>10 DEF Next, Persist, vars

-----------------------------------------------------------------------------
(* Whose rows and vectors a file has                                        *)

\* A vector, in the cache or in the hands of a writer, is of its model.
VectorsKnown ==
  /\ \A e \in cache : e.vector.of = e.model
  /\ \A p \in Writers : run[p].pc \in {"store", "vec"} => run[p].vector.of = run[p].model

LEMMA VectorsKnownStep == ASSUME Sound, VectorsKnown, [Next]_vars PROVE VectorsKnown'
  <1>1. ASSUME NEW p \in Writers, ReuseVector(p) \/ ComputeVector(p) \/ StoreVector(p) PROVE VectorsKnown'
    <2>1. /\ OnlyOf(p) /\ StaysAt(p)
          /\ \/ \E e \in cache : e.model = run[p].model /\ run'[p].vector = e.vector
             \/ run'[p].vector.of = run[p].model
             \/ run'[p].vector = run[p].vector /\ run[p].pc = "store"
          /\ \A e \in cache' : e \in cache
               \/ (run[p].pc = "store" /\ e.model = run[p].model /\ e.vector = run[p].vector)
      BY <1>1, VectorDoes
    <2>2. run'[p].vector.of = run'[p].model
      BY <2>1 DEF VectorsKnown, StaysAt, Continues
    <2>3. \A q \in Writers : q # p => run'[q] = run[q]
      BY <2>1 DEF OnlyOf
    <2>4. \A e \in cache' : e.vector.of = e.model
      BY <2>1 DEF VectorsKnown
    <2>5. QED
      BY <2>2, <2>3, <2>4 DEF VectorsKnown
  <1>2. ASSUME NEW p \in Writers, OnlyOf(p), cache' = cache, run'[p].pc \notin {"store", "vec"}
        PROVE  VectorsKnown'
    BY <1>2 DEF VectorsKnown, OnlyOf
  <1>3. ASSUME NEW p \in Writers, \/ Begin(p) \/ LookForStale(p) \/ RemoveStale(p) \/ OpenIndex(p)
                                  \/ InsertComment(p) \/ IndexText(p) \/ IndexVector(p)
                                  \/ InsertFinding(p) \/ StoreIdentity(p) \/ Finish(p) \/ Break(p)
        PROVE  VectorsKnown'
    <2>1. cache' = cache
      BY <1>3 DEF Begin, LookForStale, RemoveStale, OpenIndex, InsertComment, IndexText, IndexVector,
         InsertFinding, StoreIdentity, Finish, Break
    <2>2. OnlyOf(p) /\ run'[p].pc \notin {"store", "vec"}
      <3>1. CASE Begin(p) \/ LookForStale(p) \/ RemoveStale(p) \/ OpenIndex(p)
        BY <3>1, BeginDoes, LookForStaleDoes, RemoveStaleDoes, OpenIndexDoes, IdleHolds
      <3>2. CASE InsertComment(p) \/ IndexText(p) \/ IndexVector(p)
        BY <3>2, InsertCommentDoes, IndexTextDoes, IndexVectorDoes
      <3>3. CASE InsertFinding(p) \/ StoreIdentity(p) \/ Finish(p) \/ Break(p)
        BY <3>3, InsertFindingDoes, StoreIdentityDoes, FinishDoes, BreakDoes, IdleHolds
      <3>4. QED
        BY <1>3, <3>1, <3>2, <3>3
    <2>3. QED
      BY <1>2, <2>1, <2>2
  <1>4. ASSUME UNCHANGED <<cache, run>> PROVE VectorsKnown'
    BY <1>4 DEF VectorsKnown
  <1>5. ASSUME NEW s \in Clients, Use(s) PROVE UNCHANGED <<cache, run>>
    BY <1>5 DEF Use, FindIndex, OpenSession, Search, Fetch, Resolve, Leave
  <1>6. QED
    BY <1>1, <1>3, <1>4, <1>5 DEF Next, Persist, vars

\* An uncrossed check was uncrossed before, with the same tree and model.
LEMMA UncrossedBefore ==
  ASSUME Sound, Entered, NEW c \in 0..Len(begun), Uncrossed(c)'
  PROVE  /\ Uncrossed(c) /\ c \in 1..Len(begun)
         /\ begun'[c].tree = begun[c].tree /\ begun'[c].model = begun[c].model
  <1>1. Len(begun) \in Nat /\ c > 0 /\ ~begun'[c].crossed
    BY DEF Sound, TypeOK, Uncrossed
  <1>2. QED
    BY <1>1 DEF Entered, Uncrossed

\* A file nobody wrote or opened.
LEMMA FileOfOneCheckKept ==
  ASSUME Sound, Entered, NEW f \in 1..Len(files), FileOfOneCheck(f),
         made'[f] = made[f], files'[f] = files[f]
  PROVE  FileOfOneCheck(f)'
  <1>1. ASSUME Uncrossed(made[f])'
        PROVE  /\ Uncrossed(made[f]) /\ begun'[made[f]].tree = begun[made[f]].tree
               /\ begun'[made[f]].model = begun[made[f]].model
    <2>1. made[f] \in 0..Len(begun)
      BY DEF Sound
    <2>2. made'[f] > 0 /\ ~begun'[made'[f]].crossed
      BY <1>1 DEF Uncrossed
    <2>3. PICK c \in 0..Len(begun) : c = made[f]
      BY <2>1
    <2>4. c > 0 /\ ~begun'[c].crossed
      BY <2>2, <2>3
    <2>5. Uncrossed(c) /\ begun'[c].tree = begun[c].tree /\ begun'[c].model = begun[c].model
      BY <2>4, UncrossedBefore DEF Uncrossed
    <2>6. QED
      BY <2>3, <2>5
  <1>2. QED
    BY <1>1 DEF FileOfOneCheck

\* An uncrossed writer at its file: the file is of its own check.
LEMMA OwnFile ==
  ASSUME Sound, Checks, Ours, NEW p \in Writers, run[p].pc \in Inserting \cup {"next"},
         Uncrossed(made[run[p].file])
  PROVE  /\ made[run[p].file] = run[p].check /\ ~Crossed(run[p].check) /\ path = run[p].file
         /\ begun[run[p].check].tree = run[p].tree /\ begun[run[p].check].model = run[p].model
  <1>1. OursAt(p) /\ Active(p)
    BY DEF Ours, Active, Inserting
  <1>2. made[run[p].file] = run[p].check /\ ~Crossed(run[p].check)
    BY <1>1 DEF OursAt, Uncrossed, Crossed
  <1>3. QED
    BY <1>1, <1>2 DEF OursAt, Checks

\* A writer puts g in the place of its file.
LEMMA FilesWriting ==
  ASSUME Sound, Files, Checks, Ours, NEW p \in Writers, run[p].pc \in Inserting \cup {"next"},
         NEW g, Writes(p, g), made' = made, begun' = begun,
         ~Crossed(run[p].check) => OfOneCheck(g, CommentsHeld(p), run[p].model)
  PROVE  \A f \in 1..Len(files') : FileOfOneCheck(f)'
  <1>1. Entered
    BY DEF Entered, Sound, TypeOK
  <1>2. run[p].file \in 1..Len(files)
    BY FileHeld
  <1> SUFFICES ASSUME NEW f \in 1..Len(files) PROVE FileOfOneCheck(f)'
    BY DEF Writes
  <1>3. CASE f # run[p].file
    BY <1>1, <1>3, FileOfOneCheckKept DEF Writes, Files
  <1>4. CASE f = run[p].file
    <2>1. ASSUME Uncrossed(made[f]) PROVE OfOneCheck(g, CommentsOf[begun[made[f]].tree], begun[made[f]].model)
      BY <1>4, <2>1, OwnFile DEF CommentsHeld
    <2>2. files'[f] = g
      BY <1>4 DEF Writes
    <2>3. QED
      BY <2>1, <2>2 DEF FileOfOneCheck, Uncrossed
  <1>5. QED
    BY <1>3, <1>4

LEMMA FilesStep == ASSUME Sound, Checks, Ours, Files, Building, [Next]_vars PROVE Files'
  <1>0. Entered
    BY StaysEntered
  <1>1. VectorsKnown' /\ VectorsKnown
    BY VectorsKnownStep DEF Files, VectorsKnown
  <1>2. SUFFICES \A f \in 1..Len(files') : FileOfOneCheck(f)'
    BY <1>1 DEF Files, VectorsKnown
  <1>3. \A f \in 1..Len(files) : FileOfOneCheck(f)
    BY DEF Files
  <1>4. ASSUME files' = files, made' = made PROVE \A f \in 1..Len(files') : FileOfOneCheck(f)'
    BY <1>0, <1>3, <1>4, FileOfOneCheckKept
  <1>5. ASSUME NEW p \in Writers, run[p].pc \in Inserting \cup {"next"}, ~Crossed(run[p].check)
        PROVE  /\ OfOneCheck(File(p), CommentsHeld(p), run[p].model)
               /\ Progress(File(p), CommentsHeld(p), run[p])
    <2>1. OursAt(p) /\ Active(p) /\ run[p].file \in 1..Len(files) /\ run[p].check \in 1..Len(begun)
      BY <1>5 DEF Ours, Active, Inserting, Sound, Held
    <2>2. made[run[p].file] = run[p].check /\ Uncrossed(run[p].check)
      BY <1>5, <2>1 DEF OursAt, Uncrossed, Crossed
    <2>3. begun[run[p].check].tree = run[p].tree /\ begun[run[p].check].model = run[p].model
      BY <2>1 DEF Checks
    <2>4. OfOneCheck(File(p), CommentsHeld(p), run[p].model)
      BY <1>3, <2>1, <2>2, <2>3 DEF FileOfOneCheck, CommentsHeld, File
    <2>5. QED
      BY <1>5, <2>4 DEF Building, BuildingAt
  <1>6. ASSUME NEW p \in Writers, OpenIndex(p) PROVE \A f \in 1..Len(files') : FileOfOneCheck(f)'
    <2> DEFINE c == run[p].check
    <2>1. /\ run[p].pc = "open" /\ path' \in 1..Len(files') /\ made'[path'] = c
          /\ \A f \in 1..Len(files) : f # path' => made'[f] = made[f]
          /\ \A f \in 1..Len(files) : files'[f] = files[f]
          /\ Len(files) \in Nat
          /\ \/ /\ path = None /\ path' = Len(files) + 1 /\ Len(files') = Len(files) + 1
                /\ files'[path'] = EmptyFile
             \/ path # None /\ path' = path /\ files' = files
      BY <1>6, OpenIndexDoes
    <2>2. begun' = begun /\ c \in 1..Len(begun) /\ run[p].tree \in Trees /\ Active(p)
      BY <1>6 DEF OpenIndex, Sound, Held, TypeOK, Run, Active
    <2>3. ASSUME ~Crossed(c) PROVE files'[path'] = EmptyFile
      <3>1. path = None \/ made[path] = 0
        BY <2>1, <2>3 DEF Ours, OursAt
      <3>2. QED
        BY <2>1, <3>1 DEF Ours
    <2>4. \A cs \in Seq(Comments), m \in Models : OfOneCheck(EmptyFile, cs, m)
      BY DEF OfOneCheck, EmptyFile
    <2>5. PICK k : k = path'
      OBVIOUS
    <2>6. FileOfOneCheck(k)'
      <3>1. begun[c].tree \in Trees /\ begun[c].model \in Models
        BY <2>2, BegunTrees
      <3>2. CommentsOf[begun[c].tree] \in Seq(Comments)
        BY <3>1, IndexAssumption
      <3>3. made'[k] = c /\ (~Crossed(c) => files'[k] = EmptyFile)
        BY <2>1, <2>3, <2>5
      <3>4. ~begun'[c].crossed => OfOneCheck(files'[k], CommentsOf[begun'[c].tree], begun'[c].model)
        BY <2>2, <2>4, <3>1, <3>2, <3>3 DEF Crossed
      <3>5. QED
        BY <3>3, <3>4 DEF FileOfOneCheck, Uncrossed
    <2>7. ASSUME NEW f \in 1..Len(files'), f # k PROVE FileOfOneCheck(f)'
      <3>1. f \in 1..Len(files) /\ f # path'
        BY <2>1, <2>5, <2>7
      <3>2. QED
        BY <1>0, <1>3, <2>1, <3>1, FileOfOneCheckKept
    <2>8. QED
      BY <2>6, <2>7
  <1>7. ASSUME NEW p \in Writers, InsertComment(p) PROVE \A f \in 1..Len(files') : FileOfOneCheck(f)'
    <2>1. /\ run[p].pc = "next" /\ run'[p].at = run[p].at + 1 /\ run'[p].at \in 1..Len(CommentsHeld(p))
          /\ \E g \in IndexFile :
               /\ Writes(p, g)
               /\ g.rows = Append(File(p).rows, CommentsHeld(p)[run'[p].at])
               /\ g.vec = File(p).vec
      BY <1>7, InsertCommentDoes
    <2>2. PICK g \in IndexFile :
            /\ Writes(p, g)
            /\ g.rows = Append(File(p).rows, CommentsHeld(p)[run'[p].at])
            /\ g.vec = File(p).vec
      BY <2>1
    <2>3. ASSUME ~Crossed(run[p].check) PROVE OfOneCheck(g, CommentsHeld(p), run[p].model)
      <3>1. OfOneCheck(File(p), CommentsHeld(p), run[p].model) /\ Len(File(p).rows) = run[p].at
        BY <1>5, <2>1, <2>3 DEF Progress
      <3>2. /\ Len(g.rows) = Len(File(p).rows) + 1 /\ g.rows[Len(File(p).rows) + 1] = CommentsHeld(p)[run'[p].at]
            /\ \A i \in 1..Len(File(p).rows) : g.rows[i] = File(p).rows[i]
        <4>1. File(p).rows \in Seq(Comments) /\ CommentsHeld(p)[run'[p].at] \in Comments
          <5>1. File(p).rows \in Seq(Comments) /\ CommentsHeld(p) \in Seq(Comments)
            BY <2>1, FileHeld
          <5>2. QED
            BY <2>1, <5>1
        <4>2. QED
          BY <2>2, <4>1, OneMore
      <3>3. Len(File(p).rows) \in Nat /\ Len(CommentsHeld(p)) \in Nat
        BY <2>1, FileHeld
      <3>4. QED
        BY <2>1, <2>2, <3>1, <3>2, <3>3 DEF OfOneCheck
    <2>4. made' = made /\ begun' = begun
      BY <1>7 DEF InsertComment
    <2>5. QED
      BY <2>1, <2>2, <2>3, <2>4, FilesWriting
  <1>8. ASSUME NEW p \in Writers, IndexText(p) \/ InsertFinding(p) \/ StoreIdentity(p)
        PROVE  \A f \in 1..Len(files') : FileOfOneCheck(f)'
    <2>1. run[p].pc \in Inserting /\ \E g \in IndexFile : Writes(p, g) /\ g.rows = File(p).rows /\ g.vec = File(p).vec
      <3>1. CASE IndexText(p)
        BY <3>1, IndexTextDoes DEF Inserting
      <3>2. CASE InsertFinding(p)
        BY <3>2, InsertFindingDoes DEF Inserting
      <3>3. CASE StoreIdentity(p)
        BY <3>3, StoreIdentityDoes DEF Inserting
      <3>4. QED
        BY <1>8, <3>1, <3>2, <3>3
    <2>2. PICK g \in IndexFile : Writes(p, g) /\ g.rows = File(p).rows /\ g.vec = File(p).vec
      BY <2>1
    <2>3. ~Crossed(run[p].check) => OfOneCheck(g, CommentsHeld(p), run[p].model)
      BY <1>5, <2>1, <2>2 DEF OfOneCheck
    <2>4. made' = made /\ begun' = begun
      BY <1>8 DEF IndexText, InsertFinding, StoreIdentity
    <2>5. QED
      BY <2>1, <2>2, <2>3, <2>4, FilesWriting
  <1>9. ASSUME NEW p \in Writers, IndexVector(p) PROVE \A f \in 1..Len(files') : FileOfOneCheck(f)'
    <2>1. run[p].pc = "vec" /\ run[p].vector.of = run[p].model
      BY <1>9, <1>1 DEF IndexVector, VectorsKnown
    <2>2. PICK g \in IndexFile :
            /\ Writes(p, g) /\ g.rows = File(p).rows
            /\ \A e \in g.vec : e \in File(p).vec \/ e.vector = run[p].vector
      BY <1>9, IndexVectorDoes
    <2>3. ~Crossed(run[p].check) => OfOneCheck(g, CommentsHeld(p), run[p].model)
      BY <1>5, <2>1, <2>2 DEF OfOneCheck, Inserting
    <2>4. made' = made /\ begun' = begun
      BY <1>9 DEF IndexVector
    <2>5. QED
      BY <2>1, <2>2, <2>3, <2>4, FilesWriting DEF Inserting
  <1>10. ASSUME NEW p \in Writers, \/ Begin(p) \/ LookForStale(p) \/ RemoveStale(p) \/ ReuseVector(p)
                                   \/ ComputeVector(p) \/ StoreVector(p) \/ Finish(p) \/ Break(p)
         PROVE  files' = files /\ made' = made
    BY <1>10 DEF Begin, LookForStale, RemoveStale, ReuseVector, ComputeVector, StoreVector, Finish, Break
  <1>11. ASSUME NEW s \in Clients, OpenSession(s) PROVE \A f \in 1..Len(files') : FileOfOneCheck(f)'
    <2>1. /\ Len(files) \in Nat
          /\ \A f \in 1..Len(files) : files'[f] = files[f] /\ made'[f] = made[f]
          /\ \/ /\ path' = Len(files) + 1 /\ Len(files') = Len(files) + 1 /\ made'[path'] = 0
             \/ files' = files
      BY <1>11, OpenSessionDoes
    <2>2. ASSUME NEW f \in 1..Len(files') PROVE FileOfOneCheck(f)'
      <3>1. CASE f \in 1..Len(files)
        BY <1>0, <1>3, <2>1, <3>1, FileOfOneCheckKept
      <3>2. CASE f \notin 1..Len(files)
        <4>1. made'[f] = 0
          BY <2>1, <2>2, <3>2
        <4>2. QED
          BY <4>1 DEF FileOfOneCheck, Uncrossed
      <3>3. QED
        BY <3>1, <3>2
    <2>3. QED
      BY <2>2
  <1>12. ASSUME NEW s \in Clients, Use(s), ~OpenSession(s) PROVE files' = files /\ made' = made
    BY <1>12 DEF Use, FindIndex, Search, Fetch, Resolve, Leave
  <1>13. CASE UNCHANGED vars
    BY <1>4, <1>13 DEF vars
  <1>14. CASE \E p \in Writers : Persist(p)
    BY <1>4, <1>6, <1>7, <1>8, <1>9, <1>10, <1>14 DEF Persist
  <1>15. CASE \E s \in Clients : Use(s)
    BY <1>4, <1>11, <1>12, <1>15
  <1>16. QED
    BY <1>13, <1>14, <1>15 DEF Next

-----------------------------------------------------------------------------
(* How far a check is                                                       *)

LEMMA ProgressEmpty ==
  ASSUME NEW cs \in Seq(Comments), NEW r \in Run, r.pc = "next", r.at = 0
  PROVE  Progress(EmptyFile, cs, r)
  <1>1. Texted(r) = 0 /\ Vectored(r) = 0 /\ Settled(r) = 0
    BY DEF Texted, Vectored, Settled, Inserting
  <1>2. \A a \in {"rows", "findings"} : EmptyFile[a] = <<>>
    BY DEF EmptyFile
  <1>3. EmptyFile.rows = <<>> /\ EmptyFile.findings = <<>> /\ EmptyFile.fts = {} /\ EmptyFile.vec = {}
        /\ EmptyFile.identity = {}
    BY DEF EmptyFile
  <1>4. QED
    BY <1>1, <1>3 DEF Progress, Inserting

\* The findings of a comment are a sequence.
LEMMA FindingsOf ==
  ASSUME NEW cs \in Seq(Comments), NEW n \in 1..Len(cs)
  PROVE  cs[n].findings \in Seq(Findings) /\ Len(cs[n].findings) \in Nat
  <1>1. cs[n] \in Comments
    OBVIOUS
  <1>2. QED
    BY <1>1, IndexAssumption

\* A comment is inserted.
LEMMA ProgressRow ==
  ASSUME NEW cs \in Seq(Comments), NEW f \in IndexFile, NEW g \in IndexFile,
         NEW r \in Run, NEW s \in Run, Progress(f, cs, r),
         r.pc = "next", s.pc = "fts", s.at = r.at + 1, s.at \in 1..Len(cs), s.filed = 0,
         s.id = Len(f.rows) + 1, g.rows = Append(f.rows, cs[s.at]),
         g.fts = f.fts, g.vec = f.vec, g.findings = f.findings, g.identity = f.identity
  PROVE  Progress(g, cs, s)
  <1>1. r.at \in Nat /\ s.at \in Nat /\ Len(cs) \in Nat
    BY DEF Run
  <1>2. Texted(r) = r.at /\ Vectored(r) = r.at /\ Settled(r) = r.at
    BY DEF Texted, Vectored, Settled, Inserting
  <1>3. Texted(s) = r.at /\ Vectored(s) = r.at /\ Settled(s) = r.at
    BY <1>1 DEF Texted, Vectored, Settled, Inserting
  <1>4. Len(f.rows) = r.at /\ Len(g.rows) = r.at + 1
    <2>1. f.rows \in Seq(Comments) /\ cs[s.at] \in Comments
      BY DEF IndexFile
    <2>2. QED
      BY <2>1, OneMore DEF Progress
  <1>5. f.findings \in Seq([id : Ids, finding : Findings])
    BY DEF IndexFile
  <1>6. \A j \in 1..Len(f.findings) : f.findings[j].id \in Nat /\ f.findings[j].id <= r.at
    <2> DEFINE Stored == [id : Ids, finding : Findings]
    <2>1. \A e \in Stored : e.id \in Nat
      BY DEF Ids
    <2>2. \A j \in 1..Len(f.findings) : f.findings[j].id <= r.at
      BY DEF Progress
    <2>3. f.findings \in Seq(Stored)
      BY <1>5
    <2> HIDE DEF Stored
    <2>4. \A j \in 1..Len(f.findings) : f.findings[j] \in Stored
      BY <2>3
    <2>5. QED
      BY <2>1, <2>2, <2>4
  <1>7. Len(cs[s.at].findings) \in Nat
    BY FindingsOf
  <1>8. Latest(g.findings, s.at, cs[s.at].findings, 0)
    BY <1>1, <1>5, <1>6, <1>7 DEF Latest
  <1>9. QED
    BY <1>1, <1>2, <1>3, <1>4, <1>6, <1>8 DEF Progress

\* The text or the vector of the comment is indexed, or its vector found.
LEMMA ProgressTables ==
  ASSUME NEW cs \in Seq(Comments), NEW f \in IndexFile, NEW g \in IndexFile,
         NEW r \in Run, NEW s \in Run, Progress(f, cs, r),
         r.pc \in Inserting, s.pc \in Inserting, s.at = r.at, s.id = r.id, s.filed = r.filed,
         {e.id : e \in g.fts} = 1..Texted(s), {e.id : e \in g.vec} = 1..Vectored(s),
         g.rows = f.rows, g.findings = f.findings, g.identity = f.identity
  PROVE  Progress(g, cs, s)
  <1>1. Settled(s) = Settled(r)
    BY DEF Settled
  <1>2. QED
    BY <1>1 DEF Progress

\* Up to the one before, and then that one.
LEMMA UpTo == ASSUME NEW n \in Nat, n > 0 PROVE (1..(n - 1)) \cup {n} = 1..n
  OBVIOUS

\* One finding more, of the comment being inserted.
LEMMA LatestMore ==
  ASSUME NEW S, NEW stored \in Seq(S), NEW e \in S, NEW n, NEW expected \in Seq(Findings),
         NEW filed \in Nat, filed + 1 <= Len(expected), Latest(stored, n, expected, filed),
         e.id = n, e.finding = expected[filed + 1]
  PROVE  Latest(Append(stored, e), n, expected, filed + 1)
  <1>1. PICK longer : longer = Append(stored, e)
    OBVIOUS
  <1>2. /\ Len(stored) \in Nat /\ Len(longer) = Len(stored) + 1 /\ longer[Len(stored) + 1] = e
        /\ \A i \in 1..Len(stored) : longer[i] = stored[i]
    BY <1>1, OneMore
  <1>3. /\ filed <= Len(stored)
        /\ \A j \in 1..Len(stored) : stored[j].id = n <=> j > Len(stored) - filed
        /\ \A i \in 1..filed : stored[Len(stored) - filed + i].finding = expected[i]
    BY DEF Latest
  <1>4. ASSUME NEW j \in 1..Len(longer) PROVE longer[j].id = n <=> j > Len(longer) - (filed + 1)
    <2>1. CASE j = Len(stored) + 1
      BY <1>2, <1>3, <2>1
    <2>2. CASE j # Len(stored) + 1
      <3>1. j \in 1..Len(stored) /\ longer[j] = stored[j]
        BY <1>2, <2>2
      <3>2. QED
        BY <1>2, <1>3, <3>1
    <2>3. QED
      BY <2>1, <2>2
  <1>5. ASSUME NEW i \in 1..(filed + 1)
        PROVE  longer[Len(longer) - (filed + 1) + i].finding = expected[i]
    <2>1. PICK k : k = Len(longer) - (filed + 1) + i
      OBVIOUS
    <2>2. CASE i = filed + 1
      <3>1. k = Len(stored) + 1
        BY <1>2, <2>1, <2>2
      <3>2. QED
        BY <1>2, <2>1, <2>2, <3>1
    <2>3. CASE i # filed + 1
      <3>1. i \in 1..filed /\ k = Len(stored) - filed + i /\ k \in 1..Len(stored)
        BY <1>2, <1>3, <2>1, <2>3
      <3>2. longer[k] = stored[k] /\ stored[k].finding = expected[i]
        BY <1>2, <1>3, <3>1
      <3>3. QED
        BY <2>1, <3>2
    <2>4. QED
      BY <2>2, <2>3
  <1>6. filed + 1 <= Len(longer)
    BY <1>2, <1>3
  <1>7. Latest(longer, n, expected, filed + 1)
    BY <1>4, <1>5, <1>6 DEF Latest
  <1>8. QED
    BY <1>1, <1>7

\* A finding of another comment leaves those of a comment in order.
LEMMA InOrderStays ==
  ASSUME NEW S, NEW stored \in Seq(S), NEW e \in S, NEW n, NEW expected \in Seq(Findings),
         InOrder(stored, n, expected), e.id # n
  PROVE  InOrder(Append(stored, e), n, expected)
  <1>1. PICK longer : longer = Append(stored, e)
    OBVIOUS
  <1>2. /\ Len(stored) \in Nat /\ Len(longer) = Len(stored) + 1 /\ longer[Len(stored) + 1] = e
        /\ \A i \in 1..Len(stored) : longer[i] = stored[i]
    BY <1>1, OneMore
  <1>3. PICK k \in 0..Len(stored) :
          /\ {j \in 1..Len(stored) : stored[j].id = n} = (k + 1)..(k + Len(expected))
          /\ \A i \in 1..Len(expected) : stored[k + i].finding = expected[i]
    BY DEF InOrder
  <1>4. {j \in 1..Len(longer) : longer[j].id = n} = {j \in 1..Len(stored) : stored[j].id = n}
    <2>1. ASSUME NEW j \in 1..Len(longer), longer[j].id = n
          PROVE  j \in 1..Len(stored) /\ stored[j].id = n
      <3>1. j # Len(stored) + 1
        BY <1>2, <2>1
      <3>2. j \in 1..Len(stored)
        BY <1>2, <3>1
      <3>3. QED
        BY <1>2, <2>1, <3>2
    <2>2. ASSUME NEW j \in 1..Len(stored), stored[j].id = n
          PROVE  j \in 1..Len(longer) /\ longer[j].id = n
      BY <1>2, <2>2
    <2>3. QED
      BY <2>1, <2>2
  <1>5. ASSUME NEW i \in 1..Len(expected) PROVE longer[k + i].finding = expected[i]
    <2>1. k + i \in (k + 1)..(k + Len(expected))
      OBVIOUS
    <2>2. k + i \in 1..Len(stored)
      BY <1>3, <2>1
    <2>3. QED
      BY <1>2, <1>3, <2>2
  <1>6. k \in 0..Len(longer)
    BY <1>2
  <1>7. QED
    BY <1>1, <1>3, <1>4, <1>5, <1>6 DEF InOrder

\* When all the findings of the last comment are in, they are in order.
LEMMA LatestIsInOrder ==
  ASSUME NEW S, NEW stored \in Seq(S), NEW n, NEW expected \in Seq(Findings),
         Latest(stored, n, expected, Len(expected))
  PROVE  InOrder(stored, n, expected)
  <1>1. PICK m : m = Len(expected)
    OBVIOUS
  <1>2. PICK k : k = Len(stored) - m
    OBVIOUS
  <1>3. /\ m <= Len(stored) /\ m \in Nat /\ Len(stored) \in Nat
        /\ \A j \in 1..Len(stored) : stored[j].id = n <=> j > k
        /\ \A i \in 1..m : stored[k + i].finding = expected[i]
    BY <1>1, <1>2 DEF Latest
  <1>4. k \in 0..Len(stored) /\ k + m = Len(stored)
    BY <1>2, <1>3
  <1>5. {j \in 1..Len(stored) : stored[j].id = n} = (k + 1)..(k + m)
    <2>1. ASSUME NEW j \in 1..Len(stored), stored[j].id = n PROVE j \in (k + 1)..(k + m)
      BY <1>3, <1>4, <2>1
    <2>2. ASSUME NEW j \in (k + 1)..(k + m) PROVE j \in 1..Len(stored) /\ stored[j].id = n
      <3>1. j \in 1..Len(stored) /\ j > k
        BY <1>3, <1>4
      <3>2. QED
        BY <1>3, <3>1
    <2>3. QED
      BY <2>1, <2>2
  <1>6. QED
    BY <1>1, <1>3, <1>4, <1>5 DEF InOrder

\* A finding is inserted: it is the next of the comment, and the findings of
\* the comments before are where they were.
LEMMA ProgressFinding ==
  ASSUME NEW cs \in Seq(Comments), NEW f \in IndexFile, NEW g \in IndexFile,
         NEW r \in Run, NEW s \in Run, Progress(f, cs, r), r.at \in 1..Len(cs),
         r.pc = "findings", s.pc = "findings", s.at = r.at, s.id = r.id,
         s.filed = r.filed + 1, s.filed \in 1..Len(cs[r.at].findings),
         NEW e \in [id : Ids, finding : Findings],
         g.findings = Append(f.findings, e), e.id = r.id, e.finding = cs[r.at].findings[s.filed],
         g.rows = f.rows, g.fts = f.fts, g.vec = f.vec, g.identity = f.identity
  PROVE  Progress(g, cs, s)
  <1> DEFINE Stored == [id : Ids, finding : Findings]
  <1>1. /\ Settled(s) = r.at - 1 /\ Settled(r) = r.at - 1
        /\ Texted(s) = Texted(r) /\ Vectored(s) = Vectored(r)
    BY DEF Settled, Texted, Vectored, Inserting
  <1>2. /\ r.at \in Nat /\ r.filed \in Nat /\ r.id = r.at
        /\ Latest(f.findings, r.at, cs[r.at].findings, r.filed)
    BY DEF Run, Progress, Inserting
  <1>3. f.findings \in Seq(Stored) /\ e \in Stored
    BY DEF IndexFile
  <1>4. \A n \in 1..Len(cs) : cs[n].findings \in Seq(Findings) /\ Len(cs[n].findings) \in Nat
    BY FindingsOf
  <1> HIDE DEF Stored
  <1>5. Latest(g.findings, s.at, cs[s.at].findings, s.filed)
    <2>1. r.filed + 1 <= Len(cs[r.at].findings)
      BY <1>2, <1>4
    <2>2. e.id = r.at /\ e.finding = cs[r.at].findings[r.filed + 1] /\ cs[r.at].findings \in Seq(Findings)
      BY <1>2, <1>4
    <2>3. Latest(Append(f.findings, e), r.at, cs[r.at].findings, r.filed + 1)
      BY <1>2, <1>3, <2>1, <2>2, LatestMore
    <2>4. QED
      BY <2>3
  <1>6. ASSUME NEW n \in 1..Settled(s) PROVE InOrder(g.findings, n, cs[n].findings)
    <2>1. InOrder(f.findings, n, cs[n].findings)
      BY <1>1 DEF Progress
    <2>2. n \in 1..Len(cs) /\ n # e.id
      BY <1>1, <1>2
    <2>3. QED
      BY <1>3, <1>4, <2>1, <2>2, InOrderStays
  <1>7. \A j \in 1..Len(g.findings) : g.findings[j].id <= s.at
    <2>1. \A j \in 1..Len(f.findings) : f.findings[j].id <= r.at
      BY DEF Progress
    <2>2. PICK longer : longer = g.findings
      OBVIOUS
    <2>3. /\ Len(f.findings) \in Nat /\ Len(longer) = Len(f.findings) + 1
          /\ longer[Len(f.findings) + 1] = e /\ \A i \in 1..Len(f.findings) : longer[i] = f.findings[i]
      BY <1>3, <2>2, OneMore
    <2>4. ASSUME NEW j \in 1..Len(longer) PROVE longer[j].id <= s.at
      <3>1. CASE j = Len(f.findings) + 1
        BY <1>2, <2>3, <3>1
      <3>2. CASE j # Len(f.findings) + 1
        <4>1. j \in 1..Len(f.findings)
          BY <2>3, <3>2
        <4>2. QED
          BY <2>1, <2>3, <4>1
      <3>3. QED
        BY <3>1, <3>2
    <2>5. QED
      BY <2>2, <2>4
  <1>8. QED
    BY <1>1, <1>2, <1>5, <1>6, <1>7 DEF Progress, Inserting

\* The identity of the comment is stored, all its findings are there.
LEMMA ProgressIdentity ==
  ASSUME NEW cs \in Seq(Comments), NEW f \in IndexFile, NEW g \in IndexFile,
         NEW r \in Run, NEW s \in Run, Progress(f, cs, r), r.at \in 1..Len(cs),
         r.pc = "findings", s.pc = "next", s.at = r.at, s.id = r.id,
         r.filed = Len(cs[r.at].findings),
         {e.id : e \in g.identity} = {e.id : e \in f.identity} \cup {r.id},
         \A e \in g.identity : e \in f.identity \/ (e.id = r.id /\ e.is = Identity(cs, r.at)),
         g.rows = f.rows, g.fts = f.fts, g.vec = f.vec, g.findings = f.findings
  PROVE  Progress(g, cs, s)
  <1>1. r.at \in Nat /\ r.at > 0 /\ r.filed \in Nat /\ r.id = r.at
    BY DEF Run, Progress, Inserting
  <1>2. /\ Settled(r) = r.at - 1 /\ Settled(s) = r.at
        /\ Texted(r) = r.at /\ Texted(s) = r.at /\ Vectored(r) = r.at /\ Vectored(s) = r.at
    BY DEF Settled, Texted, Vectored, Inserting
  <1>3. {e.id : e \in g.identity} = 1..Settled(s)
    <2>1. {e.id : e \in f.identity} = 1..(r.at - 1)
      BY <1>2 DEF Progress
    <2>2. QED
      BY <1>1, <1>2, <2>1, UpTo
  <1>4. \A e \in g.identity : e.is = Identity(cs, e.id)
    BY <1>1 DEF Progress
  <1>5. InOrder(f.findings, r.at, cs[r.at].findings)
    <2>1. f.findings \in Seq([id : Ids, finding : Findings])
      BY DEF IndexFile
    <2>2. cs[r.at].findings \in Seq(Findings)
      BY FindingsOf
    <2>3. Latest(f.findings, r.at, cs[r.at].findings, Len(cs[r.at].findings))
      BY DEF Progress, Inserting
    <2>4. QED
      BY <2>1, <2>2, <2>3, LatestIsInOrder
  <1>6. \A n \in 1..Settled(s) : InOrder(g.findings, n, cs[n].findings)
    <2>1. \A n \in 1..(r.at - 1) : InOrder(f.findings, n, cs[n].findings)
      BY <1>2 DEF Progress
    <2>2. \A n \in 1..r.at : n \in 1..(r.at - 1) \/ n = r.at
      BY <1>1
    <2>3. QED
      BY <1>2, <1>5, <2>1, <2>2
  <1>7. QED
    BY <1>2, <1>3, <1>4, <1>6 DEF Progress, Inserting

\* Whoever is at work besides a writer is crossed: nothing is said of it.
LEMMA BuildingOthers ==
  ASSUME Sound, Checks, Building, Entered, NEW p \in Writers, Active(p), OnlyOf(p),
         NEW q \in Writers, q # p
  PROVE  BuildingAt(q)'
  <1>1. run'[q] = run[q] /\ BuildingAt(q) /\ Held(q)
    BY DEF OnlyOf, Building, Sound
  <1>2. ASSUME Active(q) PROVE Crossed(run[q].check)'
    <2>1. Crossed(run[q].check) /\ run[q].check \in 1..Len(begun)
      BY <1>1, <1>2 DEF Checks, Held, Active
    <2>2. QED
      BY <1>1, <2>1 DEF Crossed, Entered
  <1>3. QED
    BY <1>1, <1>2 DEF BuildingAt, Active, Inserting

\* A writer has put g in the place of its file, and it is as far as that.
LEMMA BuildingWriting ==
  ASSUME Sound, NEW p \in Writers, Continues(p), run'[p].file = run[p].file,
         run[p].file \in 1..Len(files), run'[p].pc \in Inserting \cup {"next"}, begun' = begun,
         NEW g, files'[run[p].file] = g,
         ~Crossed(run[p].check) => Progress(g, CommentsHeld(p), run'[p])
  PROVE  BuildingAt(p)'
  <1>1. /\ CommentsHeld(p)' = CommentsHeld(p) /\ File(p)' = g
        /\ (Crossed(run[p].check)' <=> Crossed(run[p].check))
    BY DEF CommentsHeld, File, Continues, Crossed
  <1>2. run'[p].pc \notin {"exists", "remove", "open"}
    BY DEF Inserting
  <1>3. QED
    BY <1>1, <1>2 DEF BuildingAt

LEMMA BuildingStep ==
  ASSUME Sound, Sound', Checks, Ours, Building, [Next]_vars
  PROVE  Building'
  <1>0. Entered
    BY StaysEntered
  <1>1. \A q \in Writers : run[q] \in Run /\ run'[q] \in Run /\ BuildingAt(q) /\ Held(q)
    BY DEF Sound, TypeOK, Building
  <1>2. ASSUME NEW p \in Writers, OnlyOf(p), Active(p), BuildingAt(p)' PROVE Building'
    BY <1>0, <1>2, BuildingOthers DEF Building
  <1>3. ASSUME NEW p \in Writers, run[p].pc \in Inserting \cup {"next"}
        PROVE  /\ Active(p) /\ run[p].file \in 1..Len(files) /\ File(p) \in IndexFile
               /\ CommentsHeld(p) \in Seq(Comments) /\ files[run[p].file] = File(p)
               /\ ~Crossed(run[p].check) => Progress(File(p), CommentsHeld(p), run[p])
               /\ run[p].pc \in Inserting => run[p].at \in 1..Len(CommentsHeld(p))
    <2>1. Active(p)
      BY <1>3 DEF Active, Inserting
    <2>2. run[p].file \in 1..Len(files) /\ File(p) \in IndexFile /\ files[run[p].file] = File(p)
          /\ CommentsHeld(p) \in Seq(Comments)
      BY <1>3, FileHeld
    <2>3. run[p].pc \in Inserting => run[p].at \in 1..Len(CommentsHeld(p))
      BY <1>1 DEF Held
    <2>4. ~Crossed(run[p].check) => Progress(File(p), CommentsHeld(p), run[p])
      BY <1>1, <1>3 DEF BuildingAt
    <2>5. QED
      BY <2>1, <2>2, <2>3, <2>4
  <1>4. ASSUME NEW p \in Writers, Begin(p) PROVE Building'
    <2>1. /\ OnlyOf(p) /\ run'[p].pc = "exists" /\ run'[p].at = 0 /\ Len(begun) \in Nat
          /\ \A c \in 1..Len(begun) :
               begun'[c].crossed <=> begun[c].crossed \/ \E q \in Writers : run[q].check = c
      BY <1>4, BeginDoes
    <2>2. BuildingAt(p)'
      BY <2>1 DEF BuildingAt, Inserting
    <2>3. ASSUME NEW q \in Writers, q # p PROVE BuildingAt(q)'
      <3>1. run'[q] = run[q]
        BY <2>1, <2>3 DEF OnlyOf
      <3>2. run[q].pc # "idle" => Crossed(run[q].check)'
        BY <1>1, <2>1, <3>1 DEF Held, Crossed
      <3>3. QED
        BY <1>1, <3>1, <3>2 DEF BuildingAt, Inserting
    <2>4. QED
      BY <2>2, <2>3 DEF Building
  <1>5. ASSUME NEW p \in Writers, LookForStale(p) \/ RemoveStale(p) PROVE Building'
    <2>1. /\ OnlyOf(p) /\ run[p].pc \in {"exists", "remove"}
          /\ run'[p].pc \in {"idle", "remove", "open"} /\ run'[p].at = 0
      <3>1. CASE LookForStale(p)
        BY <1>1, <3>1, LookForStaleDoes DEF BuildingAt
      <3>2. CASE RemoveStale(p)
        BY <1>1, <3>2, RemoveStaleDoes, IdleHolds DEF BuildingAt
      <3>3. QED
        BY <1>5, <3>1, <3>2
    <2>2. Active(p) /\ BuildingAt(p)'
      BY <2>1 DEF Active, BuildingAt, Inserting
    <2>3. QED
      BY <1>2, <2>1, <2>2
  <1>6. ASSUME NEW p \in Writers, OpenIndex(p) PROVE Building'
    <2>1. /\ OnlyOf(p) /\ Continues(p) /\ run[p].pc = "open" /\ run'[p].pc = "next"
          /\ run'[p].at = run[p].at /\ run'[p].file = path' /\ path' \in 1..Len(files')
          /\ \/ path = None /\ files'[path'] = EmptyFile
             \/ path # None /\ path' = path /\ files' = files
      BY <1>6, OpenIndexDoes
    <2>2. begun' = begun
      BY <1>6 DEF OpenIndex
    <2>3. Active(p) /\ run'[p].at = 0
      BY <1>1, <2>1 DEF Active, BuildingAt
    <2>4. ASSUME ~Crossed(run[p].check) PROVE files'[path'] = EmptyFile
      <3>1. path = None \/ made[path] = 0
        BY <2>1, <2>4 DEF Ours, OursAt
      <3>2. path # None => path \in 1..Len(files)
        BY DEF Sound, TypeOK
      <3>3. QED
        BY <2>1, <3>1, <3>2 DEF Ours
    <2>5. Progress(EmptyFile, CommentsHeld(p), run'[p])
      <3>1. CommentsHeld(p) \in Seq(Comments)
        BY <1>1, IndexAssumption DEF CommentsHeld, Run
      <3>2. QED
        BY <1>1, <2>1, <2>3, <3>1, ProgressEmpty
    <2>6. BuildingAt(p)'
      <3>1. CommentsHeld(p)' = CommentsHeld(p) /\ File(p)' = files'[path']
        BY <2>1 DEF CommentsHeld, File, Continues
      <3>2. Crossed(run[p].check)' <=> Crossed(run[p].check)
        BY <2>1, <2>2 DEF Crossed, Continues
      <3>3. QED
        BY <2>1, <2>4, <2>5, <3>1, <3>2 DEF BuildingAt
    <2>7. QED
      BY <1>2, <2>1, <2>3, <2>6
  <1>7. ASSUME NEW p \in Writers, InsertComment(p) PROVE Building'
    <2>1. /\ OnlyOf(p) /\ Continues(p) /\ run[p].pc = "next" /\ run'[p].pc = "fts"
          /\ run'[p].file = run[p].file /\ run'[p].filed = 0
          /\ run'[p].at = run[p].at + 1 /\ run'[p].at \in 1..Len(CommentsHeld(p))
          /\ run'[p].id = Len(File(p).rows) + 1
      BY <1>7, InsertCommentDoes
    <2>2. PICK g \in IndexFile :
            /\ Writes(p, g)
            /\ g.rows = Append(File(p).rows, CommentsHeld(p)[run'[p].at])
            /\ g.fts = File(p).fts /\ g.vec = File(p).vec /\ g.findings = File(p).findings
            /\ g.identity = File(p).identity
      BY <1>7, InsertCommentDoes
    <2>3. ~Crossed(run[p].check) => Progress(g, CommentsHeld(p), run'[p])
      BY <1>1, <1>3, <2>1, <2>2, ProgressRow
    <2>4. begun' = begun
      BY <1>7 DEF InsertComment
    <2>5. BuildingAt(p)'
      BY <1>3, <2>1, <2>2, <2>3, <2>4, BuildingWriting DEF Writes, Inserting
    <2>6. QED
      BY <1>2, <1>3, <2>1, <2>5
  <1>8. ASSUME NEW p \in Writers, IndexText(p) PROVE Building'
    <2>1. /\ OnlyOf(p) /\ StaysAt(p) /\ run[p].pc = "fts" /\ run'[p].pc = "embed"
          /\ run'[p].filed = run[p].filed
      BY <1>8, IndexTextDoes
    <2>2. PICK g \in IndexFile :
            /\ Writes(p, g) /\ g.rows = File(p).rows
            /\ {e.id : e \in g.fts} = {e.id : e \in File(p).fts} \cup {run[p].id}
            /\ g.vec = File(p).vec /\ g.findings = File(p).findings /\ g.identity = File(p).identity
      BY <1>8, IndexTextDoes
    <2>3. ASSUME ~Crossed(run[p].check) PROVE Progress(g, CommentsHeld(p), run'[p])
      <3>1. /\ Progress(File(p), CommentsHeld(p), run[p]) /\ run[p].pc \in Inserting
            /\ run[p].at \in 1..Len(CommentsHeld(p)) /\ run'[p].pc \in Inserting
        BY <1>3, <2>1, <2>3 DEF Inserting
      <3>2. run[p].at \in Nat /\ run[p].at > 0 /\ run[p].id = run[p].at
        BY <1>1, <3>1 DEF Progress, Run
      <3>3. Texted(run[p]) = run[p].at - 1 /\ Texted(run'[p]) = run[p].at
            /\ Vectored(run'[p]) = Vectored(run[p])
        BY <2>1 DEF Texted, Vectored, StaysAt
      <3>4. {e.id : e \in g.fts} = 1..Texted(run'[p]) /\ {e.id : e \in g.vec} = 1..Vectored(run'[p])
        BY <2>2, <3>1, <3>2, <3>3, UpTo DEF Progress
      <3>5. QED
        BY <1>1, <1>3, <2>1, <2>2, <3>1, <3>4, ProgressTables DEF StaysAt
    <2>4. begun' = begun
      BY <1>8 DEF IndexText
    <2>5. BuildingAt(p)'
      BY <1>3, <2>1, <2>2, <2>3, <2>4, BuildingWriting DEF Writes, Inserting, StaysAt
    <2>6. QED
      BY <1>2, <1>3, <2>1, <2>5 DEF Inserting
  <1>9. ASSUME NEW p \in Writers, IndexVector(p) PROVE Building'
    <2>1. /\ OnlyOf(p) /\ StaysAt(p) /\ run[p].pc = "vec" /\ run'[p].pc = "findings"
          /\ run'[p].filed = run[p].filed
      BY <1>9, IndexVectorDoes
    <2>2. PICK g \in IndexFile :
            /\ Writes(p, g) /\ g.rows = File(p).rows
            /\ {e.id : e \in g.vec} = {e.id : e \in File(p).vec} \cup {run[p].id}
            /\ g.fts = File(p).fts /\ g.findings = File(p).findings /\ g.identity = File(p).identity
      BY <1>9, IndexVectorDoes
    <2>3. ASSUME ~Crossed(run[p].check) PROVE Progress(g, CommentsHeld(p), run'[p])
      <3>1. /\ Progress(File(p), CommentsHeld(p), run[p]) /\ run[p].pc \in Inserting
            /\ run[p].at \in 1..Len(CommentsHeld(p)) /\ run'[p].pc \in Inserting
        BY <1>3, <2>1, <2>3 DEF Inserting
      <3>2. run[p].at \in Nat /\ run[p].at > 0 /\ run[p].id = run[p].at
        BY <1>1, <3>1 DEF Progress, Run
      <3>3. Vectored(run[p]) = run[p].at - 1 /\ Vectored(run'[p]) = run[p].at
            /\ Texted(run'[p]) = Texted(run[p])
        BY <2>1 DEF Texted, Vectored, StaysAt
      <3>4. {e.id : e \in g.fts} = 1..Texted(run'[p]) /\ {e.id : e \in g.vec} = 1..Vectored(run'[p])
        BY <2>2, <3>1, <3>2, <3>3, UpTo DEF Progress
      <3>5. QED
        BY <1>1, <1>3, <2>1, <2>2, <3>1, <3>4, ProgressTables DEF StaysAt
    <2>4. begun' = begun
      BY <1>9 DEF IndexVector
    <2>5. BuildingAt(p)'
      BY <1>3, <2>1, <2>2, <2>3, <2>4, BuildingWriting DEF Writes, Inserting, StaysAt
    <2>6. QED
      BY <1>2, <1>3, <2>1, <2>5 DEF Inserting
  <1>10. ASSUME NEW p \in Writers, ReuseVector(p) \/ ComputeVector(p) \/ StoreVector(p) PROVE Building'
    <2>1. /\ OnlyOf(p) /\ StaysAt(p) /\ run'[p].filed = run[p].filed
          /\ run[p].pc \in {"embed", "store"} /\ run'[p].pc \in {"store", "vec"}
      BY <1>10, VectorDoes
    <2>2. files' = files /\ begun' = begun
      BY <1>10 DEF ReuseVector, ComputeVector, StoreVector
    <2>3. ASSUME ~Crossed(run[p].check) PROVE Progress(File(p), CommentsHeld(p), run'[p])
      <3>1. Progress(File(p), CommentsHeld(p), run[p]) /\ run[p].pc \in Inserting /\ run'[p].pc \in Inserting
        BY <1>3, <2>1, <2>3 DEF Inserting
      <3>2. Texted(run'[p]) = Texted(run[p]) /\ Vectored(run'[p]) = Vectored(run[p])
        BY <2>1 DEF Texted, Vectored, StaysAt
      <3>3. {e.id : e \in File(p).fts} = 1..Texted(run'[p]) /\ {e.id : e \in File(p).vec} = 1..Vectored(run'[p])
        BY <3>1, <3>2 DEF Progress
      <3>4. File(p) \in IndexFile /\ CommentsHeld(p) \in Seq(Comments)
        BY <1>3, <3>1
      <3>5. run'[p].at = run[p].at /\ run'[p].id = run[p].id
        BY <2>1 DEF StaysAt
      <3>6. QED
        BY <1>1, <2>1, <3>1, <3>3, <3>4, <3>5, ProgressTables
    <2>4. BuildingAt(p)'
      BY <1>3, <2>1, <2>2, <2>3, BuildingWriting DEF Inserting, StaysAt
    <2>5. QED
      BY <1>2, <1>3, <2>1, <2>4 DEF Inserting
  <1>11. ASSUME NEW p \in Writers, InsertFinding(p) PROVE Building'
    <2>1. /\ OnlyOf(p) /\ StaysAt(p) /\ run[p].pc = "findings" /\ run'[p].pc = "findings"
          /\ run'[p].filed = run[p].filed + 1 /\ run'[p].filed \in 1..Len(Current(p).findings)
      BY <1>11, InsertFindingDoes
    <2>2. PICK g \in IndexFile, e \in [id : Ids, finding : Findings] :
            /\ Writes(p, g) /\ g.rows = File(p).rows
            /\ g.findings = Append(File(p).findings, e)
            /\ e.id = run[p].id /\ e.finding = Current(p).findings[run'[p].filed]
            /\ g.fts = File(p).fts /\ g.vec = File(p).vec /\ g.identity = File(p).identity
      BY <1>11, InsertFindingDoes
    <2>3. ~Crossed(run[p].check) => Progress(g, CommentsHeld(p), run'[p])
      <3>1. Current(p) = CommentsHeld(p)[run[p].at] /\ run[p].at \in 1..Len(CommentsHeld(p))
        BY <1>3, <2>1 DEF Current, Inserting
      <3>2. run'[p].at = run[p].at /\ run'[p].id = run[p].id
        BY <2>1 DEF StaysAt
      <3>3. QED
        BY <1>1, <1>3, <2>1, <2>2, <3>1, <3>2, ProgressFinding DEF Inserting
    <2>4. begun' = begun
      BY <1>11 DEF InsertFinding
    <2>5. BuildingAt(p)'
      BY <1>3, <2>1, <2>2, <2>3, <2>4, BuildingWriting DEF Writes, Inserting, StaysAt
    <2>6. QED
      BY <1>2, <1>3, <2>1, <2>5 DEF Inserting
  <1>12. ASSUME NEW p \in Writers, StoreIdentity(p) PROVE Building'
    <2>1. /\ OnlyOf(p) /\ StaysAt(p) /\ run[p].pc = "findings" /\ run'[p].pc = "next"
          /\ run[p].filed = Len(Current(p).findings)
      BY <1>12, StoreIdentityDoes
    <2>2. PICK g \in IndexFile :
            /\ Writes(p, g) /\ g.rows = File(p).rows
            /\ {e.id : e \in g.identity} = {e.id : e \in File(p).identity} \cup {run[p].id}
            /\ \A e \in g.identity :
                 \/ e \in File(p).identity
                 \/ e.id = run[p].id /\ e.is = Identity(CommentsHeld(p), run[p].at)
            /\ g.fts = File(p).fts /\ g.vec = File(p).vec /\ g.findings = File(p).findings
      BY <1>12, StoreIdentityDoes
    <2>3. ~Crossed(run[p].check) => Progress(g, CommentsHeld(p), run'[p])
      <3>1. Current(p) = CommentsHeld(p)[run[p].at] /\ run[p].at \in 1..Len(CommentsHeld(p))
        BY <1>3, <2>1 DEF Current, Inserting
      <3>2. run'[p].at = run[p].at /\ run'[p].id = run[p].id
        BY <2>1 DEF StaysAt
      <3>3. QED
        BY <1>1, <1>3, <2>1, <2>2, <3>1, <3>2, ProgressIdentity DEF Inserting
    <2>4. begun' = begun
      BY <1>12 DEF StoreIdentity
    <2>5. BuildingAt(p)'
      BY <1>3, <2>1, <2>2, <2>3, <2>4, BuildingWriting DEF Writes, Inserting, StaysAt
    <2>6. QED
      BY <1>2, <1>3, <2>1, <2>5 DEF Inserting
  <1>13. ASSUME NEW p \in Writers, Finish(p) \/ Break(p) PROVE Building'
    <2>1. OnlyOf(p) /\ run'[p] = Idle /\ Active(p)
      BY <1>13, FinishDoes, BreakDoes DEF Break
    <2>2. BuildingAt(p)'
      BY <2>1, IdleHolds DEF BuildingAt, Inserting
    <2>3. QED
      BY <1>2, <2>1, <2>2
  <1>14. ASSUME run' = run, begun' = begun, \A f \in 1..Len(files) : files'[f] = files[f] PROVE Building'
    <2>1. ASSUME NEW q \in Writers PROVE BuildingAt(q)'
      <3>1. run[q].pc \in Inserting \cup {"next"} => File(q)' = File(q)
        BY <1>1, <1>14 DEF Held, File
      <3>2. QED
        BY <1>1, <1>14, <3>1 DEF BuildingAt, CommentsHeld, Crossed
    <2>2. QED
      BY <2>1 DEF Building
  <1>15. ASSUME NEW s \in Clients, Use(s)
         PROVE  run' = run /\ begun' = begun /\ \A f \in 1..Len(files) : files'[f] = files[f]
    <2>1. CASE OpenSession(s)
      BY <2>1, OpenSessionDoes DEF OpenSession
    <2>2. CASE ~OpenSession(s)
      BY <1>15, <2>2 DEF Use, FindIndex, Search, Fetch, Resolve, Leave
    <2>3. QED
      BY <2>1, <2>2
  <1>16. CASE UNCHANGED vars
    BY <1>14, <1>16 DEF vars
  <1>17. CASE \E p \in Writers : Persist(p)
    BY <1>4, <1>5, <1>6, <1>7, <1>8, <1>9, <1>10, <1>11, <1>12, <1>13, <1>17 DEF Persist
  <1>18. CASE \E s \in Clients : Use(s)
    BY <1>14, <1>15, <1>18
  <1>19. QED
    BY <1>16, <1>17, <1>18 DEF Next

-----------------------------------------------------------------------------
(* What a client holds                                                      *)

\* What was read from a check's list stays so: lists do not change, a check
\* that is crossed stays crossed, and a file being read only grows.
LEMMA AskedKept ==
  ASSUME Sound, Sound', Entered, NEW a \in Ask, AskedAt(a),
         a.pc = "fetch" => a.file \in 1..Len(files) /\ Extends(files'[a.file], files[a.file])
  PROVE  AskedAt(a)'
  <1>1. Len(begun) \in Nat /\ Len(begun') \in Nat /\ Len(begun) <= Len(begun')
        /\ Len(files) \in Nat /\ Len(files') \in Nat
    BY DEF Sound, TypeOK, Entered
  <1>2. ASSUME NEW c \in 0..Len(begun), Uncrossed(c)'
        PROVE  Uncrossed(c) /\ begun'[c].tree = begun[c].tree
    BY <1>2, UncrossedBefore
  <1>3. a.pc = "fetch" => a.id \in 1..Len(files'[a.file].rows)
    <2>1. SUFFICES ASSUME a.pc = "fetch" PROVE a.id \in 1..Len(files'[a.file].rows)
      OBVIOUS
    <2>2. a.id \in 1..Len(files[a.file].rows) /\ Len(files[a.file].rows) <= Len(files'[a.file].rows)
      BY <2>1 DEF AskedAt, Extends
    <2>3. Len(files[a.file].rows) \in Nat
      <3>1. files[a.file] \in IndexFile
        BY <2>1 DEF Sound, TypeOK
      <3>2. QED
        BY <3>1 DEF IndexFile
    <2>4. QED
      BY <2>2, <2>3, Z3
  <1>4. ASSUME a.hit # None
        PROVE  /\ a.hit.check \in 0..Len(begun') /\ a.id \in Ids
               /\ Uncrossed(a.hit.check)' => a.hit.comment = CommentsOf[begun'[a.hit.check].tree][a.id]
    BY <1>1, <1>2, <1>4 DEF AskedAt
  <1>5. ASSUME a.pc = "answered"
        PROVE  /\ a.hit # None /\ a.answer.check \in 0..Len(begun')
               /\ Uncrossed(a.answer.check)' =>
                    a.answer.comment \in {None, CommentsOf[begun'[a.answer.check].tree][a.id]}
    BY <1>1, <1>2, <1>5 DEF AskedAt
  <1>6. QED
    BY <1>3, <1>4, <1>5 DEF AskedAt

\* A file only grows, whoever writes it or opens the path.
LEMMA FilesGrow == ASSUME Sound, [Next]_vars, NEW f \in 1..Len(files) PROVE Extends(files'[f], files[f])
  <1>1. files[f] \in IndexFile /\ files[f].rows \in Seq(Comments) /\ Len(files[f].rows) \in Nat
    <2>1. files[f] \in IndexFile
      BY DEF Sound, TypeOK
    <2>2. QED
      BY <2>1 DEF IndexFile
  <1>2. ASSUME files'[f].rows = files[f].rows PROVE Extends(files'[f], files[f])
    BY <1>1, <1>2 DEF Extends
  <1>3. ASSUME NEW p \in Writers, run[p].pc \in Inserting \cup {"next"}, NEW g, Writes(p, g), g.rows = File(p).rows
        PROVE  files'[f].rows = files[f].rows
    BY <1>3 DEF Writes, File
  <1>4. ASSUME NEW p \in Writers, InsertComment(p) PROVE Extends(files'[f], files[f])
    <2>1. run[p].pc = "next" /\ run'[p].at \in 1..Len(CommentsHeld(p))
      BY <1>4, InsertCommentDoes
    <2>2. PICK g \in IndexFile : Writes(p, g) /\ g.rows = Append(File(p).rows, CommentsHeld(p)[run'[p].at])
      BY <1>4, InsertCommentDoes
    <2>3. CommentsHeld(p)[run'[p].at] \in Comments /\ File(p).rows \in Seq(Comments)
      <3>1. CommentsHeld(p) \in Seq(Comments) /\ File(p).rows \in Seq(Comments)
        BY <2>1, FileHeld
      <3>2. QED
        BY <2>1, <3>1
    <2>4. /\ Len(g.rows) = Len(File(p).rows) + 1 /\ Len(File(p).rows) \in Nat
          /\ \A i \in 1..Len(File(p).rows) : g.rows[i] = File(p).rows[i]
      BY <2>2, <2>3, OneMore
    <2>5. CASE f = run[p].file
      BY <2>2, <2>4, <2>5 DEF Extends, Writes, File
    <2>6. CASE f # run[p].file
      BY <1>2, <2>2, <2>6 DEF Writes
    <2>7. QED
      BY <2>5, <2>6
  <1>5. ASSUME NEW p \in Writers, Persist(p), ~InsertComment(p) PROVE files'[f].rows = files[f].rows
    <2>1. CASE OpenIndex(p)
      BY <2>1, OpenIndexDoes
    <2>2. CASE IndexText(p)
      BY <1>3, <2>2, IndexTextDoes DEF Inserting
    <2>3. CASE IndexVector(p)
      BY <1>3, <2>3, IndexVectorDoes DEF Inserting
    <2>4. CASE InsertFinding(p)
      BY <1>3, <2>4, InsertFindingDoes DEF Inserting
    <2>5. CASE StoreIdentity(p)
      BY <1>3, <2>5, StoreIdentityDoes DEF Inserting
    <2>6. CASE \/ Begin(p) \/ LookForStale(p) \/ RemoveStale(p) \/ ReuseVector(p)
               \/ ComputeVector(p) \/ StoreVector(p) \/ Finish(p) \/ Break(p)
      BY <2>6 DEF Begin, LookForStale, RemoveStale, ReuseVector, ComputeVector, StoreVector, Finish, Break
    <2>7. QED
      BY <1>5, <2>1, <2>2, <2>3, <2>4, <2>5, <2>6 DEF Persist
  <1>6. ASSUME NEW s \in Clients, Use(s) PROVE files'[f].rows = files[f].rows
    <2>1. CASE OpenSession(s)
      BY <2>1, OpenSessionDoes
    <2>2. CASE ~OpenSession(s)
      BY <1>6, <2>2 DEF Use, FindIndex, Search, Fetch, Resolve, Leave
    <2>3. QED
      BY <2>1, <2>2
  <1>7. QED
    BY <1>2, <1>4, <1>5, <1>6 DEF Next, vars

\* What a session reads under an id is the comment its check has there.
LEMMA ReadingOfOneCheck ==
  ASSUME Sound, Files, NEW f \in 1..Len(files), NEW id \in Ids
  PROVE  LET a == Reading(f, id) IN
           /\ a.check \in 0..Len(begun)
           /\ Uncrossed(a.check) => a.comment \in {None, CommentsOf[begun[a.check].tree][id]}
           /\ Uncrossed(a.check) /\ id \in 1..Len(files[f].rows) =>
                a.comment = CommentsOf[begun[a.check].tree][id]
  <1> DEFINE c == IF id \in 1..Len(files[f].rows) THEN files[f].rows[id] ELSE None
  <1>1. PICK a : a = Reading(f, id)
    OBVIOUS
  <1>2. a = [comment |-> c, check |-> made[f]]
    BY <1>1 DEF Reading
  <1>3. a.comment = c /\ a.check = made[f]
    BY <1>2
  <1>4. made[f] \in 0..Len(begun)
    BY DEF Sound
  <1>5. ASSUME Uncrossed(made[f]), id \in 1..Len(files[f].rows)
        PROVE  files[f].rows[id] = CommentsOf[begun[made[f]].tree][id]
    BY <1>5 DEF Files, FileOfOneCheck, OfOneCheck
  <1>6. QED
    BY <1>1, <1>3, <1>4, <1>5

\* One client moves on.
LEMMA AskedClient ==
  ASSUME Sound, Sound', Asked, [Next]_vars, NEW s \in Clients, NEW a, ask' = [ask EXCEPT ![s] = a],
         AskedAt(a)'
  PROVE  Asked'
  <1>1. ASSUME NEW t \in Clients, t # s PROVE AskedAt(ask[t])'
    <2>1. ask[t] \in Ask /\ AskedAt(ask[t])
      BY DEF Sound, TypeOK, Asked
    <2>2. ask[t].pc = "fetch" => ask[t].file \in 1..Len(files)
      BY DEF Sound
    <2>3. PICK b \in Ask : b = ask[t]
      BY <2>1
    <2>4. b.pc = "fetch" => b.file \in 1..Len(files) /\ Extends(files'[b.file], files[b.file])
      BY <2>2, <2>3, FilesGrow
    <2>5. AskedAt(b)'
      BY <2>1, <2>3, <2>4, StaysEntered, AskedKept
    <2>6. ask'[t] = b
      BY <1>1, <2>3 DEF Sound, TypeOK
    <2>7. QED
      BY <2>5, <2>6
  <1>2. ask'[s] = a
    BY DEF Sound, TypeOK
  <1>3. QED
    BY <1>1, <1>2 DEF Asked

LEMMA AskedStep ==
  ASSUME Sound, Sound', RowsAligned, Files, Asked, [Next]_vars
  PROVE  Asked'
  <1>1. \A s \in Clients :
          /\ ask[s] \in Ask /\ AskedAt(ask[s])
          /\ ask[s].pc \in {"read", "fetch"} => ask[s].file \in 1..Len(files)
    BY DEF Sound, TypeOK, Asked
  <1>2. ASSUME ask' = ask PROVE Asked'
    <2>1. ASSUME NEW s \in Clients PROVE AskedAt(ask[s])'
      <3>1. PICK b \in Ask : b = ask[s]
        BY <1>1
      <3>2. b.pc = "fetch" => b.file \in 1..Len(files) /\ Extends(files'[b.file], files[b.file])
        BY <1>1, <3>1, FilesGrow
      <3>3. AskedAt(b)'
        BY <1>1, <3>1, <3>2, StaysEntered, AskedKept
      <3>4. QED
        BY <1>2, <3>1, <3>3
    <2>2. QED
      BY <2>1 DEF Asked
  <1>3. ASSUME NEW s \in Clients, FindIndex(s) PROVE Asked'
    <2>1. PICK a : a = [ask[s] EXCEPT !.pc = "open"]
      OBVIOUS
    <2>2. ask' = [ask EXCEPT ![s] = a] /\ ask[s].pc \in {"idle", "holds"} /\ UNCHANGED <<files, begun>>
      BY <1>1, <1>3, <2>1 DEF FindIndex, Sound, TypeOK
    <2>3. a.pc = "open" /\ a.hit = ask[s].hit /\ a.id = ask[s].id
      BY <1>1, <2>1 DEF Ask
    <2>4. AskedAt(a)'
      BY <1>1, <2>2, <2>3 DEF AskedAt, Uncrossed
    <2>5. QED
      BY <2>2, <2>4, AskedClient
  <1>4. ASSUME NEW s \in Clients, OpenSession(s) PROVE Asked'
    <2>1. PICK a : a = [ask[s] EXCEPT !.pc = "read", !.file = path']
      OBVIOUS
    <2>2. ask' = [ask EXCEPT ![s] = a] /\ begun' = begun
      BY <1>1, <1>4, <2>1 DEF OpenSession, Sound, TypeOK
    <2>3. path' \in Nat \cup {None}
      BY DEF Sound, TypeOK
    <2>4. a.pc = "read" /\ a.hit = ask[s].hit /\ a.id = ask[s].id
      BY <1>1, <2>1, <2>3 DEF Ask
    <2>5. AskedAt(a)'
      BY <1>1, <2>2, <2>4 DEF AskedAt, Uncrossed
    <2>6. QED
      BY <2>2, <2>5, AskedClient
  <1>5. ASSUME NEW s \in Clients, Search(s) PROVE Asked'
    <2>1. PICK e \in files[ask[s].file].fts \cup files[ask[s].file].vec :
            ask' = [ask EXCEPT ![s].pc = "fetch", ![s].id = e.id]
      BY <1>5 DEF Search
    <2>2. ask[s].file \in 1..Len(files) /\ ask[s].pc = "read" /\ ask[s].hit = None
          /\ UNCHANGED <<files, begun>>
      BY <1>1, <1>5 DEF Search
    <2>3. e.id \in 1..Len(files[ask[s].file].rows)
      BY <2>2 DEF RowsAligned
    <2>4. files[ask[s].file] \in IndexFile
      BY <2>2 DEF Sound, TypeOK
    <2>5. e.id \in Ids
      BY <2>4 DEF IndexFile
    <2>6. PICK id \in Ids : id = e.id
      BY <2>5
    <2>7. PICK a : a = [ask[s] EXCEPT !.pc = "fetch", !.id = id]
      OBVIOUS
    <2>8. ask' = [ask EXCEPT ![s] = a]
      BY <1>1, <2>1, <2>6, <2>7 DEF Sound, TypeOK
    <2>9. a.pc = "fetch" /\ a.hit = None /\ a.id = id /\ a.file = ask[s].file
      BY <1>1, <2>2, <2>7 DEF Ask
    <2>10. AskedAt(a)'
      BY <2>2, <2>3, <2>6, <2>9 DEF AskedAt
    <2>11. QED
      BY <2>8, <2>10, AskedClient
  <1>6. ASSUME NEW s \in Clients, Fetch(s) PROVE Asked'
    <2>1. PICK v : v = Reading(ask[s].file, ask[s].id)
      OBVIOUS
    <2>2. PICK a : a = [ask[s] EXCEPT !.pc = "holds", !.file = None, !.hit = v]
      OBVIOUS
    <2>3. ask' = [ask EXCEPT ![s] = a] /\ ask[s].pc = "fetch" /\ UNCHANGED <<files, begun>>
      BY <1>1, <1>6, <2>1, <2>2 DEF Fetch, Sound, TypeOK
    <2>4. a.pc = "holds" /\ a.id = ask[s].id /\ a.hit = v
      BY <1>1, <2>2 DEF Ask
    <2>5. ask[s].file \in 1..Len(files) /\ ask[s].id \in 1..Len(files[ask[s].file].rows) /\ ask[s].id \in Ids
      <3>1. ask[s].file \in 1..Len(files) /\ ask[s].id \in 1..Len(files[ask[s].file].rows)
        BY <1>1, <2>3 DEF AskedAt
      <3>2. ask[s].id \in Nat /\ ask[s].id > 0
        BY <3>1
      <3>3. QED
        BY <3>1, <3>2 DEF Ids
    <2>6. /\ v.check \in 0..Len(begun)
          /\ Uncrossed(v.check) => v.comment = CommentsOf[begun[v.check].tree][ask[s].id]
      BY <2>1, <2>5, ReadingOfOneCheck
    <2>7. AskedAt(a)'
      BY <2>3, <2>4, <2>5, <2>6 DEF AskedAt, Uncrossed
    <2>8. QED
      BY <2>3, <2>7, AskedClient
  <1>7. ASSUME NEW s \in Clients, Resolve(s) PROVE Asked'
    <2>1. PICK v : v = Reading(ask[s].file, ask[s].id)
      OBVIOUS
    <2>2. PICK a : a = [ask[s] EXCEPT !.pc = "answered", !.file = None, !.answer = v]
      OBVIOUS
    <2>3. ask' = [ask EXCEPT ![s] = a] /\ ask[s].pc = "read" /\ ask[s].hit # None /\ UNCHANGED <<files, begun>>
      BY <1>1, <1>7, <2>1, <2>2 DEF Resolve, Sound, TypeOK
    <2>4. a.pc = "answered" /\ a.id = ask[s].id /\ a.hit = ask[s].hit /\ a.answer = v
      BY <1>1, <2>2 DEF Ask
    <2>5. ask[s].file \in 1..Len(files) /\ ask[s].id \in Ids
      BY <1>1, <2>3 DEF AskedAt
    <2>6. /\ v.check \in 0..Len(begun)
          /\ Uncrossed(v.check) => v.comment \in {None, CommentsOf[begun[v.check].tree][ask[s].id]}
      BY <2>1, <2>5, ReadingOfOneCheck
    <2>7. AskedAt(a)'
      BY <1>1, <2>3, <2>4, <2>6 DEF AskedAt, Uncrossed
    <2>8. QED
      BY <2>3, <2>7, AskedClient
  <1>8. ASSUME NEW s \in Clients, Leave(s) PROVE Asked'
    <2>1. ask' = [ask EXCEPT ![s] = Nothing]
      BY <1>8 DEF Leave
    <2>2. Nothing.pc = "idle" /\ Nothing.hit = None
      BY DEF Nothing
    <2>3. AskedAt(Nothing)'
      BY <2>2 DEF AskedAt, Nothing
    <2>4. QED
      BY <2>1, <2>3, AskedClient
  <1>9. ASSUME NEW p \in Writers, Persist(p) PROVE ask' = ask
    BY <1>9 DEF Persist, Begin, LookForStale, RemoveStale, OpenIndex, InsertComment, IndexText,
       ReuseVector, ComputeVector, StoreVector, IndexVector, InsertFinding, StoreIdentity, Finish, Break
  <1>10. QED
    BY <1>2, <1>3, <1>4, <1>5, <1>6, <1>7, <1>8, <1>9 DEF Next, Use, vars

-----------------------------------------------------------------------------
(* What a check leaves when it has run to its end                           *)

\* Two comments of a list have two identities: the later of two that share
\* the base has more before it.
LEMMA IdentitiesDiffer ==
  ASSUME NEW cs \in Seq(Comments), NEW n \in 1..Len(cs), NEW m \in 1..Len(cs), n < m
  PROVE  Identity(cs, n) # Identity(cs, m)
  <1> DEFINE before(k) == {i \in 1..(k - 1) : cs[i].base = cs[k].base}
  <1>1. SUFFICES ASSUME cs[n].base = cs[m].base, Cardinality(before(n)) = Cardinality(before(m)) PROVE FALSE
    BY DEF Identity
  <1>2. before(n) \subseteq before(m)
    BY <1>1
  <1>3. n \in before(m) /\ n \notin before(n)
    BY <1>1
  <1>4. IsFiniteSet(before(m))
    <2>1. before(m) \subseteq 1..(m - 1) /\ IsFiniteSet(1..(m - 1))
      BY FS_Interval
    <2>2. QED
      BY <2>1, FS_Subset
  <1> HIDE DEF before
  <1>5. before(n) = before(m)
    BY <1>1, <1>2, <1>4, FS_Subset
  <1>6. QED
    BY <1>3, <1>5

\* A check that nobody crossed and that has inserted its last comment.
LEMMA ProgressIsWhole ==
  ASSUME NEW cs \in Seq(Comments), NEW f \in IndexFile, NEW r \in Run, Progress(f, cs, r),
         r.pc = "next", r.at >= Len(cs), \A i \in 1..Len(f.rows) : f.rows[i] = cs[i]
  PROVE  Whole(f, cs)
  <1>1. r.at = Len(cs) /\ Len(f.rows) = Len(cs) /\ Len(cs) \in Nat
    BY DEF Progress, Run
  <1>2. Texted(r) = r.at /\ Vectored(r) = r.at /\ Settled(r) = r.at
    BY DEF Texted, Vectored, Settled, Inserting
  <1>3. f.rows = cs
    <2>1. f.rows \in Seq(Comments)
      BY DEF IndexFile
    <2>2. QED
      BY <1>1, <2>1
  <1>4. \A e \in f.identity : e.id \in 1..Len(cs) /\ e.is = Identity(cs, e.id)
    BY <1>1, <1>2 DEF Progress
  <1>5. ASSUME NEW e \in f.identity, NEW g \in f.identity, e.is = g.is PROVE e.id = g.id
    <2>1. PICK n \in 1..Len(cs), m \in 1..Len(cs) : n = e.id /\ m = g.id
      BY <1>4
    <2>2. Identity(cs, n) = Identity(cs, m)
      BY <1>4, <1>5, <2>1
    <2>3. ~(n < m) /\ ~(m < n)
      BY <2>2, IdentitiesDiffer
    <2>4. QED
      BY <2>1, <2>3
  <1>6. QED
    BY <1>1, <1>2, <1>3, <1>5 DEF Progress, Whole

\* As long as a check is being written that nobody crossed, no check is the
\* whole and last one.
LEMMA NoneIsWhole ==
  ASSUME Sound, Checks, NEW p \in Writers, Active(p)
  PROVE  ~(begun[Len(begun)].whole /\ ~begun[Len(begun)].crossed)
  BY DEF Checks, Crossed

LEMMA WholeWhenDoneStep ==
  ASSUME Sound, Sound', Checks, Ours, Files, Building, WholeWhenDone, [Next]_vars
  PROVE  WholeWhenDone'
  <1>1. ASSUME NEW p \in Writers, Active(p), begun' = begun PROVE WholeWhenDone'
    BY <1>1, NoneIsWhole DEF WholeWhenDone
  <1>2. ASSUME NEW p \in Writers, Persist(p), ~Begin(p), ~Finish(p) PROVE WholeWhenDone'
    <2>1. Active(p)
      BY <1>2, GoesOn
    <2>2. begun' = begun
      BY <1>2 DEF Persist, LookForStale, RemoveStale, OpenIndex, InsertComment, IndexText,
         ReuseVector, ComputeVector, StoreVector, IndexVector, InsertFinding, StoreIdentity, Break
    <2>3. QED
      BY <1>1, <2>1, <2>2
  <1>3. ASSUME NEW p \in Writers, Begin(p) PROVE WholeWhenDone'
    BY <1>3, BeginDoes DEF WholeWhenDone
  <1>4. ASSUME NEW p \in Writers, Finish(p) PROVE WholeWhenDone'
    <2> DEFINE c == run[p].check
    <2>1. /\ run[p].pc = "next" /\ Active(p) /\ run[p].at >= Len(CommentsHeld(p)) /\ c \in 1..Len(begun)
          /\ Len(begun') = Len(begun)
          /\ \A d \in 1..Len(begun) :
               /\ begun'[d].tree = begun[d].tree /\ begun'[d].crossed = begun[d].crossed
               /\ d # c => begun'[d] = begun[d]
      BY <1>4, FinishDoes
    <2>2. path' = path /\ files' = files /\ Len(begun) \in 1..Len(begun)
      BY <1>4, <2>1 DEF Finish, Sound, TypeOK
    <2>3. CASE c # Len(begun)
      BY <2>1, <2>2, <2>3, NoneIsWhole DEF WholeWhenDone
    <2>4. CASE c = Len(begun)
      <3>1. ASSUME ~Crossed(c) PROVE path # None /\ Whole(files[path], CommentsOf[begun[c].tree])
        <4>1. run[p].pc \in Inserting \cup {"next"} /\ run[p] \in Run
          BY <2>1 DEF Sound, TypeOK
        <4>2. /\ run[p].file \in 1..Len(files) /\ File(p) \in IndexFile /\ CommentsHeld(p) \in Seq(Comments)
              /\ files[run[p].file] = File(p)
          BY <4>1, FileHeld
        <4>3. path = run[p].file /\ made[run[p].file] = c /\ begun[c].tree = run[p].tree
          BY <2>1, <3>1, <4>1 DEF Ours, OursAt, Checks
        <4>4. Progress(File(p), CommentsHeld(p), run[p])
          BY <3>1, <4>1 DEF Building, BuildingAt
        <4>5. \A i \in 1..Len(File(p).rows) : File(p).rows[i] = CommentsHeld(p)[i]
          <5>1. Uncrossed(made[run[p].file])
            BY <2>1, <3>1, <4>3 DEF Uncrossed, Crossed
          <5>2. OfOneCheck(files[run[p].file], CommentsOf[begun[c].tree], begun[c].model)
            BY <4>2, <4>3, <5>1 DEF Files, FileOfOneCheck
          <5>3. QED
            BY <4>2, <4>3, <5>2 DEF OfOneCheck, CommentsHeld
        <4>6. Whole(File(p), CommentsHeld(p))
          BY <2>1, <4>1, <4>2, <4>4, <4>5, ProgressIsWhole
        <4>7. path # None
          BY <4>2, <4>3, IndexAssumption
        <4>8. QED
          BY <4>2, <4>3, <4>6, <4>7 DEF CommentsHeld
      <3>2. QED
        BY <2>1, <2>2, <2>4, <3>1 DEF WholeWhenDone, Crossed
    <2>5. QED
      BY <2>3, <2>4
  <1>5. ASSUME NEW s \in Clients, OpenSession(s) PROVE WholeWhenDone'
    <2>1. begun' = begun
      BY <1>5 DEF OpenSession
    <2>2. path # None => path' = path /\ files' = files
      BY <1>5, OpenSessionDoes
    <2>3. QED
      BY <2>1, <2>2 DEF WholeWhenDone
  <1>6. ASSUME UNCHANGED <<path, files, begun>> PROVE WholeWhenDone'
    BY <1>6 DEF WholeWhenDone
  <1>7. ASSUME NEW s \in Clients, Use(s), ~OpenSession(s) PROVE UNCHANGED <<path, files, begun>>
    BY <1>7 DEF Use, FindIndex, Search, Fetch, Resolve, Leave
  <1>8. QED
    BY <1>2, <1>3, <1>4, <1>5, <1>6, <1>7 DEF Next, vars

-----------------------------------------------------------------------------
LEMMA OneBuildInit == Init => OneBuild
  <1> SUFFICES ASSUME Init PROVE OneBuild
    OBVIOUS
  <1>1. /\ \A p \in Writers : run[p].pc = "idle"
        /\ \A s \in Clients : ask[s] = Nothing
        /\ files = <<>> /\ begun = <<>> /\ cache = {}
    BY IdleHolds DEF Init
  <1>2. Len(files) = 0 /\ Len(begun) = 0
    BY <1>1
  <1>3. Checks /\ Ours /\ Files /\ Building
    BY <1>1, <1>2 DEF Checks, Ours, OursAt, Files, Building, BuildingAt, Active, Inserting
  <1>4. Nothing.pc = "idle" /\ Nothing.hit = None
    BY DEF Nothing
  <1>5. Asked
    BY <1>1, <1>4 DEF Asked, AskedAt
  <1>6. WholeWhenDone
    BY <1>2 DEF WholeWhenDone
  <1>7. QED
    BY <1>3, <1>5, <1>6 DEF OneBuild

LEMMA OneBuildStep == Sound /\ Sound' /\ RowsAligned /\ OneBuild /\ [Next]_vars => OneBuild'
  BY ChecksStep, OursStep, FilesStep, BuildingStep, AskedStep, WholeWhenDoneStep DEF OneBuild

LEMMA AlwaysOneBuild == Spec => []OneBuild
  BY OneBuildInit, OneBuildStep, AlwaysSound, RowsStayAligned, PTL DEF Spec

\* A check that ran to its end without another crossing it leaves the whole
\* index of its tree at the path: all the comments in order, each found by
\* both searches, with its findings in order and an identity of its own;
\* whatever was there before, whoever was killed, whichever session created
\* the file.
THEOREM FinishedCheckIsWhole == Spec => []WholeWhenDone
  <1>1. OneBuild => WholeWhenDone
    BY DEF OneBuild
  <1>2. QED
    BY <1>1, AlwaysOneBuild, PTL

\* The vectors in a file that one check wrote are of that check's model,
\* whatever other models left in the cache.
THEOREM OneModelPerFile == Spec => []VectorsOfOneModel
  <1>1. OneBuild => VectorsOfOneModel
    BY DEF OneBuild, Files, FileOfOneCheck, OfOneCheck, VectorsOfOneModel
  <1>2. QED
    BY <1>1, AlwaysOneBuild, PTL

\* An id that a query returned resolves in any later session to the same
\* comment or to none, across any number of checks of the same tree.
THEOREM IdsKeepTheirComments == Spec => []IdKeepsItsComment
  <1>1. OneBuild => IdKeepsItsComment
    BY DEF OneBuild, Asked, AskedAt, IdKeepsItsComment
  <1>2. QED
    BY <1>1, AlwaysOneBuild, PTL

-----------------------------------------------------------------------------
(* The index implements IndexView                                           *)

\* What is shown is of some tree.
LEMMA ShownTreeType == ASSUME Sound PROVE ShownTree \in Trees
  <1>1. Idle.tree \in Trees
    BY IdleIsARun DEF Run
  <1>2. ByOneCheck => made[path] \in 1..Len(begun)
    <2>1. path # None => made[path] \in 0..Len(begun) /\ Len(begun) \in Nat
      BY DEF Sound, TypeOK
    <2>2. QED
      BY <2>1 DEF ByOneCheck, Uncrossed
  <1>3. \A c \in 1..Len(begun) : begun[c].tree \in Trees
    BY BegunTrees
  <1>4. QED
    BY <1>1, <1>2, <1>3 DEF ShownTree

\* A file that stays at the path and in the hands of its check shows the rows
\* it has now.
LEMMA StaysShown ==
  ASSUME Sound, Entered, ByOneCheck', path' = path, made'[path] = made[path]
  PROVE  /\ ByOneCheck /\ ShownTree' = ShownTree
         /\ Shown = files[path].rows /\ Shown' = files'[path].rows
  <1>1. path # None
    BY DEF ByOneCheck
  <1>2. made[path] \in 0..Len(begun)
    BY <1>1 DEF Sound, TypeOK
  <1>3. PICK c \in 0..Len(begun) : c = made[path]
    BY <1>2
  <1>4. c > 0 /\ ~begun'[c].crossed
    BY <1>3 DEF ByOneCheck, Uncrossed
  <1>5. Uncrossed(c) /\ begun'[c].tree = begun[c].tree
    BY <1>4, UncrossedBefore DEF Uncrossed
  <1>6. ByOneCheck
    BY <1>1, <1>3, <1>5 DEF ByOneCheck
  <1>7. QED
    BY <1>3, <1>5, <1>6 DEF ShownTree, Shown

ViewStep == View!StartOver \/ View!Grow \/ (Shown' = Shown /\ ShownTree' = ShownTree)

\* A check opens the index with nothing in it, or was crossed.
LEMMA OpensEmpty ==
  ASSUME Sound, Checks, Ours, NEW p \in Writers, OpenIndex(p)
  PROVE  Shown' = <<>>
  <1>1. /\ run[p].pc = "open" /\ made'[path'] = run[p].check
        /\ \/ files'[path'] = EmptyFile
           \/ path # None /\ path' = path /\ files' = files
    BY OpenIndexDoes
  <1>2. begun' = begun /\ EmptyFile.rows = <<>>
    BY DEF OpenIndex, EmptyFile
  <1>3. ASSUME ByOneCheck' PROVE files'[path'].rows = <<>>
    <2>1. ~Crossed(run[p].check)
      BY <1>1, <1>2, <1>3 DEF ByOneCheck, Uncrossed, Crossed
    <2>2. path # None => path \in 1..Len(files)
      BY DEF Sound, TypeOK
    <2>3. path # None => files[path] = EmptyFile
      BY <1>1, <2>1, <2>2 DEF Ours, OursAt
    <2>4. QED
      BY <1>1, <1>2, <2>3
  <1>4. QED
    BY <1>3 DEF Shown

\* The check that made the index at the path adds its next comment to it;
\* what is added to another file is not shown.
LEMMA InsertsNext ==
  ASSUME Sound, Entered, Checks, Ours, Files, Building, NEW p \in Writers, InsertComment(p), ByOneCheck'
  PROVE  ViewStep
  <1>1. /\ run[p].pc = "next" /\ run'[p].at = run[p].at + 1 /\ run'[p].at \in 1..Len(CommentsHeld(p))
    BY InsertCommentDoes
  <1>2. PICK g \in IndexFile : Writes(p, g) /\ g.rows = Append(File(p).rows, CommentsHeld(p)[run'[p].at])
    BY InsertCommentDoes
  <1>3. path' = path /\ made' = made /\ begun' = begun
    BY DEF InsertComment
  <1>4. /\ ByOneCheck /\ ShownTree' = ShownTree
        /\ Shown = files[path].rows /\ Shown' = files'[path].rows
    BY <1>3, StaysShown
  <1>5. path \in 1..Len(files)
    BY <1>4 DEF ByOneCheck, Sound, TypeOK
  <1>6. CASE path # run[p].file
    BY <1>2, <1>4, <1>5, <1>6 DEF Writes, ViewStep
  <1>7. CASE path = run[p].file
    <2>1. Uncrossed(made[run[p].file])
      BY <1>4, <1>7 DEF ByOneCheck
    <2>2. made[run[p].file] = run[p].check /\ ~Crossed(run[p].check) /\ begun[run[p].check].tree = run[p].tree
      BY <1>1, <2>1, OwnFile
    <2>3. Progress(File(p), CommentsHeld(p), run[p])
      BY <1>1, <2>2 DEF Building, BuildingAt
    <2>4. Len(Shown) = run[p].at /\ Shown = File(p).rows
      BY <1>4, <1>7, <2>3 DEF Progress, File
    <2>5. CommentsHeld(p) = CommentsOf[ShownTree]
      BY <1>4, <1>7, <2>2 DEF ShownTree, CommentsHeld
    <2>6. run[p].at \in Nat /\ Len(CommentsHeld(p)) \in Nat
      BY <1>1, FileHeld DEF Run
    <2>7. Shown' = Append(Shown, CommentsOf[ShownTree][Len(Shown) + 1])
      BY <1>1, <1>2, <1>4, <1>7, <2>4, <2>5 DEF Writes
    <2>8. Len(Shown) < Len(CommentsOf[ShownTree])
      BY <1>1, <2>4, <2>5, <2>6
    <2>9. View!Grow
      BY <1>4, <2>7, <2>8 DEF View!Grow
    <2>10. QED
      BY <2>9 DEF ViewStep
  <1>8. QED
    BY <1>6, <1>7

\* A step that leaves the rows of every file and its check.
LEMMA RowsStay ==
  ASSUME Sound, Entered, ByOneCheck', path' = path, made' = made,
         \A f \in 1..Len(files) : files'[f].rows = files[f].rows
  PROVE  ViewStep
  <1>1. /\ ByOneCheck /\ ShownTree' = ShownTree
        /\ Shown = files[path].rows /\ Shown' = files'[path].rows
    BY StaysShown
  <1>2. path \in 1..Len(files)
    BY <1>1 DEF ByOneCheck, Sound, TypeOK
  <1>3. QED
    BY <1>1, <1>2 DEF ViewStep

\* The steps of a writer that insert no comment keep the rows.
LEMMA TablesKeepRows ==
  ASSUME Sound, NEW p \in Writers,
         IndexText(p) \/ IndexVector(p) \/ InsertFinding(p) \/ StoreIdentity(p)
  PROVE  \A f \in 1..Len(files) : files'[f].rows = files[f].rows
  <1>1. /\ run[p].pc \in Inserting \cup {"next"}
        /\ \E g \in IndexFile : Writes(p, g) /\ g.rows = File(p).rows
    BY IndexTextDoes, IndexVectorDoes, InsertFindingDoes, StoreIdentityDoes DEF Inserting
  <1>2. files[run[p].file] = File(p)
    BY <1>1, FileHeld
  <1>3. QED
    BY <1>1, <1>2 DEF Writes

LEMMA ViewOfStep ==
  ASSUME Sound, OneBuild, (ShownTree \in Trees)', [Next]_vars
  PROVE  ViewStep
  <1>1. Entered /\ Checks /\ Ours /\ Files /\ Building
    BY StaysEntered DEF OneBuild
  <1>2. Shown' = <<>> => ViewStep
    BY DEF ViewStep, View!StartOver
  <1>3. ~ByOneCheck' => Shown' = <<>>
    BY DEF Shown
  <1> SUFFICES ASSUME ByOneCheck' PROVE ViewStep
    BY <1>2, <1>3
  <1>4. ASSUME UNCHANGED <<path, files, made>> PROVE ViewStep
    BY <1>1, <1>4, RowsStay
  <1>5. ASSUME NEW p \in Writers, Persist(p) PROVE ViewStep
    <2>1. CASE InsertComment(p)
      BY <1>1, <2>1, InsertsNext
    <2>2. CASE OpenIndex(p)
      BY <1>1, <1>2, <2>2, OpensEmpty
    <2>3. CASE RemoveStale(p)
      BY <2>3, RemoveStaleDoes DEF ByOneCheck
    <2>4. CASE IndexText(p) \/ IndexVector(p) \/ InsertFinding(p) \/ StoreIdentity(p)
      <3>1. path' = path /\ made' = made
        BY <2>4 DEF IndexText, IndexVector, InsertFinding, StoreIdentity
      <3>2. QED
        BY <1>1, <2>4, <3>1, TablesKeepRows, RowsStay
    <2>5. CASE \/ Begin(p) \/ LookForStale(p) \/ ReuseVector(p) \/ ComputeVector(p)
               \/ StoreVector(p) \/ Finish(p) \/ Break(p)
      BY <1>4, <2>5 DEF Begin, LookForStale, ReuseVector, ComputeVector, StoreVector, Finish, Break
    <2>6. QED
      BY <1>5, <2>1, <2>2, <2>3, <2>4, <2>5 DEF Persist
  <1>6. ASSUME NEW s \in Clients, Use(s) PROVE ViewStep
    <2>1. CASE OpenSession(s)
      <3>1. \/ made'[path'] = 0
            \/ path' = path /\ files' = files /\ made' = made
        BY <2>1, OpenSessionDoes
      <3>2. made'[path'] # 0
        BY DEF ByOneCheck, Uncrossed
      <3>3. QED
        BY <1>4, <3>1, <3>2
    <2>2. CASE ~OpenSession(s)
      BY <1>4, <1>6, <2>2 DEF Use, FindIndex, Search, Fetch, Resolve, Leave
    <2>3. QED
      BY <2>1, <2>2
  <1>7. QED
    BY <1>4, <1>5, <1>6 DEF Next, vars

\* In an index that one check fills with no other persisting meanwhile,
\* whoever opens it finds that check's comments from the first one on, as far
\* as it has come, whichever checks failed or were killed and whenever
\* sessions opened the file: the index store implements IndexView.
THEOREM OneCheckImplemented == Spec => OneCheckShown
  <1>1. Init => View!Init
    <2>1. ASSUME Init PROVE Shown = <<>>
      BY <2>1 DEF Init, Shown, ByOneCheck
    <2>2. Init => ShownTree \in Trees
      BY SoundInit, ShownTreeType
    <2>3. QED
      BY <2>1, <2>2 DEF View!Init
  <1>2. Sound /\ OneBuild /\ (ShownTree \in Trees)' /\ [Next]_vars
          => [View!StartOver \/ View!Grow]_<<ShownTree, Shown>>
    BY ViewOfStep DEF ViewStep
  <1>3. Sound => ShownTree \in Trees
    BY ShownTreeType
  <1>4. QED
    BY <1>1, <1>2, <1>3, AlwaysSound, AlwaysOneBuild, PTL DEF Spec, View!Spec, OneCheckShown
=============================================================================
