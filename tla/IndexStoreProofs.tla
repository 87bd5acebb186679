-------------------------- MODULE IndexStoreProofs --------------------------
(***************************************************************************)
(* Proofs about IndexStore, for every set of writers and clients, every    *)
(* tree and any number of checks.                                          *)
(***************************************************************************)
EXTENDS IndexStore, FiniteSetTheorems, TLAPS

-----------------------------------------------------------------------------
(* The inductive invariant                                                  *)

Inserting == {"fts", "embed", "store", "vec", "findings"}

\* What a writer holds is of the file it writes and of the comment it is at.
Held(p) ==
  /\ run[p].pc # "idle" => run[p].check \in 1..Len(begun)
  /\ run[p].pc \in Inserting \cup {"next"} => run[p].file \in 1..Len(files)
  /\ run[p].pc \in Inserting =>
       /\ run[p].at \in 1..Len(CommentsHeld(p))
       /\ run[p].id \in 1..Len(File(p).rows)
       /\ File(p).rows[run[p].id] = Current(p)
  /\ run[p].pc \in {"store", "vec"} =>
       run[p].vector \in Vectors /\ run[p].vector.text = Current(p).text

Sound ==
  /\ TypeOK
  /\ \A p \in Writers : Held(p)
  /\ \A e \in cache : e.vector.text = e.text
  /\ \A f \in 1..Len(files) : made[f] \in 0..Len(begun)
  /\ \A s \in Clients : ask[s].pc \in {"read", "fetch"} => ask[s].file \in 1..Len(files)

-----------------------------------------------------------------------------
(* Helpers                                                                  *)

\* A sequence with one element replaced.
LEMMA ReplaceOne ==
  ASSUME NEW S, NEW q \in Seq(S), NEW k \in 1..Len(q), NEW v \in S
  PROVE  LET r == [q EXCEPT ![k] = v] IN
           /\ r \in Seq(S) /\ Len(r) = Len(q)
           /\ r[k] = v /\ \A i \in 1..Len(q) : i # k => r[i] = q[i]
  OBVIOUS

\* A sequence with one element more.
LEMMA OneMore ==
  ASSUME NEW S, NEW q \in Seq(S), NEW v \in S
  PROVE  LET r == Append(q, v) IN
           /\ r \in Seq(S) /\ Len(r) = Len(q) + 1
           /\ r[Len(q) + 1] = v /\ \A i \in 1..Len(q) : r[i] = q[i]
  OBVIOUS

\* The check a writer is at has a comment there, with text, base and findings.
LEMMA CurrentComment ==
  ASSUME TypeOK, NEW p \in Writers, run[p].at \in 1..Len(CommentsHeld(p))
  PROVE  /\ CommentsHeld(p) \in Seq(Comments)
         /\ Current(p) \in Comments /\ Current(p).text \in Texts /\ Current(p).base \in Bases
         /\ Current(p).findings \in Seq(Findings)
  <1>1. CommentsHeld(p) \in Seq(Comments)
    BY IndexAssumption DEF TypeOK, Run, CommentsHeld
  <1>2. Current(p) \in Comments
    BY <1>1 DEF Current
  <1>3. QED
    BY <1>1, <1>2, IndexAssumption DEF Texts, Bases

LEMMA IdleIsARun == Idle \in Run
  <1>1. (CHOOSE t \in Trees : TRUE) \in Trees /\ (CHOOSE m \in Models : TRUE) \in Models
    BY IndexAssumption
  <1>2. QED
    BY <1>1 DEF Idle, Run

\* The ordinal of a comment is a number.
LEMMA IdentityType ==
  ASSUME NEW cs \in Seq(Comments), NEW n \in 1..Len(cs)
  PROVE  Identity(cs, n) \in [base : Bases, ordinal : Nat]
  <1> DEFINE earlier == {i \in 1..(n - 1) : cs[i].base = cs[n].base}
  <1>1. IsFiniteSet(earlier) /\ Cardinality(earlier) \in Nat
    <2>1. IsFiniteSet(1..(n - 1)) /\ earlier \subseteq 1..(n - 1)
      BY FS_Interval
    <2>2. IsFiniteSet(earlier)
      BY <2>1, FS_Subset
    <2>3. QED
      BY <2>2, FS_CardinalityType
  <1>2. cs[n].base \in Bases
    BY DEF Bases
  <1>3. QED
    BY <1>1, <1>2 DEF Identity

-----------------------------------------------------------------------------
LEMMA SoundInit == Init => Sound
  <1> SUFFICES ASSUME Init PROVE Sound
    OBVIOUS
  <1>1. \A p \in Writers : run[p] = Idle /\ Held(p)
    BY DEF Init, Held, Idle, Inserting
  <1>2. run \in [Writers -> Run] /\ ask \in [Clients -> Ask]
    BY IdleIsARun DEF Init, Nothing, Ask
  <1>3. TypeOK
    BY <1>2 DEF Init, TypeOK
  <1>4. \A s \in Clients : ask[s].pc = "idle"
    BY DEF Init, Nothing
  <1>5. QED
    BY <1>1, <1>3, <1>4 DEF Sound, Init

(* Steps that leave the files, the checks begun and the clients alone: it is *)
(* enough to look at the writer that takes them.                             *)
LEMMA WriterStep ==
  ASSUME Sound, NEW p \in Writers, NEW r \in Run, run' = [run EXCEPT ![p] = r], Held(p)',
         UNCHANGED <<path, files, cache, ask, made, begun>>
  PROVE  Sound'
  <1>1. \A q \in Writers : q # p => run'[q] = run[q]
    BY DEF Sound, TypeOK
  <1>2. \A q \in Writers : q # p => Held(q)'
    BY <1>1 DEF Sound, Held, CommentsHeld, File, Current
  <1>3. TypeOK'
    BY DEF Sound, TypeOK
  <1>4. QED
    BY <1>2, <1>3 DEF Sound

LEMMA LookForStaleSound == ASSUME Sound, NEW p \in Writers, LookForStale(p) PROVE Sound'
  <1> DEFINE r == [run[p] EXCEPT !.pc = IF StaleBuild THEN "remove" ELSE "open"]
  <1>1. r \in Run /\ run' = [run EXCEPT ![p] = r]
    BY DEF LookForStale, Sound, TypeOK, Run
  <1>2. Held(p)'
    BY <1>1 DEF LookForStale, Sound, TypeOK, Held, Inserting, Run
  <1>3. QED
    BY <1>1, <1>2, WriterStep DEF LookForStale

LEMMA ReuseVectorSound == ASSUME Sound, NEW p \in Writers, ReuseVector(p) PROVE Sound'
  <1>1. PICK e \in Cached(Current(p).text, run[p].model) :
          run' = [run EXCEPT ![p].pc = "vec", ![p].vector = e.vector]
    BY DEF ReuseVector
  <1> DEFINE r == [run[p] EXCEPT !.pc = "vec", !.vector = e.vector]
  <1>2. e \in cache /\ e.vector \in Vectors /\ e.vector.text = Current(p).text
    BY DEF Cached, Sound, TypeOK
  <1>3. r \in Run /\ run' = [run EXCEPT ![p] = r]
    BY <1>1, <1>2 DEF Sound, TypeOK, Run
  <1>4. Held(p)'
    BY <1>2, <1>3 DEF ReuseVector, Sound, TypeOK, Held, Inserting, Run, CommentsHeld, File, Current
  <1>5. QED
    BY <1>3, <1>4, WriterStep DEF ReuseVector

LEMMA ComputeVectorSound == ASSUME Sound, NEW p \in Writers, ComputeVector(p) PROVE Sound'
  <1> DEFINE v == Embed(Current(p).text, run[p].model)
             r == [run[p] EXCEPT !.pc = "store", !.vector = v]
  <1>1. v \in Vectors /\ v.text = Current(p).text
    <2>1. Current(p).text \in Texts
      BY CurrentComment DEF ComputeVector, Sound, Held, Inserting
    <2>2. QED
      BY <2>1 DEF Embed, Vectors, Sound, TypeOK, Run
  <1>2. run' = [run EXCEPT ![p] = r]
    BY DEF ComputeVector, Sound, TypeOK, Run
  <1> HIDE DEF v
  <1>3. r \in Run
    BY <1>1 DEF Sound, TypeOK, Run
  <1>4. run[p] \in Run /\ run[p].pc = "embed" /\ Held(p)
    BY DEF ComputeVector, Sound, TypeOK
  <1>5. /\ r.pc = "store" /\ r.vector = v /\ r.tree = run[p].tree /\ r.check = run[p].check
        /\ r.file = run[p].file /\ r.at = run[p].at /\ r.id = run[p].id
    BY <1>4 DEF Run
  <1>6. run'[p] = r /\ files' = files /\ begun' = begun
    BY <1>2 DEF ComputeVector, Sound, TypeOK
  <1>7. Held(p)'
    BY <1>1, <1>4, <1>5, <1>6 DEF Held, Inserting, CommentsHeld, File, Current
  <1>8. QED
    BY <1>2, <1>3, <1>7, WriterStep DEF ComputeVector

LEMMA BreakSound == ASSUME Sound, NEW p \in Writers, Break(p) PROVE Sound'
  <1>1. run' = [run EXCEPT ![p] = Idle]
    BY DEF Break
  <1>2. Held(p)'
    BY <1>1 DEF Sound, TypeOK, Held, Inserting, Idle
  <1>3. QED
    BY <1>1, <1>2, IdleIsARun, WriterStep DEF Break

-----------------------------------------------------------------------------
(* Steps that write a file                                                  *)

\* A file keeps its rows, it may get more.
Extends(g, f) ==
  /\ Len(f.rows) <= Len(g.rows)
  /\ \A i \in 1..Len(f.rows) : g.rows[i] = f.rows[i]

\* Whatever a writer holds it still holds when files only grow.
LEMMA StillHeld ==
  ASSUME Sound, TypeOK', NEW q \in Writers, run'[q] = run[q],
         Len(files) <= Len(files'), \A f \in 1..Len(files) : Extends(files'[f], files[f]),
         Len(begun) <= Len(begun')
  PROVE  Held(q)'
  <1>1. Held(q) /\ run[q] \in Run
    BY DEF Sound, TypeOK
  <1>2. Len(files) \in Nat /\ Len(files') \in Nat /\ Len(begun) \in Nat /\ Len(begun') \in Nat
    BY DEF Sound, TypeOK
  <1>3. CommentsHeld(q)' = CommentsHeld(q) /\ Current(q)' = Current(q)
    BY DEF CommentsHeld, Current
  <1>4. ASSUME run[q].pc \in Inserting \cup {"next"}
        PROVE  run[q].file \in 1..Len(files) /\ Extends(File(q)', File(q))
    BY <1>1, <1>4 DEF Held, File
  <1>5. ASSUME run[q].pc \in Inserting
        PROVE  /\ run[q].id \in 1..Len(File(q)'.rows)
               /\ File(q)'.rows[run[q].id] = Current(q)
    <2>1. run[q].id \in 1..Len(File(q).rows) /\ File(q).rows[run[q].id] = Current(q)
      BY <1>1, <1>5 DEF Held
    <2>2. File(q) \in IndexFile /\ File(q)' \in IndexFile
      BY <1>2, <1>4, <1>5 DEF File, Sound, TypeOK
    <2>3. Len(File(q).rows) \in Nat /\ Len(File(q)'.rows) \in Nat
      BY <2>2 DEF IndexFile
    <2>4. QED
      BY <1>4, <1>5, <2>1, <2>3 DEF Extends
  <1>6. QED
    BY <1>1, <1>2, <1>3, <1>4, <1>5 DEF Held

\* A writer puts the file g in the place of the one it writes.
LEMMA FileStep ==
  ASSUME Sound, NEW p \in Writers, run[p].file \in 1..Len(files),
         NEW g \in IndexFile, files' = [files EXCEPT ![run[p].file] = g], Extends(g, File(p)),
         NEW r \in Run, run' = [run EXCEPT ![p] = r], Held(p)',
         UNCHANGED <<path, cache, ask, made, begun>>
  PROVE  Sound'
  <1> DEFINE k == run[p].file
  <1>1. files \in Seq(IndexFile) /\ k \in 1..Len(files)
    BY DEF Sound, TypeOK
  <1>2. /\ files' \in Seq(IndexFile) /\ Len(files') = Len(files)
        /\ files'[k] = g /\ \A f \in 1..Len(files) : f # k => files'[f] = files[f]
    BY <1>1, ReplaceOne
  <1>3. \A f \in 1..Len(files) : Extends(files'[f], files[f])
    <2> SUFFICES ASSUME NEW f \in 1..Len(files) PROVE Extends(files'[f], files[f])
      OBVIOUS
    <2>1. CASE f = k
      BY <1>2, <2>1 DEF File
    <2>2. CASE f # k
      <3>1. Len(files[f].rows) \in Nat
        BY <1>1 DEF IndexFile
      <3>2. QED
        BY <1>2, <2>2, <3>1 DEF Extends
    <2>3. QED
      BY <2>1, <2>2
  <1>4. TypeOK'
    BY <1>2 DEF Sound, TypeOK
  <1>5. \A q \in Writers : q # p => run'[q] = run[q]
    BY DEF Sound, TypeOK
  <1>6. Len(files) \in Nat /\ Len(begun) \in Nat
    BY DEF Sound, TypeOK
  <1>7. \A q \in Writers : q # p => Held(q)'
    BY <1>2, <1>3, <1>4, <1>5, <1>6, StillHeld
  <1>8. QED
    BY <1>2, <1>4, <1>7 DEF Sound

LEMMA InsertCommentSound == ASSUME Sound, NEW p \in Writers, InsertComment(p) PROVE Sound'
  <1>1. PICK n \in Upcoming(p) :
          /\ files' = [files EXCEPT ![run[p].file].rows = Append(@, CommentsHeld(p)[n])]
          /\ run' = [run EXCEPT ![p].pc = "fts", ![p].at = n, ![p].filed = 0,
                                ![p].id = Len(File(p).rows) + 1]
    BY DEF InsertComment
  <1> DEFINE c == CommentsHeld(p)[n]
             id == Len(File(p).rows) + 1
             rows == Append(File(p).rows, c)
             g == [File(p) EXCEPT !.rows = rows]
             r == [run[p] EXCEPT !.pc = "fts", !.at = n, !.filed = 0, !.id = id]
  <1>2. run[p] \in Run /\ run[p].pc = "next" /\ run[p].file \in 1..Len(files)
    BY DEF InsertComment, Sound, TypeOK, Held
  <1>3. File(p) \in IndexFile /\ File(p).rows \in Seq(Comments) /\ id \in Nat
    <2>1. File(p) \in IndexFile
      BY <1>2 DEF Sound, TypeOK, File
    <2>2. QED
      BY <2>1 DEF IndexFile
  <1>4. n \in 1..Len(CommentsHeld(p)) /\ CommentsHeld(p) \in Seq(Comments) /\ c \in Comments
    BY <1>2, IndexAssumption DEF Upcoming, CommentsHeld, Run
  <1>5. files' = [files EXCEPT ![run[p].file] = g] /\ run' = [run EXCEPT ![p] = r]
    BY <1>1, <1>2 DEF File, Sound, TypeOK
  <1> HIDE DEF c, id
  <1>6. g \in IndexFile /\ g.rows = Append(File(p).rows, c)
    <2>1. rows \in Seq(Comments)
      BY <1>3, <1>4
    <2> HIDE DEF rows
    <2>2. g \in IndexFile /\ g.rows = rows
      BY <1>3, <2>1 DEF IndexFile
    <2>3. QED
      BY <2>2 DEF rows
  <1>7. /\ r \in Run /\ r.pc = "fts" /\ r.at = n /\ r.id = id
        /\ r.tree = run[p].tree /\ r.check = run[p].check /\ r.file = run[p].file
    <2>1. n \in Nat
      BY <1>4
    <2>2. QED
      BY <1>2, <1>3, <2>1 DEF Run
  <1>8. run'[p] = r /\ files'[run[p].file] = g
    BY <1>2, <1>5 DEF Sound, TypeOK
  <1> HIDE DEF g, r
  <1>9. Len(g.rows) = Len(File(p).rows) + 1 /\ Len(File(p).rows) \in Nat
    BY <1>3, <1>4, <1>6, OneMore
  <1>10. g.rows[Len(File(p).rows) + 1] = c /\ \A i \in 1..Len(File(p).rows) : g.rows[i] = File(p).rows[i]
    BY <1>3, <1>4, <1>6, OneMore
  <1>11. Extends(g, File(p))
    BY <1>9, <1>10 DEF Extends
  <1>12. Len(files') = Len(files)
    BY <1>2, <1>5, <1>6, ReplaceOne DEF Sound, TypeOK
  <1>13. Held(p)'
    <2>1. CommentsHeld(p)' = CommentsHeld(p) /\ Current(p)' = c /\ File(p)' = g
      BY <1>7, <1>8 DEF CommentsHeld, Current, File, c
    <2>2. run[p].check \in 1..Len(begun) /\ begun' = begun
      BY <1>2 DEF Sound, Held, InsertComment
    <2>3. QED
      BY <1>2, <1>4, <1>7, <1>8, <1>9, <1>10, <1>12, <2>1, <2>2 DEF Held, Inserting, id
  <1>14. QED
    BY <1>2, <1>5, <1>6, <1>7, <1>11, <1>13, FileStep DEF InsertComment

\* The steps after the insertion of a comment write other tables only.
LEMMA TableStep ==
  ASSUME Sound, NEW p \in Writers, run[p].pc \in Inserting,
         NEW g \in IndexFile, files' = [files EXCEPT ![run[p].file] = g], g.rows = File(p).rows,
         NEW r \in Run, run' = [run EXCEPT ![p] = r],
         r.pc \in {"embed", "findings", "next"},
         r.tree = run[p].tree, r.check = run[p].check, r.file = run[p].file,
         r.at = run[p].at, r.id = run[p].id,
         UNCHANGED <<path, cache, ask, made, begun>>
  PROVE  Sound'
  <1>1. Held(p) /\ run[p].file \in 1..Len(files)
    BY DEF Sound, Held
  <1>2. File(p) \in IndexFile
    BY <1>1 DEF File, Sound, TypeOK
  <1>3. Extends(g, File(p))
    BY <1>2 DEF Extends, IndexFile
  <1>4. run'[p] = r /\ files'[run[p].file] = g /\ Len(files') = Len(files)
    BY <1>1, ReplaceOne DEF Sound, TypeOK
  <1>5. CommentsHeld(p)' = CommentsHeld(p) /\ Current(p)' = Current(p) /\ File(p)' = g
    BY <1>4 DEF CommentsHeld, Current, File
  <1>6. Held(p)'
    BY <1>1, <1>4, <1>5 DEF Held, Inserting
  <1>7. QED
    BY <1>1, <1>3, <1>6, FileStep

LEMMA IndexTextSound == ASSUME Sound, NEW p \in Writers, IndexText(p) PROVE Sound'
  <1> DEFINE fts == File(p).fts \cup {[id |-> RowId(p), text |-> Current(p).text]}
             g == [File(p) EXCEPT !.fts = fts]
             r == [run[p] EXCEPT !.pc = "embed"]
  <1>1. run[p] \in Run /\ run[p].pc = "fts" /\ Held(p) /\ run[p].file \in 1..Len(files)
    BY DEF IndexText, Sound, TypeOK, Held, Inserting
  <1>2. File(p) \in IndexFile
    BY <1>1 DEF File, Sound, TypeOK
  <1>3. RowId(p) \in Ids /\ Current(p).text \in Texts
    BY <1>1, CurrentComment DEF Sound, Held, Inserting, RowId, Ids
  <1>4. fts \in SUBSET [id : Ids, text : Texts]
    BY <1>2, <1>3 DEF IndexFile
  <1>5. files' = [files EXCEPT ![run[p].file] = g] /\ run' = [run EXCEPT ![p] = r]
    BY <1>1 DEF IndexText, File, Sound, TypeOK
  <1> HIDE DEF fts
  <1>6. g \in IndexFile /\ g.rows = File(p).rows
    BY <1>2, <1>4 DEF IndexFile
  <1>7. /\ r \in Run /\ r.pc = "embed" /\ r.tree = run[p].tree /\ r.check = run[p].check
        /\ r.file = run[p].file /\ r.at = run[p].at /\ r.id = run[p].id
    BY <1>1 DEF Run
  <1> HIDE DEF g, r
  <1>8. QED
    BY <1>1, <1>5, <1>6, <1>7, TableStep DEF IndexText, Inserting

LEMMA IndexVectorSound == ASSUME Sound, NEW p \in Writers, IndexVector(p) PROVE Sound'
  <1> DEFINE vec == File(p).vec \cup {[id |-> RowId(p), vector |-> run[p].vector]}
             g == [File(p) EXCEPT !.vec = vec]
             r == [run[p] EXCEPT !.pc = "findings"]
  <1>1. run[p] \in Run /\ run[p].pc = "vec" /\ Held(p) /\ run[p].file \in 1..Len(files)
    BY DEF IndexVector, Sound, TypeOK, Held, Inserting
  <1>2. File(p) \in IndexFile
    BY <1>1 DEF File, Sound, TypeOK
  <1>3. RowId(p) \in Ids /\ run[p].vector \in Vectors
    BY <1>1 DEF Held, Inserting, RowId, Ids
  <1>4. vec \in SUBSET [id : Ids, vector : Vectors]
    BY <1>2, <1>3 DEF IndexFile
  <1>5. files' = [files EXCEPT ![run[p].file] = g] /\ run' = [run EXCEPT ![p] = r]
    BY <1>1 DEF IndexVector, File, Sound, TypeOK
  <1> HIDE DEF vec
  <1>6. g \in IndexFile /\ g.rows = File(p).rows
    BY <1>2, <1>4 DEF IndexFile
  <1>7. /\ r \in Run /\ r.pc = "findings" /\ r.tree = run[p].tree /\ r.check = run[p].check
        /\ r.file = run[p].file /\ r.at = run[p].at /\ r.id = run[p].id
    BY <1>1 DEF Run
  <1> HIDE DEF g, r
  <1>8. QED
    BY <1>1, <1>5, <1>6, <1>7, TableStep DEF IndexVector, Inserting

LEMMA InsertFindingSound == ASSUME Sound, NEW p \in Writers, InsertFinding(p) PROVE Sound'
  <1> DEFINE one == [id |-> RowId(p), finding |-> Current(p).findings[run[p].filed + 1]]
             found == Append(File(p).findings, one)
             g == [File(p) EXCEPT !.findings = found]
             r == [run[p] EXCEPT !.filed = @ + 1]
  <1>1. run[p] \in Run /\ run[p].pc = "findings" /\ Held(p) /\ run[p].file \in 1..Len(files)
    BY DEF InsertFinding, Sound, TypeOK, Held, Inserting
  <1>2. File(p) \in IndexFile
    BY <1>1 DEF File, Sound, TypeOK
  <1>3. Current(p).findings \in Seq(Findings)
    BY <1>1, CurrentComment DEF Sound, Held, Inserting
  <1>4. RowId(p) \in Ids /\ Current(p).findings[run[p].filed + 1] \in Findings
    BY <1>1, <1>3 DEF InsertFinding, Held, Inserting, RowId, Ids, Run
  <1>5. one \in [id : Ids, finding : Findings]
    BY <1>4
  <1>6. files' = [files EXCEPT ![run[p].file] = g] /\ run' = [run EXCEPT ![p] = r]
    BY <1>1 DEF InsertFinding, File, Sound, TypeOK
  <1> HIDE DEF one
  <1>7. found \in Seq([id : Ids, finding : Findings])
    BY <1>2, <1>5 DEF IndexFile
  <1> HIDE DEF found
  <1>8. g \in IndexFile /\ g.rows = File(p).rows
    BY <1>2, <1>7 DEF IndexFile
  <1>9. /\ r \in Run /\ r.pc = "findings" /\ r.tree = run[p].tree /\ r.check = run[p].check
        /\ r.file = run[p].file /\ r.at = run[p].at /\ r.id = run[p].id
    BY <1>1 DEF Run
  <1> HIDE DEF g, r
  <1>10. QED
    BY <1>1, <1>6, <1>8, <1>9, TableStep DEF InsertFinding, Inserting

LEMMA StoreIdentitySound == ASSUME Sound, NEW p \in Writers, StoreIdentity(p) PROVE Sound'
  <1> DEFINE is == Identity(CommentsHeld(p), run[p].at)
             ident == WithIdentity(File(p).identity, RowId(p), is)
             g == [File(p) EXCEPT !.identity = ident]
             r == [run[p] EXCEPT !.pc = "next"]
  <1>1. run[p] \in Run /\ run[p].pc = "findings" /\ Held(p) /\ run[p].file \in 1..Len(files)
    BY DEF StoreIdentity, Sound, TypeOK, Held, Inserting
  <1>2. File(p) \in IndexFile
    BY <1>1 DEF File, Sound, TypeOK
  <1>3. CommentsHeld(p) \in Seq(Comments) /\ run[p].at \in 1..Len(CommentsHeld(p))
    BY <1>1, CurrentComment DEF Sound, Held, Inserting
  <1>4. RowId(p) \in Ids /\ is \in [base : Bases, ordinal : Nat]
    BY <1>1, <1>3, IdentityType DEF Held, Inserting, RowId, Ids
  <1>5. files' = [files EXCEPT ![run[p].file] = g] /\ run' = [run EXCEPT ![p] = r]
    BY <1>1 DEF StoreIdentity, File, Sound, TypeOK
  <1> HIDE DEF is
  <1>6. ident \in SUBSET [id : Ids, is : [base : Bases, ordinal : Nat]]
    BY <1>2, <1>4 DEF IndexFile, WithIdentity
  <1> HIDE DEF ident
  <1>7. g \in IndexFile /\ g.rows = File(p).rows
    BY <1>2, <1>6 DEF IndexFile
  <1>8. /\ r \in Run /\ r.pc = "next" /\ r.tree = run[p].tree /\ r.check = run[p].check
        /\ r.file = run[p].file /\ r.at = run[p].at /\ r.id = run[p].id
    BY <1>1 DEF Run
  <1> HIDE DEF g, r
  <1>9. QED
    BY <1>1, <1>5, <1>7, <1>8, TableStep DEF StoreIdentity, Inserting

-----------------------------------------------------------------------------
(* The other steps of a writer                                              *)

LEMMA StoreVectorSound == ASSUME Sound, NEW p \in Writers, StoreVector(p) PROVE Sound'
  <1> DEFINE e == [text |-> Current(p).text, model |-> run[p].model, vector |-> run[p].vector]
             r == [run[p] EXCEPT !.pc = "vec"]
  <1>1. run[p] \in Run /\ run[p].pc = "store" /\ Held(p)
    BY DEF StoreVector, Sound, TypeOK
  <1>2. Current(p).text \in Texts /\ run[p].vector \in Vectors /\ run[p].vector.text = Current(p).text
    BY <1>1, CurrentComment DEF Sound, Held, Inserting
  <1>3. e \in [text : Texts, model : Models, vector : Vectors] /\ e.vector.text = e.text
    BY <1>1, <1>2 DEF Run
  <1>4. cache' \subseteq cache \cup {e}
    BY DEF StoreVector
  <1> HIDE DEF e
  <1>5. /\ cache' \subseteq [text : Texts, model : Models, vector : Vectors]
        /\ \A d \in cache' : d.vector.text = d.text
    BY <1>3, <1>4 DEF Sound, TypeOK
  <1>6. run' = [run EXCEPT ![p] = r]
    BY DEF StoreVector, Sound, TypeOK
  <1>7. /\ r \in Run /\ r.pc = "vec" /\ r.tree = run[p].tree /\ r.check = run[p].check
        /\ r.file = run[p].file /\ r.at = run[p].at /\ r.id = run[p].id /\ r.vector = run[p].vector
    BY <1>1 DEF Run
  <1> HIDE DEF r
  <1>8. run'[p] = r /\ \A q \in Writers : q # p => run'[q] = run[q]
    BY <1>6 DEF Sound, TypeOK
  <1>9. Held(p)'
    BY <1>1, <1>2, <1>7, <1>8 DEF StoreVector, Held, Inserting, CommentsHeld, File, Current
  <1>10. \A q \in Writers : q # p => Held(q)'
    BY <1>8 DEF StoreVector, Sound, Held, CommentsHeld, File, Current
  <1>11. TypeOK'
    BY <1>5, <1>6, <1>7 DEF StoreVector, Sound, TypeOK
  <1>12. QED
    BY <1>5, <1>9, <1>10, <1>11 DEF StoreVector, Sound

LEMMA BeginSound == ASSUME Sound, NEW p \in Writers, Begin(p) PROVE Sound'
  <1>1. PICK t \in Trees, m \in Models :
          /\ run' = [run EXCEPT ![p] = [Idle EXCEPT !.pc = "exists", !.tree = t, !.model = m,
                                                    !.check = Len(begun) + 1]]
          /\ begun' = Append([c \in 1..Len(begun) |->
                                [begun[c] EXCEPT !.crossed = @ \/ \E q \in Writers : run[q].check = c]],
                             [tree |-> t, model |-> m, whole |-> FALSE,
                              crossed |-> \E q \in Writers : Active(q)])
    BY DEF Begin
  <1> DEFINE Check == [tree : Trees, model : Models, whole : BOOLEAN, crossed : BOOLEAN]
             old == [c \in 1..Len(begun) |->
                       [begun[c] EXCEPT !.crossed = @ \/ \E q \in Writers : run[q].check = c]]
             one == [tree |-> t, model |-> m, whole |-> FALSE, crossed |-> \E q \in Writers : Active(q)]
             r == [Idle EXCEPT !.pc = "exists", !.tree = t, !.model = m, !.check = Len(begun) + 1]
  <1>2. begun \in Seq(Check) /\ Len(begun) \in Nat
    BY DEF Sound, TypeOK
  <1>3. old \in Seq(Check) /\ Len(old) = Len(begun)
    <2>1. ASSUME NEW c \in 1..Len(begun) PROVE old[c] \in Check
      <3> DEFINE x == \E q \in Writers : run[q].check = c
      <3>1. begun[c] \in Check
        <4> HIDE DEF Check
        <4>1. QED
          BY <1>2
      <3>2. [begun[c] EXCEPT !.crossed = @ \/ x] \in Check
        <4> HIDE DEF x
        <4>1. QED
          BY <3>1
      <3>3. QED
        BY <3>2
    <2>2. QED
      BY <1>2, <2>1
  <1>4. one \in Check
    OBVIOUS
  <1>5. begun' = Append(old, one)
    BY <1>1
  <1> HIDE DEF old, one
  <1>6. begun' \in Seq(Check) /\ Len(begun') = Len(begun) + 1
    BY <1>3, <1>4, <1>5
  <1>7. r \in Run /\ r.pc = "exists" /\ r.check = Len(begun) + 1
    <2> DEFINE n == Len(begun) + 1
    <2>1. n \in Nat
      BY <1>2
    <2> HIDE DEF n
    <2>2. [Idle EXCEPT !.pc = "exists", !.tree = t, !.model = m, !.check = n] \in Run
      BY <2>1, IdleIsARun DEF Run
    <2>3. [Idle EXCEPT !.pc = "exists", !.tree = t, !.model = m, !.check = n].pc = "exists"
          /\ [Idle EXCEPT !.pc = "exists", !.tree = t, !.model = m, !.check = n].check = n
      BY <2>1, IdleIsARun DEF Run
    <2>4. QED
      BY <2>2, <2>3 DEF n
  <1>8. run' = [run EXCEPT ![p] = r]
    BY <1>1
  <1> HIDE DEF r
  <1>9. run'[p] = r /\ \A q \in Writers : q # p => run'[q] = run[q]
    BY <1>8 DEF Sound, TypeOK
  <1>10. TypeOK'
    BY <1>6, <1>7, <1>8 DEF Begin, Sound, TypeOK
  <1>11. Held(p)'
    BY <1>2, <1>6, <1>7, <1>9 DEF Held, Inserting
  <1>12. \A q \in Writers : q # p => Held(q)'
    BY <1>2, <1>6, <1>9 DEF Begin, Sound, Held, CommentsHeld, File, Current
  <1>13. \A f \in 1..Len(files) : made[f] \in 0..Len(begun')
    BY <1>2, <1>6 DEF Sound
  <1>14. QED
    BY <1>10, <1>11, <1>12, <1>13 DEF Begin, Sound

LEMMA RemoveStaleSound == ASSUME Sound, NEW p \in Writers, RemoveStale(p) PROVE Sound'
  <1> DEFINE r == IF path = None THEN Idle ELSE [run[p] EXCEPT !.pc = "open"]
  <1>1. run[p] \in Run /\ run[p].pc = "remove" /\ Held(p)
    BY DEF RemoveStale, Sound, TypeOK
  <1>2. run' = [run EXCEPT ![p] = r]
    BY <1>1 DEF RemoveStale, Sound, TypeOK
  <1>3. r \in Run /\ r.pc \in {"idle", "open"} /\ (r.pc # "idle" => r.check = run[p].check)
    <2>1. Idle.pc = "idle"
      BY DEF Idle
    <2>2. QED
      BY <1>1, <2>1, IdleIsARun DEF Run
  <1> HIDE DEF r
  <1>4. run'[p] = r /\ \A q \in Writers : q # p => run'[q] = run[q]
    BY <1>2 DEF Sound, TypeOK
  <1>5. TypeOK'
    BY <1>2, <1>3 DEF RemoveStale, Sound, TypeOK
  <1>6. Held(p)'
    BY <1>1, <1>3, <1>4 DEF RemoveStale, Held, Inserting
  <1>7. \A q \in Writers : q # p => Held(q)'
    BY <1>4 DEF RemoveStale, Sound, Held, CommentsHeld, File, Current
  <1>8. QED
    BY <1>5, <1>6, <1>7 DEF RemoveStale, Sound

\* Opening the path, for a check or for a session: every file is still there
\* and the path names one.
LEMMA Opened ==
  ASSUME Sound,
         files' = IF path = None THEN Append(files, EmptyFile) ELSE files,
         path' = IF path = None THEN Len(files) + 1 ELSE path
  PROVE  /\ files' \in Seq(IndexFile) /\ Len(files) <= Len(files')
         /\ path' \in 1..Len(files')
         /\ Len(files') = IF path = None THEN Len(files) + 1 ELSE Len(files)
         /\ \A f \in 1..Len(files) : files'[f] = files[f]
         /\ \A f \in 1..Len(files) : Extends(files'[f], files[f])
  <1>1. files \in Seq(IndexFile) /\ Len(files) \in Nat /\ path \in 1..Len(files) \cup {None}
    BY DEF Sound, TypeOK
  <1>2. EmptyFile \in IndexFile
    BY DEF EmptyFile, IndexFile
  <1>3. CASE path = None
    BY <1>1, <1>2, <1>3, OneMore DEF Extends, IndexFile
  <1>4. CASE path # None
    BY <1>1, <1>4 DEF Extends, IndexFile
  <1>5. QED
    BY <1>3, <1>4

LEMMA OpenIndexSound == ASSUME Sound, NEW p \in Writers, OpenIndex(p) PROVE Sound'
  <1> DEFINE r == [run[p] EXCEPT !.pc = "next", !.file = path']
             n == run[p].check
  <1>1. /\ files' \in Seq(IndexFile) /\ Len(files) <= Len(files') /\ path' \in 1..Len(files')
        /\ Len(files') = IF path = None THEN Len(files) + 1 ELSE Len(files)
        /\ \A f \in 1..Len(files) : Extends(files'[f], files[f])
    BY Opened DEF OpenIndex
  <1>2. run[p] \in Run /\ run[p].pc = "open" /\ Held(p) /\ n \in 1..Len(begun)
    BY DEF OpenIndex, Sound, TypeOK, Held
  <1>3. run' = [run EXCEPT ![p] = r]
    BY <1>2 DEF OpenIndex, Sound, TypeOK
  <1>4. path' \in Nat
    BY <1>1
  <1>5. r \in Run /\ r.pc = "next" /\ r.check = n /\ r.file = path'
    BY <1>2, <1>4 DEF Run
  <1> HIDE DEF r
  <1>6. run'[p] = r /\ \A q \in Writers : q # p => run'[q] = run[q]
    BY <1>3 DEF Sound, TypeOK
  <1>7. /\ made' \in Seq(Nat) /\ Len(made') = Len(files')
        /\ \A f \in 1..Len(files') : made'[f] \in 0..Len(begun)
    <2>1. made \in Seq(Nat) /\ Len(made) = Len(files) /\ n \in Nat /\ Len(files) \in Nat
          /\ \A f \in 1..Len(files) : made[f] \in 0..Len(begun)
      BY <1>2 DEF Sound, TypeOK
    <2>2. CASE path = None
      <3>1. made' = Append(made, n)
        BY <2>2 DEF OpenIndex
      <3>2. QED
        BY <1>1, <1>2, <2>1, <2>2, <3>1, OneMore
    <2>3. CASE path # None
      <3>1. made' = [made EXCEPT ![path] = n] /\ path \in 1..Len(made)
        BY <2>1, <2>3 DEF OpenIndex, Sound, TypeOK
      <3>2. QED
        BY <1>1, <1>2, <2>1, <2>3, <3>1, ReplaceOne
    <2>4. QED
      BY <2>2, <2>3
  <1>8. TypeOK'
    BY <1>1, <1>3, <1>5, <1>7 DEF OpenIndex, Sound, TypeOK
  <1>9. begun' = begun /\ Len(begun) \in Nat
    BY DEF OpenIndex, Sound, TypeOK
  <1>10. Held(p)'
    BY <1>1, <1>2, <1>5, <1>6, <1>9 DEF Held, Inserting
  <1>11. \A q \in Writers : q # p => Held(q)'
    BY <1>1, <1>6, <1>8, <1>9, StillHeld
  <1>12. QED
    BY <1>1, <1>7, <1>8, <1>9, <1>10, <1>11 DEF OpenIndex, Sound, TypeOK

LEMMA FinishSound == ASSUME Sound, NEW p \in Writers, Finish(p) PROVE Sound'
  <1> DEFINE Check == [tree : Trees, model : Models, whole : BOOLEAN, crossed : BOOLEAN]
             n == run[p].check
             one == [begun[n] EXCEPT !.whole = TRUE]
  <1>1. run' = [run EXCEPT ![p] = Idle] /\ n \in 1..Len(begun) /\ Held(p)
    BY DEF Finish, Sound, Held
  <1>2. begun \in Seq(Check)
    BY DEF Sound, TypeOK
  <1>3. begun' = [begun EXCEPT ![n] = one]
    BY <1>1 DEF Finish
  <1>4. one \in Check
    <2>1. begun[n] \in Check
      <3> HIDE DEF Check
      <3>1. QED
        BY <1>1, <1>2
    <2>2. QED
      BY <2>1
  <1> HIDE DEF one, Check
  <1>5. begun' \in Seq(Check) /\ Len(begun') = Len(begun)
    BY <1>1, <1>2, <1>3, <1>4, ReplaceOne
  <1>6. run'[p] = Idle /\ \A q \in Writers : q # p => run'[q] = run[q]
    BY <1>1 DEF Sound, TypeOK
  <1>7. TypeOK'
    BY <1>1, <1>5, IdleIsARun DEF Finish, Sound, TypeOK, Check
  <1>8. Held(p)'
    BY <1>6 DEF Held, Inserting, Idle
  <1>9. \A q \in Writers : q # p => Held(q)'
    BY <1>5, <1>6 DEF Finish, Sound, Held, CommentsHeld, File, Current
  <1>10. QED
    BY <1>5, <1>7, <1>8, <1>9 DEF Finish, Sound

-----------------------------------------------------------------------------
(* Steps of a client                                                        *)

LEMMA ClientStep ==
  ASSUME Sound, NEW s \in Clients, NEW a \in Ask, ask' = [ask EXCEPT ![s] = a],
         a.pc \in {"read", "fetch"} => a.file \in 1..Len(files),
         UNCHANGED <<path, files, cache, run, made, begun>>
  PROVE  Sound'
  <1>1. TypeOK'
    BY DEF Sound, TypeOK
  <1>2. \A p \in Writers : Held(p)'
    BY DEF Sound, Held, CommentsHeld, File, Current
  <1>3. \A t \in Clients : ask'[t] = IF t = s THEN a ELSE ask[t]
    BY DEF Sound, TypeOK
  <1>4. QED
    BY <1>1, <1>2, <1>3 DEF Sound

\* What a session reads is an answer.
LEMMA ReadingIsAnAnswer ==
  ASSUME Sound, NEW f \in 1..Len(files), NEW id \in Ids \cup {None}
  PROVE  Reading(f, id) \in Answers
  <1>1. files[f] \in IndexFile /\ made[f] \in Nat
    BY DEF Sound, TypeOK
  <1>2. files[f].rows \in Seq(Comments)
    BY <1>1 DEF IndexFile
  <1>3. QED
    BY <1>1, <1>2 DEF Reading, Answers

LEMMA UseSound == ASSUME Sound, NEW s \in Clients, Use(s) PROVE Sound'
  <1>1. ask[s] \in Ask /\ (ask[s].pc \in {"read", "fetch"} => ask[s].file \in 1..Len(files))
    BY DEF Sound, TypeOK
  <1>2. CASE FindIndex(s)
    <2> DEFINE a == [ask[s] EXCEPT !.pc = "open"]
    <2>1. a \in Ask /\ a.pc = "open" /\ ask' = [ask EXCEPT ![s] = a]
      BY <1>1, <1>2 DEF FindIndex, Ask, Sound, TypeOK
    <2>2. QED
      BY <1>2, <2>1, ClientStep DEF FindIndex
  <1>3. CASE OpenSession(s)
    <2> DEFINE a == [ask[s] EXCEPT !.pc = "read", !.file = path']
    <2>1. /\ files' \in Seq(IndexFile) /\ Len(files) <= Len(files') /\ path' \in 1..Len(files')
          /\ Len(files') = IF path = None THEN Len(files) + 1 ELSE Len(files)
          /\ \A f \in 1..Len(files) : Extends(files'[f], files[f])
      BY <1>3, Opened DEF OpenSession
    <2>2. path' \in Nat
      BY <2>1
    <2>3. a \in Ask /\ a.file = path'
      BY <1>1, <2>2 DEF Ask
    <2>4. ask' = [ask EXCEPT ![s] = a]
      BY <1>1, <1>3 DEF OpenSession, Sound, TypeOK
    <2> HIDE DEF a
    <2>5. made' \in Seq(Nat) /\ Len(made') = Len(files') /\ Len(begun) \in Nat
          /\ \A f \in 1..Len(files') : made'[f] \in 0..Len(begun)
      <3>1. made \in Seq(Nat) /\ Len(made) = Len(files) /\ Len(files) \in Nat /\ Len(begun) \in Nat
            /\ \A f \in 1..Len(files) : made[f] \in 0..Len(begun)
        BY DEF Sound, TypeOK
      <3>2. CASE path = None
        <4>1. made' = Append(made, 0)
          BY <1>3, <3>2 DEF OpenSession
        <4>2. QED
          BY <2>1, <3>1, <3>2, <4>1, OneMore
      <3>3. CASE path # None
        <4>1. made' = made
          BY <1>3, <3>3 DEF OpenSession
        <4>2. QED
          BY <2>1, <3>1, <3>3, <4>1
      <3>4. QED
        BY <3>2, <3>3
    <2>6. TypeOK'
      BY <1>3, <2>1, <2>3, <2>4, <2>5 DEF OpenSession, Sound, TypeOK
    <2>7. \A p \in Writers : Held(p)'
      BY <1>3, <2>1, <2>5, <2>6, StillHeld DEF OpenSession
    <2>8. \A t \in Clients : ask'[t] = IF t = s THEN a ELSE ask[t]
      BY <2>4 DEF Sound, TypeOK
    <2>9. \A t \in Clients : ask'[t].pc \in {"read", "fetch"} => ask'[t].file \in 1..Len(files')
      <3>1. Len(files) \in Nat /\ Len(files') \in Nat
        BY <2>1 DEF Sound, TypeOK
      <3>2. QED
        BY <2>1, <2>3, <2>8, <3>1 DEF Sound
    <2>10. QED
      BY <1>3, <2>5, <2>6, <2>7, <2>9 DEF OpenSession, Sound
  <1>4. CASE Search(s)
    <2>1. PICK e \in files[ask[s].file].fts \cup files[ask[s].file].vec :
            ask' = [ask EXCEPT ![s].pc = "fetch", ![s].id = e.id]
      BY <1>4 DEF Search
    <2> DEFINE a == [ask[s] EXCEPT !.pc = "fetch", !.id = e.id]
    <2>2. ask[s].file \in 1..Len(files) /\ files[ask[s].file] \in IndexFile
      BY <1>1, <1>4 DEF Search, Sound, TypeOK
    <2>3. e.id \in Ids
      BY <2>2 DEF IndexFile
    <2>4. a \in Ask /\ a.file = ask[s].file
      BY <1>1, <2>3 DEF Ask
    <2>5. ask' = [ask EXCEPT ![s] = a]
      BY <1>1, <2>1 DEF Sound, TypeOK
    <2> HIDE DEF a
    <2>6. QED
      BY <1>4, <2>2, <2>4, <2>5, ClientStep DEF Search
  <1>5. CASE Fetch(s)
    <2> DEFINE v == Reading(ask[s].file, ask[s].id)
               a == [ask[s] EXCEPT !.pc = "holds", !.file = None, !.hit = v]
    <2>1. v \in Answers
      BY <1>1, <1>5, ReadingIsAnAnswer DEF Fetch, Ask
    <2>2. ask' = [ask EXCEPT ![s] = a]
      BY <1>1, <1>5 DEF Fetch, Sound, TypeOK
    <2> HIDE DEF v
    <2>3. a \in Ask /\ a.pc = "holds"
      BY <1>1, <2>1 DEF Ask
    <2> HIDE DEF a
    <2>4. QED
      BY <1>5, <2>2, <2>3, ClientStep DEF Fetch
  <1>6. CASE Resolve(s)
    <2> DEFINE v == Reading(ask[s].file, ask[s].id)
               a == [ask[s] EXCEPT !.pc = "answered", !.file = None, !.answer = v]
    <2>1. v \in Answers
      BY <1>1, <1>6, ReadingIsAnAnswer DEF Resolve, Ask
    <2>2. ask' = [ask EXCEPT ![s] = a]
      BY <1>1, <1>6 DEF Resolve, Sound, TypeOK
    <2> HIDE DEF v
    <2>3. a \in Ask /\ a.pc = "answered"
      BY <1>1, <2>1 DEF Ask
    <2> HIDE DEF a
    <2>4. QED
      BY <1>6, <2>2, <2>3, ClientStep DEF Resolve
  <1>7. CASE Leave(s)
    <2>1. Nothing \in Ask /\ Nothing.pc = "idle"
      BY DEF Nothing, Ask
    <2>2. QED
      BY <1>7, <2>1, ClientStep DEF Leave
  <1>8. QED
    BY <1>2, <1>3, <1>4, <1>5, <1>6, <1>7 DEF Use

-----------------------------------------------------------------------------
LEMMA SoundStep == Sound /\ [Next]_vars => Sound'
  <1> SUFFICES ASSUME Sound, [Next]_vars PROVE Sound'
    OBVIOUS
  <1>1. ASSUME NEW p \in Writers, Persist(p) PROVE Sound'
    BY <1>1, BeginSound, LookForStaleSound, RemoveStaleSound, OpenIndexSound, InsertCommentSound,
       IndexTextSound, ReuseVectorSound, ComputeVectorSound, StoreVectorSound, IndexVectorSound,
       InsertFindingSound, StoreIdentitySound, FinishSound, BreakSound DEF Persist
  <1>2. ASSUME NEW s \in Clients, Use(s) PROVE Sound'
    BY <1>2, UseSound
  <1>3. CASE UNCHANGED vars
    BY <1>3 DEF vars, Sound, TypeOK, Held, CommentsHeld, File, Current
  <1>4. QED
    BY <1>1, <1>2, <1>3 DEF Next

LEMMA AlwaysSound == Spec => []Sound
  BY SoundInit, SoundStep, PTL DEF Spec

\* The state of the index store stays of its type, whatever checks overlap,
\* fail or are killed.
THEOREM IndexTypeCorrect == Spec => []TypeOK
  <1>1. Sound => TypeOK
    BY DEF Sound
  <1>2. QED
    BY <1>1, AlwaysSound, PTL

-----------------------------------------------------------------------------
(* What is indexed under an id describes the comment with that id           *)

AlignedFile(f) ==
  /\ \A e \in f.fts : e.id \in 1..Len(f.rows) /\ f.rows[e.id].text = e.text
  /\ \A e \in f.vec : e.id \in 1..Len(f.rows) /\ f.rows[e.id].text = e.vector.text
  /\ \A e \in f.identity : e.id \in 1..Len(f.rows) /\ f.rows[e.id].base = e.is.base
  /\ \A n \in 1..Len(f.findings) :
       /\ f.findings[n].id \in 1..Len(f.rows)
       /\ \E i \in 1..Len(f.rows[f.findings[n].id].findings) :
            f.rows[f.findings[n].id].findings[i] = f.findings[n].finding

LEMMA RowsAlignedByFile == RowsAligned <=> \A f \in 1..Len(files) : AlignedFile(files[f])
  BY DEF RowsAligned, AlignedFile

\* One file replaced by an aligned one.
LEMMA AlignedStep ==
  ASSUME Sound, RowsAligned, NEW k \in 1..Len(files), NEW g \in IndexFile, AlignedFile(g),
         files' = [files EXCEPT ![k] = g]
  PROVE  RowsAligned'
  <1>1. /\ Len(files') = Len(files) /\ files'[k] = g
        /\ \A f \in 1..Len(files) : f # k => files'[f] = files[f]
    BY ReplaceOne DEF Sound, TypeOK
  <1>2. \A f \in 1..Len(files') : AlignedFile(files'[f])
    BY <1>1, RowsAlignedByFile
  <1>3. QED
    BY <1>2 DEF RowsAligned, AlignedFile

\* More rows leave a file aligned.
LEMMA AlignedGrows ==
  ASSUME NEW f \in IndexFile, AlignedFile(f), NEW c \in Comments
  PROVE  LET g == [f EXCEPT !.rows = Append(f.rows, c)] IN g \in IndexFile /\ AlignedFile(g)
  <1> DEFINE rows == Append(f.rows, c)
             g == [f EXCEPT !.rows = rows]
  <1>1. f.rows \in Seq(Comments) /\ Len(f.rows) \in Nat
    BY DEF IndexFile
  <1>2. /\ rows \in Seq(Comments) /\ Len(rows) = Len(f.rows) + 1
        /\ \A i \in 1..Len(f.rows) : i \in 1..Len(rows) /\ rows[i] = f.rows[i]
    BY <1>1, OneMore
  <1> HIDE DEF rows
  <1>3. /\ g \in IndexFile /\ g.rows = rows /\ g.fts = f.fts /\ g.vec = f.vec
        /\ g.identity = f.identity /\ g.findings = f.findings
    BY <1>2 DEF IndexFile
  <1> HIDE DEF g
  <1>4. ASSUME NEW id \in 1..Len(f.rows) PROVE id \in 1..Len(g.rows) /\ g.rows[id] = f.rows[id]
    BY <1>2, <1>3
  <1>5. /\ \A e \in g.fts : e.id \in 1..Len(g.rows) /\ g.rows[e.id].text = e.text
        /\ \A e \in g.vec : e.id \in 1..Len(g.rows) /\ g.rows[e.id].text = e.vector.text
        /\ \A e \in g.identity : e.id \in 1..Len(g.rows) /\ g.rows[e.id].base = e.is.base
    BY <1>3, <1>4 DEF AlignedFile
  <1>6. ASSUME NEW n \in 1..Len(g.findings)
        PROVE  /\ g.findings[n].id \in 1..Len(g.rows)
               /\ \E i \in 1..Len(g.rows[g.findings[n].id].findings) :
                    g.rows[g.findings[n].id].findings[i] = g.findings[n].finding
    <2>1. /\ f.findings[n].id \in 1..Len(f.rows)
          /\ \E i \in 1..Len(f.rows[f.findings[n].id].findings) :
               f.rows[f.findings[n].id].findings[i] = f.findings[n].finding
      BY <1>3 DEF AlignedFile
    <2>2. g.rows[f.findings[n].id] = f.rows[f.findings[n].id] /\ f.findings[n].id \in 1..Len(g.rows)
      BY <1>4, <2>1
    <2>3. QED
      BY <1>3, <2>1, <2>2
  <1>7. AlignedFile(g)
    BY <1>5, <1>6 DEF AlignedFile
  <1>8. QED
    BY <1>3, <1>7 DEF g, rows

LEMMA RowsAlignedStep == Sound /\ RowsAligned /\ [Next]_vars => RowsAligned'
  <1> SUFFICES ASSUME Sound, RowsAligned, [Next]_vars PROVE RowsAligned'
    OBVIOUS
  <1>0. ASSUME UNCHANGED files PROVE RowsAligned'
    BY <1>0 DEF RowsAligned
  <1>1. ASSUME files' = IF path = None THEN Append(files, EmptyFile) ELSE files,
               path' = IF path = None THEN Len(files) + 1 ELSE path
        PROVE  RowsAligned'
    <2>1. AlignedFile(EmptyFile) /\ EmptyFile \in IndexFile
      BY DEF AlignedFile, EmptyFile, IndexFile
    <2>2. CASE path = None
      <3>1. Len(files) \in Nat /\ files \in Seq(IndexFile) /\ files' = Append(files, EmptyFile)
        BY <1>1, <2>2 DEF Sound, TypeOK
      <3>2. \A f \in 1..Len(files') : AlignedFile(files'[f])
        BY <2>1, <3>1, OneMore, RowsAlignedByFile
      <3>3. QED
        BY <3>2 DEF RowsAligned, AlignedFile
    <2>3. CASE path # None
      BY <1>0, <1>1, <2>3
    <2>4. QED
      BY <2>2, <2>3
  <1>2. ASSUME NEW p \in Writers, Persist(p) PROVE RowsAligned'
    <2>1. run[p] \in Run /\ Held(p)
      BY DEF Sound, TypeOK
    <2>2. ASSUME run[p].pc \in Inserting \cup {"next"}
          PROVE  /\ run[p].file \in 1..Len(files) /\ File(p) \in IndexFile /\ AlignedFile(File(p))
                 /\ files[run[p].file] = File(p)
      BY <2>1, <2>2, RowsAlignedByFile DEF Held, File, Sound, TypeOK
    <2>3. ASSUME run[p].pc \in Inserting
          PROVE  /\ RowId(p) \in 1..Len(File(p).rows) /\ File(p).rows[RowId(p)] = Current(p)
                 /\ RowId(p) \in Ids
                 /\ Current(p).text \in Texts /\ Current(p).findings \in Seq(Findings)
                 /\ run[p].at \in 1..Len(CommentsHeld(p)) /\ CommentsHeld(p) \in Seq(Comments)
      BY <2>1, <2>3, CurrentComment DEF Held, RowId, Sound, Ids
    <2>4. CASE InsertComment(p)
      <3>1. PICK n \in Upcoming(p) :
              files' = [files EXCEPT ![run[p].file].rows = Append(@, CommentsHeld(p)[n])]
        BY <2>4 DEF InsertComment
      <3>2. CommentsHeld(p)[n] \in Comments
        <4>1. CommentsHeld(p) \in Seq(Comments) /\ n \in 1..Len(CommentsHeld(p))
          BY <2>1, IndexAssumption DEF Upcoming, CommentsHeld, Run
        <4>2. QED
          BY <4>1
      <3> DEFINE g == [File(p) EXCEPT !.rows = Append(File(p).rows, CommentsHeld(p)[n])]
      <3>3. files' = [files EXCEPT ![run[p].file] = g]
        BY <2>2, <2>4, <3>1 DEF InsertComment, File
      <3>4. run[p].file \in 1..Len(files) /\ g \in IndexFile /\ AlignedFile(g)
        BY <2>2, <2>4, <3>2, AlignedGrows DEF InsertComment
      <3> HIDE DEF g
      <3>5. QED
        BY <3>3, <3>4, AlignedStep
    <2>5. CASE IndexText(p)
      <3> DEFINE e == [id |-> RowId(p), text |-> Current(p).text]
                 fts == File(p).fts \cup {e}
                 g == [File(p) EXCEPT !.fts = fts]
      <3>1. File(p) \in IndexFile /\ AlignedFile(File(p)) /\ run[p].file \in 1..Len(files)
        BY <2>2, <2>5 DEF IndexText, Inserting
      <3>2. files' = [files EXCEPT ![run[p].file] = g]
        BY <2>5, <3>1 DEF IndexText, File
      <3>3. e \in [id : Ids, text : Texts] /\ e.id \in 1..Len(File(p).rows) /\ File(p).rows[e.id].text = e.text
        BY <2>3, <2>5 DEF IndexText, Inserting
      <3> HIDE DEF e
      <3>4. fts \in SUBSET [id : Ids, text : Texts]
            /\ \A d \in fts : d.id \in 1..Len(File(p).rows) /\ File(p).rows[d.id].text = d.text
        BY <3>1, <3>3 DEF IndexFile, AlignedFile
      <3> HIDE DEF fts
      <3>5. /\ g \in IndexFile /\ g.rows = File(p).rows /\ g.fts = fts /\ g.vec = File(p).vec
            /\ g.identity = File(p).identity /\ g.findings = File(p).findings
        BY <3>1, <3>4 DEF IndexFile
      <3> HIDE DEF g
      <3>6. AlignedFile(g)
        BY <3>1, <3>4, <3>5 DEF AlignedFile
      <3>7. QED
        BY <3>1, <3>2, <3>5, <3>6, AlignedStep
    <2>6. CASE IndexVector(p)
      <3> DEFINE e == [id |-> RowId(p), vector |-> run[p].vector]
                 vec == File(p).vec \cup {e}
                 g == [File(p) EXCEPT !.vec = vec]
      <3>1. File(p) \in IndexFile /\ AlignedFile(File(p)) /\ run[p].file \in 1..Len(files)
        BY <2>2, <2>6 DEF IndexVector, Inserting
      <3>2. files' = [files EXCEPT ![run[p].file] = g]
        BY <2>6, <3>1 DEF IndexVector, File
      <3>3. /\ e \in [id : Ids, vector : Vectors]
            /\ e.id \in 1..Len(File(p).rows) /\ File(p).rows[e.id].text = e.vector.text
        BY <2>1, <2>3, <2>6 DEF IndexVector, Inserting, Held
      <3> HIDE DEF e
      <3>4. vec \in SUBSET [id : Ids, vector : Vectors]
            /\ \A d \in vec : d.id \in 1..Len(File(p).rows) /\ File(p).rows[d.id].text = d.vector.text
        BY <3>1, <3>3 DEF IndexFile, AlignedFile
      <3> HIDE DEF vec
      <3>5. /\ g \in IndexFile /\ g.rows = File(p).rows /\ g.fts = File(p).fts /\ g.vec = vec
            /\ g.identity = File(p).identity /\ g.findings = File(p).findings
        BY <3>1, <3>4 DEF IndexFile
      <3> HIDE DEF g
      <3>6. AlignedFile(g)
        BY <3>1, <3>4, <3>5 DEF AlignedFile
      <3>7. QED
        BY <3>1, <3>2, <3>5, <3>6, AlignedStep
    <2>7. CASE InsertFinding(p)
      <3> DEFINE k == run[p].filed + 1
                 e == [id |-> RowId(p), finding |-> Current(p).findings[k]]
                 found == Append(File(p).findings, e)
                 g == [File(p) EXCEPT !.findings = found]
      <3>1. File(p) \in IndexFile /\ AlignedFile(File(p)) /\ run[p].file \in 1..Len(files)
        BY <2>2, <2>7 DEF InsertFinding, Inserting
      <3>2. files' = [files EXCEPT ![run[p].file] = g]
        BY <2>7, <3>1 DEF InsertFinding, File
      <3>3. k \in 1..Len(Current(p).findings)
        BY <2>1, <2>3, <2>7 DEF InsertFinding, Inserting, Run
      <3>4. e \in [id : Ids, finding : Findings]
        BY <2>3, <2>7, <3>3 DEF InsertFinding, Inserting
      <3>5. /\ e.id \in 1..Len(File(p).rows)
            /\ \E i \in 1..Len(File(p).rows[e.id].findings) : File(p).rows[e.id].findings[i] = e.finding
        BY <2>3, <2>7, <3>3 DEF InsertFinding, Inserting
      <3> HIDE DEF e
      <3>6. File(p).findings \in Seq([id : Ids, finding : Findings])
        BY <3>1 DEF IndexFile
      <3>7. /\ found \in Seq([id : Ids, finding : Findings])
            /\ \A n \in 1..Len(found) : found[n] = e \/ \E m \in 1..Len(File(p).findings) : found[n] = File(p).findings[m]
        BY <3>4, <3>6, OneMore
      <3> HIDE DEF found
      <3>8. /\ g \in IndexFile /\ g.rows = File(p).rows /\ g.fts = File(p).fts /\ g.vec = File(p).vec
            /\ g.identity = File(p).identity /\ g.findings = found
        BY <3>1, <3>7 DEF IndexFile
      <3> HIDE DEF g
      <3>9. AlignedFile(g)
        <4>1. ASSUME NEW n \in 1..Len(found)
              PROVE  /\ found[n].id \in 1..Len(g.rows)
                     /\ \E i \in 1..Len(g.rows[found[n].id].findings) :
                          g.rows[found[n].id].findings[i] = found[n].finding
          <5>1. CASE found[n] = e
            BY <3>5, <3>8, <5>1
          <5>2. ASSUME NEW m \in 1..Len(File(p).findings), found[n] = File(p).findings[m]
                PROVE  /\ found[n].id \in 1..Len(g.rows)
                       /\ \E i \in 1..Len(g.rows[found[n].id].findings) :
                            g.rows[found[n].id].findings[i] = found[n].finding
            BY <3>1, <3>8, <5>2 DEF AlignedFile
          <5>3. QED
            BY <3>7, <5>1, <5>2
        <4>2. QED
          BY <3>1, <3>8, <4>1 DEF AlignedFile
      <3>10. QED
        BY <3>1, <3>2, <3>8, <3>9, AlignedStep
    <2>8. CASE StoreIdentity(p)
      <3> DEFINE is == Identity(CommentsHeld(p), run[p].at)
                 ident == WithIdentity(File(p).identity, RowId(p), is)
                 g == [File(p) EXCEPT !.identity = ident]
      <3>1. File(p) \in IndexFile /\ AlignedFile(File(p)) /\ run[p].file \in 1..Len(files)
        BY <2>2, <2>8 DEF StoreIdentity, Inserting
      <3>2. files' = [files EXCEPT ![run[p].file] = g]
        BY <2>8, <3>1 DEF StoreIdentity, File
      <3>3. is \in [base : Bases, ordinal : Nat] /\ is.base = Current(p).base
        <4>1. is \in [base : Bases, ordinal : Nat]
          BY <2>3, <2>8, IdentityType DEF StoreIdentity, Inserting
        <4>2. QED
          BY <4>1 DEF Identity, Current
      <3> HIDE DEF is
      <3>4. /\ ident \in SUBSET [id : Ids, is : [base : Bases, ordinal : Nat]]
            /\ \A d \in ident : d.id \in 1..Len(File(p).rows) /\ File(p).rows[d.id].base = d.is.base
        BY <2>3, <2>8, <3>1, <3>3 DEF StoreIdentity, Inserting, IndexFile, AlignedFile, WithIdentity
      <3> HIDE DEF ident
      <3>5. /\ g \in IndexFile /\ g.rows = File(p).rows /\ g.fts = File(p).fts /\ g.vec = File(p).vec
            /\ g.identity = ident /\ g.findings = File(p).findings
        BY <3>1, <3>4 DEF IndexFile
      <3> HIDE DEF g
      <3>6. AlignedFile(g)
        BY <3>1, <3>4, <3>5 DEF AlignedFile
      <3>7. QED
        BY <3>1, <3>2, <3>5, <3>6, AlignedStep
    <2>9. CASE OpenIndex(p)
      BY <1>1, <2>9 DEF OpenIndex
    <2>10. CASE \/ Begin(p) \/ LookForStale(p) \/ RemoveStale(p) \/ ReuseVector(p) \/ ComputeVector(p)
                \/ StoreVector(p) \/ Finish(p) \/ Break(p)
      BY <1>0, <2>10 DEF Begin, LookForStale, RemoveStale, ReuseVector, ComputeVector, StoreVector,
         Finish, Break
    <2>11. QED
      BY <1>2, <2>4, <2>5, <2>6, <2>7, <2>8, <2>9, <2>10 DEF Persist
  <1>3. ASSUME NEW s \in Clients, Use(s) PROVE RowsAligned'
    <2>1. CASE OpenSession(s)
      BY <1>1, <2>1 DEF OpenSession
    <2>2. CASE FindIndex(s) \/ Search(s) \/ Fetch(s) \/ Resolve(s) \/ Leave(s)
      BY <1>0, <2>2 DEF FindIndex, Search, Fetch, Resolve, Leave
    <2>3. QED
      BY <1>3, <2>1, <2>2 DEF Use
  <1>4. QED
    BY <1>0, <1>2, <1>3 DEF Next, vars

\* Whatever checks overlap and in whichever file they end up together, the
\* text, vector, identity and findings under an id are those of its comment.
THEOREM RowsStayAligned == Spec => []RowsAligned
  <1>1. Init => RowsAligned
    BY DEF Init, RowsAligned
  <1>2. QED
    BY <1>1, RowsAlignedStep, AlwaysSound, PTL DEF Spec

\* A check entered has a tree.
LEMMA BegunTrees == ASSUME Sound, NEW c \in 1..Len(begun)
                    PROVE  /\ begun[c] \in [tree : Trees, model : Models, whole : BOOLEAN, crossed : BOOLEAN]
                           /\ begun[c].tree \in Trees
  <1> DEFINE Check == [tree : Trees, model : Models, whole : BOOLEAN, crossed : BOOLEAN]
  <1>1. begun \in Seq(Check)
    BY DEF Sound, TypeOK
  <1>2. begun[c] \in Check
    <2> HIDE DEF Check
    <2>1. QED
      BY <1>1
  <1>3. QED
    BY <1>2
=============================================================================
