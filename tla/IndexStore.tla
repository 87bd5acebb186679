----------------------------- MODULE IndexStore -----------------------------
(***************************************************************************)
(* The derived index `index.db` and the embeddings cached in `inputs.db`.  *)
(*                                                                         *)
(* Every check ends in `persist`: it removes the index file, opens a new   *)
(* one and inserts comment after comment, each statement committed on its  *)
(* own.  A session opens the file at the path, or creates it when a check  *)
(* has just removed it.  Nothing orders two checks, or a check and a       *)
(* session: a removed file lives on for whoever has it open, and two       *)
(* checks may end up in one file.                                          *)
(*                                                                         *)
(* SQLite is external: a statement is atomic and durable, and what is      *)
(* written to one file is not seen in another.  Any statement may fail     *)
(* (Break), which is also where a kill is.                                 *)
(***************************************************************************)
EXTENDS Naturals, Sequences, FiniteSets

CONSTANTS
  Writers,     \* processes that run checks
  Clients,     \* processes that query the index and later use the answer
  Trees,       \* states of the source tree
  Comments,    \* records with at least text, base and findings
  Findings,    \* findings of comments
  CommentsOf,  \* the comments of a tree, in the order of the check
  Models,      \* embedding models, by version
  MaxChecks,   \* bound on checks
  None         \* no file, no answer

ASSUME IndexAssumption ==
  /\ \A c \in Comments : c.findings \in Seq(Findings)
  /\ CommentsOf \in [Trees -> Seq(Comments)]
  /\ Trees # {} /\ Models # {}
  /\ MaxChecks \in Nat
  /\ None \notin Nat

VARIABLES
  path,   \* the file at index.db, or None
  files,  \* every file there has been, in the order of creation
  cache,  \* the embeddings of inputs.db
  run,    \* what each writer's check holds
  ask,    \* what each client holds
  made,   \* ghost: for each file the check that last opened it
  begun   \* ghost: the checks begun, oldest first

vars == <<path, files, cache, run, ask, made, begun>>

-----------------------------------------------------------------------------
(* What is stored                                                           *)

\* An empty index: IndexDb::open and the two virtual tables.
EmptyFile == [rows |-> <<>>, fts |-> {}, vec |-> {}, findings |-> <<>>, identity |-> {}]

\* The identity of comment n of a check: its (symbol, kind, fingerprint) and
\* how many before it share that.
Identity(cs, n) ==
  [base |-> cs[n].base, ordinal |-> Cardinality({i \in 1..(n - 1) : cs[i].base = cs[n].base})]

\* INSERT OR REPLACE of the identity row of an id.
WithIdentity(ident, id, identity) ==
  {e \in ident : e.id # id} \cup {[id |-> id, is |-> identity]}

\* Bug: the vector cached for the text is taken whatever model made it.
CachedForText(text, model) == {e \in cache : e.text = text}

\* The cached vectors for a text under a model; the content hash stands for
\* the text it is computed from.
Cached(text, model) == {e \in cache : e.text = text /\ e.model = model}

Embed(text, model) == [text |-> text, of |-> model]

-----------------------------------------------------------------------------
(* A check persists its comments                                            *)

Idle == [pc |-> "idle", tree |-> CHOOSE t \in Trees : TRUE, model |-> CHOOSE m \in Models : TRUE,
         check |-> 0, file |-> None, at |-> 0, id |-> 0, vector |-> None, filed |-> 0]

Active(p) == run[p].pc # "idle"

CommentsHeld(p) == CommentsOf[run[p].tree]
Current(p) == CommentsHeld(p)[run[p].at]
File(p) == files[run[p].file]

\* Bug: the removal is skipped, the tables are reused as they are.
KeepsTheFile == FALSE

\* The stale build a persist removes.
StaleBuild == path # None

\* Bug: the order of the list is lost (comments come as parallel scans end).
InAnyOrder(p) ==
  {n \in 1..Len(CommentsHeld(p)) : \A i \in 1..Len(File(p).rows) : File(p).rows[i] # CommentsHeld(p)[n]}

\* Where in its list the check goes on.
Upcoming(p) == {run[p].at + 1} \cap (1..Len(CommentsHeld(p)))

\* Bug: the id is read back as the highest there is.
HighestRowId(p) == Len(File(p).rows)

\* The row id a comment got: this connection's last insert.
RowId(p) == run[p].id

\* A check has scanned the tree and starts to persist: the cache directory is
\* made and inputs.db opened.
Begin(p) ==
  /\ ~Active(p) /\ Len(begun) < MaxChecks
  /\ \E t \in Trees, m \in Models :
       /\ run' = [run EXCEPT ![p] = [Idle EXCEPT !.pc = "exists", !.tree = t, !.model = m,
                                                 !.check = Len(begun) + 1]]
       /\ begun' = Append([c \in 1..Len(begun) |->
                             [begun[c] EXCEPT !.crossed = @ \/ \E q \in Writers : run[q].check = c]],
                          [tree |-> t, model |-> m, whole |-> FALSE,
                           crossed |-> \E q \in Writers : Active(q)])
  /\ UNCHANGED <<path, files, cache, ask, made>>

\* index_path.exists()
LookForStale(p) ==
  /\ run[p].pc = "exists"
  /\ run' = [run EXCEPT ![p].pc = IF StaleBuild THEN "remove" ELSE "open"]
  /\ UNCHANGED <<path, files, cache, ask, made, begun>>

\* remove_file: an error when another check has removed it in between.
RemoveStale(p) ==
  /\ run[p].pc = "remove"
  /\ path' = None
  /\ run' = [run EXCEPT ![p] = IF path = None THEN Idle ELSE [@ EXCEPT !.pc = "open"]]
  /\ UNCHANGED <<files, cache, ask, made, begun>>

\* IndexDb::open creates the file or takes the one that is there by now.
OpenIndex(p) ==
  /\ run[p].pc = "open"
  /\ files' = IF path = None THEN Append(files, EmptyFile) ELSE files
  /\ path' = IF path = None THEN Len(files) + 1 ELSE path
  /\ made' = IF path = None THEN Append(made, run[p].check) ELSE [made EXCEPT ![path] = run[p].check]
  /\ run' = [run EXCEPT ![p].pc = "next", ![p].file = path']
  /\ UNCHANGED <<cache, ask, begun>>

\* insert_comment
InsertComment(p) ==
  /\ run[p].pc = "next"
  /\ \E n \in Upcoming(p) :
       /\ files' = [files EXCEPT ![run[p].file].rows = Append(@, CommentsHeld(p)[n])]
       /\ run' = [run EXCEPT ![p].pc = "fts", ![p].at = n, ![p].filed = 0,
                               ![p].id = Len(File(p).rows) + 1]
  /\ UNCHANGED <<path, cache, ask, made, begun>>

\* fts::index
IndexText(p) ==
  /\ run[p].pc = "fts"
  /\ files' = [files EXCEPT ![run[p].file].fts = @ \cup {[id |-> RowId(p), text |-> Current(p).text]}]
  /\ run' = [run EXCEPT ![p].pc = "embed"]
  /\ UNCHANGED <<path, cache, ask, made, begun>>

\* reuse_or_embed, on a hit
ReuseVector(p) ==
  /\ run[p].pc = "embed"
  /\ \E e \in Cached(Current(p).text, run[p].model) :
       run' = [run EXCEPT ![p].pc = "vec", ![p].vector = e.vector]
  /\ UNCHANGED <<path, files, cache, ask, made, begun>>

\* reuse_or_embed, on a miss: the vector is computed and then stored.
ComputeVector(p) ==
  /\ run[p].pc = "embed"
  /\ Cached(Current(p).text, run[p].model) = {}
  /\ run' = [run EXCEPT ![p].pc = "store", ![p].vector = Embed(Current(p).text, run[p].model)]
  /\ UNCHANGED <<path, files, cache, ask, made, begun>>

\* store_embedding replaces what another check may have stored by now.
StoreVector(p) ==
  /\ run[p].pc = "store"
  /\ LET text == Current(p).text  model == run[p].model
     IN  cache' = {e \in cache : e.text # text \/ e.model # model}
                    \cup {[text |-> text, model |-> model, vector |-> run[p].vector]}
  /\ run' = [run EXCEPT ![p].pc = "vec"]
  /\ UNCHANGED <<path, files, ask, made, begun>>

\* vec_index::index
IndexVector(p) ==
  /\ run[p].pc = "vec"
  /\ files' = [files EXCEPT ![run[p].file].vec = @ \cup {[id |-> RowId(p), vector |-> run[p].vector]}]
  /\ run' = [run EXCEPT ![p].pc = "findings"]
  /\ UNCHANGED <<path, cache, ask, made, begun>>

\* insert_finding, for each finding of the comment
InsertFinding(p) ==
  /\ run[p].pc = "findings" /\ run[p].filed < Len(Current(p).findings)
  /\ files' = [files EXCEPT ![run[p].file].findings =
                 Append(@, [id |-> RowId(p), finding |-> Current(p).findings[run[p].filed + 1]])]
  /\ run' = [run EXCEPT ![p].filed = @ + 1]
  /\ UNCHANGED <<path, cache, ask, made, begun>>

\* identity_store::store; the identities were assigned over the whole list.
StoreIdentity(p) ==
  /\ run[p].pc = "findings" /\ run[p].filed = Len(Current(p).findings)
  /\ files' = [files EXCEPT ![run[p].file].identity =
                 WithIdentity(@, RowId(p), Identity(CommentsHeld(p), run[p].at))]
  /\ run' = [run EXCEPT ![p].pc = "next"]
  /\ UNCHANGED <<path, cache, ask, made, begun>>

\* persist returns: the connections close.
Finish(p) ==
  /\ run[p].pc = "next" /\ Upcoming(p) = {}
  /\ run' = [run EXCEPT ![p] = Idle]
  /\ begun' = [begun EXCEPT ![run[p].check].whole = TRUE]
  /\ UNCHANGED <<path, files, cache, ask, made>>

\* A statement fails (a busy file, a full disk) or the process is killed: the
\* rows inserted so far stay.
Break(p) ==
  /\ Active(p)
  /\ run' = [run EXCEPT ![p] = Idle]
  /\ UNCHANGED <<path, files, cache, ask, made, begun>>

-----------------------------------------------------------------------------
(* A client queries the index and comes back with an id it got              *)

Nothing == [pc |-> "idle", file |-> None, id |-> None, hit |-> None, answer |-> None]

\* What a session reads under an id: the comment, and of which check's file.
Reading(f, id) ==
  [comment |-> IF id \in 1..Len(files[f].rows) THEN files[f].rows[id] ELSE None,
   check |-> made[f]]

\* Session::open finds a file at the path (otherwise it is an error).
FindIndex(s) ==
  /\ ask[s].pc \in {"idle", "holds"} /\ path # None
  /\ ask' = [ask EXCEPT ![s].pc = "open"]
  /\ UNCHANGED <<path, files, cache, run, made, begun>>

\* It then opens the file, or creates an empty one when a check has removed
\* it in between.
OpenSession(s) ==
  /\ ask[s].pc = "open"
  /\ files' = IF path = None THEN Append(files, EmptyFile) ELSE files
  /\ path' = IF path = None THEN Len(files) + 1 ELSE path
  /\ made' = IF path = None THEN Append(made, 0) ELSE made
  /\ ask' = [ask EXCEPT ![s].pc = "read", ![s].file = path']
  /\ UNCHANGED <<cache, run, begun>>

\* query: one of the ids the two searches return.
Search(s) ==
  /\ ask[s].pc = "read" /\ ask[s].hit = None
  /\ \E e \in files[ask[s].file].fts \cup files[ask[s].file].vec :
       ask' = [ask EXCEPT ![s].pc = "fetch", ![s].id = e.id]
  /\ UNCHANGED <<path, files, cache, run, made, begun>>

\* It reads the comment under each id and returns those it finds.
Fetch(s) ==
  /\ ask[s].pc = "fetch"
  /\ ask' = [ask EXCEPT ![s].pc = "holds", ![s].file = None, ![s].hit = Reading(ask[s].file, ask[s].id)]
  /\ UNCHANGED <<path, files, cache, run, made, begun>>

\* A later call resolves the id in a session of its own.
Resolve(s) ==
  /\ ask[s].pc = "read" /\ ask[s].hit # None
  /\ ask' = [ask EXCEPT ![s].pc = "answered", ![s].file = None,
                         ![s].answer = Reading(ask[s].file, ask[s].id)]
  /\ UNCHANGED <<path, files, cache, run, made, begun>>

\* A session ends without an answer, or the client is done with it.
Leave(s) ==
  /\ ask[s].pc \in {"read", "answered"}
  /\ ask' = [ask EXCEPT ![s] = Nothing]
  /\ UNCHANGED <<path, files, cache, run, made, begun>>

-----------------------------------------------------------------------------
Init ==
  /\ path = None /\ files = <<>> /\ made = <<>> /\ begun = <<>> /\ cache = {}
  /\ run = [p \in Writers |-> Idle]
  /\ ask = [s \in Clients |-> Nothing]

Persist(p) ==
  \/ Begin(p) \/ LookForStale(p) \/ RemoveStale(p) \/ OpenIndex(p)
  \/ InsertComment(p) \/ IndexText(p) \/ ReuseVector(p) \/ ComputeVector(p)
  \/ StoreVector(p) \/ IndexVector(p) \/ InsertFinding(p) \/ StoreIdentity(p)
  \/ Finish(p) \/ Break(p)

Use(s) ==
  \/ FindIndex(s) \/ OpenSession(s) \/ Search(s) \/ Fetch(s) \/ Resolve(s) \/ Leave(s)

Next == (\E p \in Writers : Persist(p)) \/ (\E s \in Clients : Use(s))

Spec == Init /\ [][Next]_vars

-----------------------------------------------------------------------------
(* Properties                                                               *)

Texts == {c.text : c \in Comments}
Bases == {c.base : c \in Comments}
Vectors == [text : Texts, of : Models]
Ids == Nat \ {0}

IndexFile ==
  [rows : Seq(Comments), fts : SUBSET [id : Ids, text : Texts], vec : SUBSET [id : Ids, vector : Vectors],
   findings : Seq([id : Ids, finding : Findings]),
   identity : SUBSET [id : Ids, is : [base : Bases, ordinal : Nat]]]

Run ==
  [pc : {"idle", "exists", "remove", "open", "next", "fts", "embed", "store", "vec", "findings"},
   tree : Trees, model : Models, check : Nat, file : Nat \cup {None}, at : Nat, id : Nat,
   vector : Vectors \cup {None}, filed : Nat]

Answers == [comment : Comments \cup {None}, check : Nat]

Ask ==
  [pc : {"idle", "open", "read", "fetch", "holds", "answered"}, file : Nat \cup {None},
   id : Ids \cup {None}, hit : Answers \cup {None}, answer : Answers \cup {None}]

TypeOK ==
  /\ files \in Seq(IndexFile)
  /\ path \in 1..Len(files) \cup {None}
  /\ cache \subseteq [text : Texts, model : Models, vector : Vectors]
  /\ run \in [Writers -> Run]
  /\ ask \in [Clients -> Ask]
  /\ made \in Seq(Nat) /\ Len(made) = Len(files)
  /\ begun \in Seq([tree : Trees, model : Models, whole : BOOLEAN, crossed : BOOLEAN])

Uncrossed(c) == c > 0 /\ ~begun[c].crossed

\* What is indexed under an id describes the comment with that id: text,
\* vector, findings and identity alike, in every file and also when two
\* checks insert into one (ids come from the connection's own last insert).
RowsAligned ==
  \A f \in 1..Len(files) :
    LET rows == files[f].rows IN
      /\ \A e \in files[f].fts : e.id \in 1..Len(rows) /\ rows[e.id].text = e.text
      /\ \A e \in files[f].vec : e.id \in 1..Len(rows) /\ rows[e.id].text = e.vector.text
      /\ \A e \in files[f].identity : e.id \in 1..Len(rows) /\ rows[e.id].base = e.is.base
      /\ \A n \in 1..Len(files[f].findings) :
           LET e == files[f].findings[n]
           IN  e.id \in 1..Len(rows)
               /\ \E i \in 1..Len(rows[e.id].findings) : rows[e.id].findings[i] = e.finding

\* The findings stored under an id are those of the comment, in a row and in
\* its order.
InOrder(stored, id, expected) ==
  \E k \in 0..Len(stored) :
    /\ {j \in 1..Len(stored) : stored[j].id = id} = (k + 1)..(k + Len(expected))
    /\ \A i \in 1..Len(expected) : stored[k + i].finding = expected[i]

\* An index of exactly these comments: all of them once and nothing else, each
\* found by both searches, with its findings in order and an identity no other
\* comment has.
Whole(f, cs) ==
  LET ids == 1..Len(cs) IN
    /\ f.rows = cs
    /\ {e.id : e \in f.fts} = ids
    /\ {e.id : e \in f.vec} = ids
    /\ {e.id : e \in f.identity} = ids
    /\ \A e, g \in f.identity : e.is = g.is => e.id = g.id
    /\ \A n \in ids : InOrder(f.findings, n, cs[n].findings)

\* When the last check ran to its end and no other persisted meanwhile, the
\* index is that of its comments, whatever was in the index before, whoever
\* was killed before, and whichever session created the file.
WholeWhenDone ==
  LET c == Len(begun) IN
    (c > 0 /\ begun[c].whole /\ ~begun[c].crossed) =>
      path # None /\ Whole(files[path], CommentsOf[begun[c].tree])

\* In a file that one check wrote, the vectors are of that check's model: no
\* vector an older build cached is compared with this build's queries.
VectorsOfOneModel ==
  \A f \in 1..Len(files) :
    Uncrossed(made[f]) => \A e \in files[f].vec : e.vector.of = begun[made[f]].model

\* An id a query returned resolves, in a later session and after any number of
\* checks, to the same comment or to none as long as the tree is the same:
\* every check numbers the comments in the same order.
IdKeepsItsComment ==
  \A s \in Clients :
    LET hit == ask[s].hit  answer == ask[s].answer IN
      (/\ ask[s].pc = "answered"
       /\ Uncrossed(hit.check) /\ Uncrossed(answer.check)
       /\ begun[hit.check].tree = begun[answer.check].tree)
        => answer.comment \in {hit.comment, None}

\* The file at the path was last opened by a check that no other crossed.
ByOneCheck == path # None /\ Uncrossed(made[path])

ShownTree == IF ByOneCheck THEN begun[made[path]].tree ELSE Idle.tree

Shown == IF ByOneCheck THEN files[path].rows ELSE <<>>

View == INSTANCE IndexView WITH tree <- ShownTree, shown <- Shown

\* In an index that one check fills with no other persisting meanwhile,
\* whoever opens it at any moment finds that check's comments from the first
\* one on and in their order, as far as it has come: whatever index was there
\* before, whichever check was killed, and whichever session created the file.
OneCheckShown == View!Spec
=============================================================================
