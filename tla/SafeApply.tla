------------------------------ MODULE SafeApply ------------------------------
(***************************************************************************)
(* The write path: apply-edit, remove and strip, run by any number of      *)
(* clients (CLI processes, MCP tool calls on a multi-threaded runtime)     *)
(* over files nobody locks, while authors save the same files and `check`  *)
(* rebuilds the index the clients resolve comments against.                *)
(*                                                                         *)
(* A client reads a source, computes and verifies the rewrite in memory,   *)
(* then writes it with fs::write, which truncates the file before it fills *)
(* it.  An applied edit does not touch the index, so every later edit of   *)
(* that file works from stale byte ranges until the next check.            *)
(***************************************************************************)
EXTENDS SourceText

CONSTANTS
  Files,          \* repository files
  Clients,        \* processes and tool calls that write
  Texts,          \* comment texts an agent authors for apply_edit
  Policies,       \* strip policies in use
  AuthorVersions, \* [Files -> sets of texts], what authors save
  MaxOps          \* bound on the operations clients start

ASSUME ApplyAssumption ==
  /\ Texts \subseteq Text /\ <<>> \in Texts
  /\ Policies \subseteq Policy
  /\ AuthorVersions \in [Files -> SUBSET Text]
  /\ Files # {} /\ MaxOps \in Nat

VARIABLES
  disk,     \* [Files -> Text]
  index,    \* [Files -> sets of comment records], as of the last check
  client,   \* [Clients -> what the client holds in memory]
  started,  \* operations started so far, up to MaxOps
  authored, \* ghost: [Files -> the code stream the authors last saved]
  exposed   \* ghost: [Files -> BOOLEAN], since that save someone overlapped an
            \* unfinished write of the file, or an author saved inside a
            \* client's read-to-write window, or a write died half way

vars == <<disk, index, client, started, authored, exposed>>

AnyRecord == [first |-> 1, last |-> 1, kind |-> "Line"]
AnyPolicy == [significant |-> FALSE, license |-> FALSE, keep |-> {}, tidy |-> FALSE]
AnyFile == CHOOSE f \in Files : TRUE

Phase == {"idle", "resolved", "ready", "writing", "walking", "isolating"}

\* edit: idle -> resolved -> ready -> writing -> idle
\* strip: idle -> walking -> [isolating ->] ready -> writing -> walking ... idle
Idle == [phase |-> "idle", op |-> "edit", file |-> AnyFile, rec |-> AnyRecord,
         text |-> <<>>, ack |-> FALSE, policy |-> AnyPolicy, dry |-> FALSE, todo |-> {},
         src |-> <<>>, new |-> <<>>, targets |-> {}, points |-> {}]

Become(c, v) == client' = [client EXCEPT ![c] = v]

StartOne == started < MaxOps /\ started' = started + 1

-----------------------------------------------------------------------------
(* Who is in the middle of what.                                           *)

WindowOpen(f) == \E c \in Clients : client[c].phase = "writing" /\ client[c].file = f

\* A client that holds a text derived from f and has not finished writing it.
Holding(f) == \E c \in Clients : /\ client[c].phase \in {"isolating", "ready", "writing"}
                                 /\ client[c].file = f

\* src with its first k atoms overwritten by those of new.
Overlay(src, new, k) == SubSeq(new, 1, k) \o SubSeq(src, k + 1, Len(src))

\* What a read of f may return: a file being filled is filled from the start.
Views(f) ==
  {disk[f]} \cup
  UNION {{Overlay(disk[f], client[w].new, k) : k \in 0..Len(client[w].new)} :
           w \in {v \in Clients : client[v].phase = "writing" /\ client[v].file = f}}

Expose(f, how) == exposed' = [exposed EXCEPT ![f] = @ \/ how]

-----------------------------------------------------------------------------
(* apply_edit and remove (remove is the edit with the empty text).         *)

Resolve(c) ==
  /\ client[c].phase = "idle"
  /\ \E f \in Files : \E r \in index[f], text \in Texts, ack \in BOOLEAN :
       Become(c, [Idle EXCEPT !.phase = "resolved", !.file = f, !.rec = r,
                              !.text = text, !.ack = ack])
  /\ StartOne
  /\ UNCHANGED <<disk, index, authored, exposed>>

\* read_source, then the round trip in memory: a refusal writes nothing.
ReadAndVerify(c) ==
  LET me == client[c]
  IN  /\ me.phase = "resolved"
      /\ \E s \in Views(me.file) :
           IF ApplyOk(s, me.rec, me.text, me.ack)
           THEN Become(c, [me EXCEPT !.phase = "ready", !.src = s,
                                     !.new = Splice(s, me.rec, me.text)])
           ELSE Become(c, Idle)
      /\ Expose(me.file, WindowOpen(me.file))
      /\ UNCHANGED <<disk, index, started, authored>>

-----------------------------------------------------------------------------
(* strip: the walk takes the files one by one.                             *)

StartStrip(c) ==
  /\ client[c].phase = "idle"
  /\ \E policy \in Policies, dry \in BOOLEAN :
       Become(c, [Idle EXCEPT !.phase = "walking", !.op = "strip",
                              !.policy = policy, !.dry = dry, !.todo = Files,
                              !.ack = policy.significant])
  /\ StartOne
  /\ UNCHANGED <<disk, index, authored, exposed>>

NextFile(me) == IF me.todo = {} THEN Idle
                ELSE [me EXCEPT !.phase = "walking", !.src = <<>>, !.new = <<>>,
                                !.targets = {}, !.points = {}]

TidyIfAsked(policy, src, points) == IF policy.tidy THEN Tidy(src, points) ELSE src

\* Read, extract, coalesce, partition by protection, and try the whole batch.
StripFile(c) ==
  LET me == client[c]
  IN  /\ me.phase = "walking"
      /\ \E f \in me.todo : \E s \in Views(f) :
           LET targets == Targets(s, me.policy)
               took == [me EXCEPT !.file = f, !.todo = @ \ {f}, !.src = s]
           IN  /\ Expose(f, WindowOpen(f))
               /\ CASE targets = {} -> Become(c, NextFile(took))
                    [] targets # {} /\ BatchOk(s, targets) ->
                         Become(c, [took EXCEPT
                           !.phase = "ready",
                           !.new = TidyIfAsked(me.policy, BatchText(s, targets),
                                               PointsOf(targets))])
                    [] OTHER ->
                         Become(c, [took EXCEPT !.phase = "isolating", !.new = s,
                                                !.targets = targets])
      /\ UNCHANGED <<disk, index, started, authored>>

\* A file that cannot be read or parsed is reported and passed over.
SkipFile(c) ==
  LET me == client[c]
  IN  /\ me.phase = "walking"
      /\ \E f \in me.todo : Become(c, NextFile([me EXCEPT !.file = f, !.todo = @ \ {f}]))
      /\ UNCHANGED <<disk, index, started, authored, exposed>>

\* A removal site above r slides down by r's span (a saturating subtraction).
SlideDown(p, r) == IF p + r.first > r.last THEN p + r.first - (r.last + 1) ELSE 0

\* Mutant of IsolateOne: the removals go from the top of the file down.
IsolateLowestFirst(c) ==
  LET me == client[c]
  IN  /\ me.phase = "isolating"
      /\ \E r \in me.targets :
           /\ \A other \in me.targets : r.first <= other.first
           /\ Become(c,
                IF ApplyOk(me.new, r, <<>>, me.policy.significant)
                THEN [me EXCEPT !.new = Splice(@, r, <<>>),
                                !.targets = @ \ {r},
                                !.points = @ \cup {r.first - 1}]
                ELSE [me EXCEPT !.targets = @ \ {r}])
      /\ UNCHANGED <<disk, index, started, authored, exposed>>

\* remove_one_by_one, highest first; a refused comment is only recorded.
IsolateOne(c) ==
  LET me == client[c]
  IN  /\ me.phase = "isolating"
      /\ \E r \in me.targets :
           /\ \A other \in me.targets : other.first <= r.first
           /\ Become(c,
                IF ApplyOk(me.new, r, <<>>, me.policy.significant)
                THEN [me EXCEPT
                        !.new = Splice(@, r, <<>>),
                        !.targets = @ \ {r},
                        !.points = {SlideDown(p, r) : p \in @} \cup {r.first - 1}]
                ELSE [me EXCEPT !.targets = @ \ {r}])
      /\ UNCHANGED <<disk, index, started, authored, exposed>>

IsolateDone(c) ==
  LET me == client[c]
  IN  /\ me.phase = "isolating"
      /\ me.targets = {}
      /\ Become(c, IF me.points = {} THEN NextFile(me)
                   ELSE [me EXCEPT !.phase = "ready",
                                   !.new = TidyIfAsked(me.policy, @, me.points)])
      /\ UNCHANGED <<disk, index, started, authored, exposed>>

\* A dry run computes the plan and goes on without writing.
SkipWrite(c) ==
  /\ client[c].phase = "ready" /\ client[c].dry
  /\ Become(c, NextFile(client[c]))
  /\ UNCHANGED <<disk, index, started, authored, exposed>>

-----------------------------------------------------------------------------
(* fs::write: open with truncation, then fill from the start.              *)

Truncate(c) ==
  LET me == client[c]
  IN  /\ me.phase = "ready" /\ ~me.dry
      /\ disk' = [disk EXCEPT ![me.file] = <<>>]
      /\ Become(c, [me EXCEPT !.phase = "writing"])
      /\ Expose(me.file, WindowOpen(me.file))
      /\ UNCHANGED <<index, started, authored>>

\* The fill overwrites from offset 0; what another writer put beyond its end stays.
Fill(c) ==
  LET me == client[c]
      f == me.file
  IN  /\ me.phase = "writing"
      /\ disk' = [disk EXCEPT ![f] = Overlay(@, me.new, Len(me.new))]
      /\ Become(c, NextFile(me))
      /\ UNCHANGED <<index, started, authored, exposed>>

\* The process dies, or the disk is full, somewhere in the fill.
Tear(c) ==
  LET me == client[c]
      f == me.file
  IN  /\ me.phase = "writing"
      /\ \E k \in 0..Len(me.new) : disk' = [disk EXCEPT ![f] = Overlay(@, me.new, k)]
      /\ Become(c, Idle)
      /\ Expose(f, TRUE)
      /\ UNCHANGED <<index, started, authored>>

\* An error (a failed open, a re-check that does not parse) or a killed process.
Abandon(c) ==
  /\ client[c].phase \notin {"idle", "writing"}
  /\ Become(c, Idle)
  /\ UNCHANGED <<disk, index, started, authored, exposed>>

-----------------------------------------------------------------------------
(* The rest of the world.                                                  *)

\* check reads the file and persists fresh rows for it.
Check(f) ==
  /\ \E s \in Views(f) : index' = [index EXCEPT ![f] = Extract(s)]
  /\ UNCHANGED <<disk, client, started, authored, exposed>>

\* An editor's save; what it replaced, torn or not, is gone.
AuthorSave(f) ==
  /\ \E s \in AuthorVersions[f] :
       /\ disk' = [disk EXCEPT ![f] = s]
       /\ authored' = [authored EXCEPT ![f] = AuthorCode(s)]
  /\ exposed' = [exposed EXCEPT ![f] = Holding(f)]
  /\ UNCHANGED <<index, client, started>>

Init ==
  /\ disk \in {d \in [Files -> UNION {AuthorVersions[f] : f \in Files}] :
                \A f \in Files : d[f] \in AuthorVersions[f]}
  /\ index = [f \in Files |-> Extract(disk[f])]
  /\ authored = [f \in Files |-> AuthorCode(disk[f])]
  /\ client = [c \in Clients |-> Idle]
  /\ exposed = [f \in Files |-> FALSE]
  /\ started = 0

EditStep(c) == Resolve(c) \/ ReadAndVerify(c)

StripStep(c) ==
  \/ StartStrip(c) \/ StripFile(c) \/ SkipFile(c)
  \/ IsolateOne(c) \/ IsolateDone(c) \/ SkipWrite(c)

WriteStep(c) == Truncate(c) \/ Fill(c) \/ Tear(c) \/ Abandon(c)

World == \E f \in Files : Check(f) \/ AuthorSave(f)

Next == (\E c \in Clients : EditStep(c) \/ StripStep(c) \/ WriteStep(c)) \/ World

Spec == Init /\ [][Next]_vars

\* The part of the system in which only strip passes write.
StripNext == (\E c \in Clients : StripStep(c) \/ WriteStep(c)) \/ World

StripSpec == Init /\ [][StripNext]_vars

-----------------------------------------------------------------------------
(* Properties.                                                             *)

ClientState ==
  [phase : Phase, op : {"edit", "strip"}, file : Files, rec : Record, text : Text,
   ack : BOOLEAN, policy : Policy, dry : BOOLEAN, todo : SUBSET Files, src : Text, new : Text,
   targets : SUBSET Record, points : SUBSET Nat]

\* Every variable has its type: ranges are never empty, and whatever is on disk
\* or in a client's memory is a text.
TypeOK ==
  /\ disk \in [Files -> Text]
  /\ index \in [Files -> SUBSET Record]
  /\ client \in [Clients -> ClientState]
  /\ started \in 0..MaxOps
  /\ DOMAIN authored = Files
  /\ exposed \in [Files -> BOOLEAN]

\* Parse-invariance end to end: whatever clients interleave, from however stale
\* an index, a file holds the code its author last saved, unless a write of it
\* was overlapped or torn, or the author saved inside a client's window.
CodeKept ==
  \A f \in Files : ~exposed[f] /\ ~WindowOpen(f) => AuthorCode(disk[f]) = authored[f]

\* A pending rewrite that nobody acknowledged as significant.
Unacked(me) == me.phase \in {"ready", "writing"} /\ ~me.ack

\* The record the rewrite was planned from describes the source it is applied to.
Current(me) == me.op = "strip" \/ me.rec \in Extract(me.src)

\* Write-protection for deletions: removing a comment the index still describes,
\* or stripping, takes no behavior-bearing comment out of effect, neither by
\* deleting it nor by moving or swallowing it.
RemovalKeepsBearing ==
  \A c \in Clients :
    LET me == client[c]
    IN  Unacked(me) /\ Current(me) /\ me.text = <<>> => Bearing(me.src) \subseteq Bearing(me.new)

\* Write-protection as documented: no write without an acknowledgment takes a
\* behavior-bearing comment out of effect, whatever the index says.
UnackedKeepsBearing ==
  \A c \in Clients : Unacked(client[c]) => Bearing(client[c].src) \subseteq Bearing(client[c].new)

\* How often the note n stands at one of the positions P of src.
Times(n, src, P) == Cardinality({i \in (1..Len(src)) \cap P : src[i] = n})

AtomsOf(src) == {src[i] : i \in 1..Len(src)}

Planned(me) == me.op = "strip" /\ me.phase \in {"ready", "writing"}

\* A strip pass takes only what its policy gives up: every comment protected when
\* the file was read is still there, by the batch and by the one-by-one path.
StripKeepsProtected ==
  \A c \in Clients :
    LET me == client[c]
        kept == {r \in Extract(me.src) : Protection(me.policy, r.kind)}
    IN  Planned(me) =>
          \A n \in Note : Times(n, me.src, Covered(kept)) <= Times(n, me.new, Nat)

\* A strip pass is complete: of the comments its policy gives up, only a Python
\* suite's only statement survives, since the applier refuses to empty a suite.
StripTakesTheRest ==
  \A c \in Clients :
    LET me == client[c]
        spared == (1..Len(me.src)) \ Covered(Targets(me.src, me.policy))
    IN  Planned(me) =>
          \A n \in Note :
            \/ Times(n, me.new, Nat) <= Times(n, me.src, spared)
            \/ \E h \in DOMAIN Suite :
                 n \in Suite[h] /\ Suite[h] \cap AtomsOf(me.new) = {n}
=============================================================================
