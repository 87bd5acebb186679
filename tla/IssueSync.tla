------------------------------ MODULE IssueSync ------------------------------
(***************************************************************************)
(* `issues sync --apply`: marker comments are filed in a tracker, and the  *)
(* comments whose issues are closed are removed from the source.  A file   *)
(* committed beside the config, the ledger, maps each identity token       *)
(* (symbol, kind, marker) to the issue filed for it.                       *)
(*                                                                         *)
(* One sync scans the tree, loads the ledger, files what is not in it,     *)
(* asks the tracker about the rest, rewrites the files one by one, and     *)
(* saves the ledger last.  Any error on the way ends it before that save.  *)
(* Syncs may overlap, authors edit meanwhile, and issues are closed,       *)
(* reopened and deleted in the tracker.  A dry run changes nothing and is  *)
(* left out.                                                               *)
(***************************************************************************)
EXTENDS Naturals, Sequences, FiniteSets

CONSTANTS
  Comments,  \* marker comments, by where they stand
  Files,     \* source files
  FileOf,    \* [Comments -> Files]
  Tokens,    \* identity tokens
  Visits,    \* the (comment, token) pairs there can be, in the order of a scan
  Unsafe,    \* comments the applier always refuses to remove
  Runners,   \* processes that run sync
  MaxEvents  \* bound on author edits, tracker changes, failures and kills

ASSUME IssueAssumption ==
  /\ FileOf \in [Comments -> Files]
  /\ Visits \in Seq(Comments \X Tokens)
  /\ Unsafe \subseteq Comments /\ Files # {}
  /\ MaxEvents \in Nat

VARIABLES
  marks,   \* [Comments -> SUBSET Tokens], what is in the source; {} when gone
  tracker, \* the issues ever filed, by id
  ledger,  \* [Tokens -> Nat], the last ledger saved whole; 0 for no entry
  torn,    \* whether the ledger file is cut off, and does not parse
  runner,  \* [Runners -> what a sync holds in memory]
  events,  \* what the environment has done so far, up to MaxEvents
  mishap   \* ghost: a sync that had filed an issue ended before its save, or
           \* a create took effect without an answer, or two syncs overlapped

vars == <<marks, tracker, ledger, torn, runner, events, mishap>>

Issue == [token : Tokens, status : {"open", "closed", "gone"}, wasClosed : BOOLEAN]

Phase == {"idle", "scanned", "syncing", "writing", "saving"}

NoLedger == [t \in Tokens |-> 0]

Unmarked == [c \in Comments |-> {}]

\* idle -> scanned -> syncing [-> writing -> syncing ...] [-> saving] -> idle.  While syncing,
\* todo is visited first, then ask is answered, then files are rewritten.
Idle == [phase |-> "idle", fresh |-> {}, ledger |-> NoLedger, todo |-> {},
         filed |-> {}, tracked |-> {}, ask |-> {}, closed |-> {}, files |-> {},
         file |-> CHOOSE f \in Files : TRUE, held |-> Unmarked, gone |-> {},
         resolved |-> {}]

Become(r, v) == runner' = [runner EXCEPT ![r] = v]

Event == events < MaxEvents /\ events' = events + 1

In(f) == {c \in Comments : FileOf[c] = f}

\* What can stand in the comment c.
MarksOf(c) == SUBSET {t \in Tokens : \E i \in 1..Len(Visits) : Visits[i] = <<c, t>>}

-----------------------------------------------------------------------------
(* Forward: file what the ledger does not know.                            *)

Alone == \A r \in Runners : runner[r].phase = "idle"

\* check: the comments of the tree, with their byte ranges.  Starting while
\* another sync runs is one of the events the bound counts.
Scan(r) ==
  /\ runner[r].phase = "idle"
  /\ Become(r, [Idle EXCEPT
       !.phase = "scanned", !.fresh = Files, !.files = Files,
       !.todo = {i \in 1..Len(Visits) : Visits[i][2] \in marks[Visits[i][1]]}])
  /\ IF Alone THEN UNCHANGED <<events, mishap>> ELSE Event /\ mishap' = TRUE
  /\ UNCHANGED <<marks, tracker, ledger, torn>>

\* A ledger that does not parse ends the sync.
LoadLedger(r) ==
  /\ runner[r].phase = "scanned"
  /\ Become(r, IF torn THEN Idle
               ELSE [runner[r] EXCEPT !.phase = "syncing", !.ledger = ledger])
  /\ UNCHANGED <<marks, tracker, ledger, torn, events, mishap>>

\* i is the next pair of the scan.
NextVisit(me, i) ==
  me.phase = "syncing" /\ i \in me.todo /\ \A j \in me.todo : i <= j

\* Mutant of Track: the candidate is noted, but nobody asks about its issue.
TrackUnasked(r) ==
  LET me == runner[r]
  IN  /\ \E i \in me.todo :
           /\ NextVisit(me, i) /\ me.ledger[Visits[i][2]] # 0
           /\ Become(r, [me EXCEPT !.todo = @ \ {i}, !.tracked = @ \cup {Visits[i]}])
      /\ UNCHANGED <<marks, tracker, ledger, torn, events, mishap>>

\* A token the ledger in memory knows is a candidate for removal.
Track(r) ==
  LET me == runner[r]
  IN  /\ \E i \in me.todo :
           /\ NextVisit(me, i) /\ me.ledger[Visits[i][2]] # 0
           /\ Become(r, [me EXCEPT !.todo = @ \ {i}, !.tracked = @ \cup {Visits[i]},
                                   !.ask = @ \cup {Visits[i][2]}])
      /\ UNCHANGED <<marks, tracker, ledger, torn, events, mishap>>

NewIssue(t) == Append(tracker, [token |-> t, status |-> "open", wasClosed |-> FALSE])

\* Mutant of FileIssue: the issue is recorded under the id of the one before.
FileUnderOldId(r) ==
  LET me == runner[r]
  IN  /\ \E i \in me.todo :
           LET t == Visits[i][2]
           IN  /\ NextVisit(me, i) /\ me.ledger[t] = 0
               /\ tracker' = NewIssue(t)
               /\ Become(r, [me EXCEPT !.todo = @ \ {i}, !.filed = @ \cup {Visits[i]},
                                       !.ledger[t] = Len(tracker)])
      /\ UNCHANGED <<marks, ledger, torn, events, mishap>>

FileIssue(r) ==
  LET me == runner[r]
  IN  /\ \E i \in me.todo :
           LET t == Visits[i][2]
           IN  /\ NextVisit(me, i) /\ me.ledger[t] = 0
               /\ tracker' = NewIssue(t)
               /\ Become(r, [me EXCEPT !.todo = @ \ {i}, !.filed = @ \cup {Visits[i]},
                                       !.ledger[t] = Len(tracker')])
      /\ UNCHANGED <<marks, ledger, torn, events, mishap>>

\* The create fails after the tracker has filed the issue: the sync ends.
LoseAnswer(r) ==
  LET me == runner[r]
  IN  /\ \E i \in me.todo :
           LET t == Visits[i][2]
           IN  NextVisit(me, i) /\ me.ledger[t] = 0 /\ tracker' = NewIssue(t)
      /\ Become(r, Idle)
      /\ mishap' = TRUE
      /\ Event
      /\ UNCHANGED <<marks, ledger, torn>>

-----------------------------------------------------------------------------
(* Reverse: remove the comments whose issues are closed.                   *)

TokensTracked(me, c) == {t \in Tokens : <<c, t>> \in me.tracked}

IsClosed(issue) == issue.status = "closed"

\* One lookup per issue, cached for the rest of the sync; only a positive
\* answer counts as closed.
Ask(r) ==
  LET me == runner[r]
  IN  /\ me.phase = "syncing" /\ me.todo = {}
      /\ \E t \in me.ask :
           \/ /\ Become(r, [me EXCEPT
                   !.ask = @ \ {t},
                   !.closed = IF IsClosed(tracker[me.ledger[t]])
                              THEN @ \cup {t} ELSE @])
              /\ UNCHANGED events
           \/ /\ Become(r, [me EXCEPT !.ask = @ \ {t}])
              /\ Event
      /\ UNCHANGED <<marks, tracker, ledger, torn, mishap>>

\* Mutant of Resolved: any closed issue resolves the comment.
ResolvedByAny(me) == {c \in Comments : TokensTracked(me, c) \cap me.closed # {}}

\* A comment is resolved when every one of its tracked issues is closed.
Resolved(me) ==
  {c \in Comments : /\ TokensTracked(me, c) # {}
                    /\ TokensTracked(me, c) \subseteq me.closed}

\* Files the sync still has to rewrite.
Left(me) == {f \in me.files : Resolved(me) \cap In(f) # {}}

Asked(me) == me.phase = "syncing" /\ me.todo = {} /\ me.ask = {}

\* What removing the comments in want from f can come to: those reported removed
\* and those really gone.  The ranges are the scan's: if f has changed since, a
\* removal may be refused or take something else.
Outcomes(me, f, want) ==
  IF f \in me.fresh
  THEN {<<want \ Unsafe, want \ Unsafe>>}
  ELSE {o \in (SUBSET want) \X (SUBSET In(f)) : Cardinality(o[2]) <= Cardinality(o[1])}

\* Read the file again and splice the resolved comments out, high to low.
EditFile(r) ==
  LET me == runner[r]
  IN  /\ Asked(me)
      /\ \E f \in Left(me) : \E o \in Outcomes(me, f, Resolved(me) \cap In(f)) :
           Become(r, IF o[1] = {}
                     THEN [me EXCEPT !.files = @ \ {f}]
                     ELSE [me EXCEPT !.phase = "writing", !.file = f, !.files = @ \ {f},
                                     !.held = [c \in Comments |-> IF c \in In(f) \ o[2]
                                                                  THEN marks[c] ELSE {}],
                                     !.gone = o[1]])
      /\ UNCHANGED <<marks, tracker, ledger, torn, events, mishap>>

\* A file that cannot be read is reported and passed over.
SkipFile(r) ==
  /\ Asked(runner[r])
  /\ \E f \in Left(runner[r]) : Become(r, [runner[r] EXCEPT !.files = @ \ {f}])
  /\ Event
  /\ UNCHANGED <<marks, tracker, ledger, torn, mishap>>

\* The source of f changes under every sync that has scanned it.
Outdate(f, v) ==
  runner' = [q \in Runners |-> [v[q] EXCEPT !.fresh = @ \ {f}]]

WriteFile(r) ==
  LET me == runner[r]
      tokens == UNION {TokensTracked(me, c) : c \in me.gone}
  IN  /\ me.phase = "writing"
      /\ marks' = [c \in Comments |-> IF c \in In(me.file) THEN me.held[c] ELSE marks[c]]
      /\ Outdate(me.file,
           [runner EXCEPT ![r] = [me EXCEPT !.phase = "syncing", !.gone = {},
                                            !.held = Unmarked,
                                            !.resolved = @ \cup tokens]])
      /\ UNCHANGED <<tracker, ledger, torn, events, mishap>>

SavedLedger(me) == [t \in Tokens |-> IF t \in me.resolved THEN 0 ELSE me.ledger[t]]

\* Mutant of LedgerChanged: what was filed does not make the ledger worth saving.
OnlyResolved(me) == me.resolved # {}

LedgerChanged(me) == me.filed # {} \/ me.resolved # {}

\* The sync's last step, when there is something to save: the file is truncated
\* and then filled.
SaveLedger(r) ==
  LET me == runner[r]
  IN  /\ Asked(me) /\ Left(me) = {}
      /\ torn' = (torn \/ LedgerChanged(me))
      /\ Become(r, IF LedgerChanged(me) THEN [me EXCEPT !.phase = "saving"] ELSE Idle)
      /\ UNCHANGED <<marks, tracker, ledger, events, mishap>>

FillLedger(r) ==
  /\ runner[r].phase = "saving"
  /\ ledger' = SavedLedger(runner[r])
  /\ torn' = FALSE
  /\ Become(r, Idle)
  /\ UNCHANGED <<marks, tracker, events, mishap>>

\* An error (a failed create, write or save) or a killed process.  One that is
\* saving leaves the file cut off.
Stop(r) ==
  /\ runner[r].phase # "idle"
  /\ Become(r, Idle)
  /\ mishap' = (mishap \/ runner[r].filed # {})
  /\ Event
  /\ UNCHANGED <<marks, tracker, ledger, torn>>

-----------------------------------------------------------------------------
(* Authors and the tracker.                                                *)

\* An author writes, rewords or deletes a comment, or edits elsewhere in its file.
AuthorEdit(c) ==
  /\ \E m \in MarksOf(c) : marks' = [marks EXCEPT ![c] = m]
  /\ Outdate(FileOf[c], runner)
  /\ Event
  /\ UNCHANGED <<tracker, ledger, torn, mishap>>

TrackerTurn(i) ==
  /\ tracker[i].status # "gone"
  /\ \E s \in {"open", "closed", "gone"} \ {tracker[i].status} :
       tracker' = [tracker EXCEPT ![i].status = s,
                                  ![i].wasClosed = @ \/ s = "closed"]
  /\ Event
  /\ UNCHANGED <<marks, ledger, torn, runner, mishap>>

\* Somebody restores the committed ledger, or deletes the file.
Restore ==
  /\ torn /\ torn' = FALSE
  /\ \E l \in {ledger, NoLedger} : ledger' = l /\ mishap' = (mishap \/ l # ledger)
  /\ Event
  /\ UNCHANGED <<marks, tracker, runner>>

Init ==
  /\ marks \in {m \in [Comments -> SUBSET Tokens] : \A c \in Comments : m[c] \in MarksOf(c)}
  /\ tracker = <<>>
  /\ ledger = NoLedger
  /\ torn = FALSE
  /\ runner = [r \in Runners |-> Idle]
  /\ events = 0
  /\ mishap = FALSE

Forward(r) == Scan(r) \/ LoadLedger(r) \/ Track(r) \/ FileIssue(r)

Reverse(r) == Ask(r) \/ EditFile(r) \/ WriteFile(r) \/ SaveLedger(r) \/ FillLedger(r)

Fail(r) == LoseAnswer(r) \/ SkipFile(r) \/ Stop(r)

World ==
  \/ \E c \in Comments : AuthorEdit(c)
  \/ \E i \in 1..Len(tracker) : TrackerTurn(i)
  \/ Restore

Next == (\E r \in Runners : Forward(r) \/ Reverse(r) \/ Fail(r)) \/ World

\* Whoever runs sync keeps running it, as a CI job does; the environment is free
\* to stop.
Fairness == \A r \in Runners : WF_vars(Forward(r) \/ Reverse(r))

Spec == Init /\ [][Next]_vars

FairSpec == Spec /\ Fairness

-----------------------------------------------------------------------------
(* Properties.                                                             *)

RunnerState ==
  [phase : Phase, fresh : SUBSET Files, ledger : [Tokens -> Nat],
   todo : SUBSET (1..Len(Visits)), filed : SUBSET (Comments \X Tokens),
   tracked : SUBSET (Comments \X Tokens), ask : SUBSET Tokens,
   closed : SUBSET Tokens, files : SUBSET Files, file : Files,
   held : [Comments -> SUBSET Tokens], gone : SUBSET Comments,
   resolved : SUBSET Tokens]

\* Every variable has its type, and a ledger entry names an issue filed for that
\* very token.
TypeOK ==
  /\ marks \in [Comments -> SUBSET Tokens]
  /\ tracker \in Seq(Issue)
  /\ ledger \in [Tokens -> Nat] /\ torn \in BOOLEAN
  /\ runner \in [Runners -> RunnerState]
  /\ events \in 0..MaxEvents
  /\ mishap \in BOOLEAN
  /\ \A t \in Tokens : ledger[t] # 0 => ledger[t] <= Len(tracker) /\ tracker[ledger[t]].token = t

\* Filing is idempotent while syncs end well and one at a time: an issue is
\* filed again for a token only if the earlier one has been closed.
RefiledOnlyAfterClosed ==
  ~mishap => \A i, j \in 1..Len(tracker) :
               i < j /\ tracker[i].token = tracker[j].token => tracker[i].wasClosed

\* A comment is given up only when each of its issues that the ledger knew has
\* been closed, whatever authors, the tracker and other syncs do meanwhile.
GivenUpOnlyWhenClosed ==
  \A r \in Runners :
    LET me == runner[r]
    IN  \A c \in me.gone : \A t \in TokensTracked(me, c) :
          tracker[me.ledger[t]].wasClosed

\* As documented: a comment is removed only when every one of its issues is
\* closed, the ones this sync has just filed included.
LiveWorkKept ==
  \A r \in Runners :
    LET me == runner[r]
    IN  \A p \in me.tracked \cup me.filed :
          p[1] \in me.gone => tracker[me.ledger[p[2]]].wasClosed

\* As documented: re-running never double-files.
NeverDoubleFiles ==
  \A i, j \in 1..Len(tracker) :
    i # j /\ tracker[i].token = tracker[j].token
      => tracker[i].status # "open" \/ tracker[j].status # "open"

\* What repeated syncs should come to: every marker has an issue, and a comment
\* whose issues are all closed is gone unless removing it is unsafe.
Settled ==
  \A c \in Comments :
    /\ \A t \in marks[c] : ledger[t] # 0
    /\ marks[c] # {} /\ (\A t \in marks[c] : tracker[ledger[t]].status = "closed")
         => c \in Unsafe

\* Once authors, the tracker and failures come to rest, syncs converge, unless a
\* killed one left the ledger cut off and nobody restores it.
Converges == <>[]~torn => <>[]Settled
=============================================================================
