--------------------------- MODULE IssueSyncProofs ---------------------------
(***************************************************************************)
(* Proofs about IssueSync, for any comments, tokens and files, any number  *)
(* of syncs that overlap in any way, and any failures.                     *)
(***************************************************************************)
EXTENDS IssueSync, TLAPS

-----------------------------------------------------------------------------
(* The inductive invariant                                                  *)

\* Each entry of a ledger is the number of an issue filed for its token.
Names(l, issues) ==
  \A t \in Tokens : l[t] # 0 => l[t] <= Len(issues) /\ issues[l[t]].token = t

\* What a sync holds in memory: it asks only about issues it knows, what it
\* takes for closed was closed, and it gives up nothing else.
Held(me, issues) ==
  /\ Names(me.ledger, issues)
  /\ \A t \in me.ask \cup me.closed : me.ledger[t] # 0
  /\ \A t \in me.closed : issues[me.ledger[t]].wasClosed
  /\ me.phase \in {"idle", "scanned"} => me.ask = {} /\ me.closed = {} /\ me.filed = {}
  /\ me.phase # "writing" => me.gone = {}
  /\ \A p \in me.tracked : p[1] \in me.gone => p[2] \in me.closed
  /\ me.resolved \subseteq me.closed

Closing(issues) ==
  \A i \in 1..Len(issues) : issues[i].status = "closed" => issues[i].wasClosed

Sound ==
  /\ TypeOK
  /\ Closing(tracker)
  /\ \A r \in Runners : Held(runner[r], tracker)

\* A ledger knows the last issue of each token that may still be open.
Covers(l, issues) ==
  \A i \in 1..Len(issues) :
    IF l[issues[i].token] = 0 THEN issues[i].wasClosed ELSE i <= l[issues[i].token]

Refiled(issues) ==
  \A i, j \in 1..Len(issues) :
    i < j /\ issues[i].token = issues[j].token => issues[i].wasClosed

Loaded == {"syncing", "writing", "saving"}

OneAtATime == \A r, q \in Runners : runner[r].phase # "idle" /\ runner[q].phase # "idle" => r = q

\* While syncs end well and one at a time: the ledger a sync works with covers
\* the tracker, and so does the saved one unless a sync has filed since.
Orderly ==
  ~mishap =>
    /\ OneAtATime
    /\ Refiled(tracker)
    /\ \A r \in Runners : runner[r].phase \in Loaded => Covers(runner[r].ledger, tracker)
    /\ (\A r \in Runners : runner[r].filed = {}) => Covers(ledger, tracker)

-----------------------------------------------------------------------------
(* The tracker                                                              *)

\* The tracker only grows: issues keep their tokens, and a closed one stays one
\* that has been closed.
Grows(old, new) ==
  /\ Len(old) <= Len(new)
  /\ \A i \in 1..Len(old) : /\ new[i].token = old[i].token
                            /\ old[i].wasClosed => new[i].wasClosed

LEMMA NewIssueGrows ==
  ASSUME TypeOK, NEW t \in Tokens
  PROVE  /\ NewIssue(t) \in Seq(Issue) /\ Len(NewIssue(t)) = Len(tracker) + 1
         /\ NewIssue(t)[Len(tracker) + 1] = [token |-> t, status |-> "open", wasClosed |-> FALSE]
         /\ \A i \in 1..Len(tracker) : NewIssue(t)[i] = tracker[i]
         /\ Grows(tracker, NewIssue(t))
         /\ Closing(tracker) => Closing(NewIssue(t))
  <1> DEFINE issue == [token |-> t, status |-> "open", wasClosed |-> FALSE]
  <1>1. tracker \in Seq(Issue) /\ issue \in Issue
    BY DEF TypeOK, Issue
  <1>2. /\ NewIssue(t) \in Seq(Issue) /\ Len(NewIssue(t)) = Len(tracker) + 1
        /\ NewIssue(t)[Len(tracker) + 1] = issue
        /\ \A i \in 1..Len(tracker) : NewIssue(t)[i] = tracker[i]
    BY <1>1 DEF NewIssue
  <1>3. Len(tracker) \in Nat
    BY <1>1
  <1>4. Grows(tracker, NewIssue(t))
    BY <1>2, <1>3 DEF Grows
  <1>5. Closing(tracker) => Closing(NewIssue(t))
    BY <1>2, <1>3 DEF Closing
  <1>6. QED
    BY <1>2, <1>4, <1>5

\* A sequence with one element replaced.
LEMMA ReplaceOne ==
  ASSUME NEW S, NEW q \in Seq(S), NEW k \in 1..Len(q), NEW v \in S
  PROVE  LET p == [q EXCEPT ![k] = v] IN
           /\ p \in Seq(S) /\ Len(p) = Len(q)
           /\ p[k] = v /\ \A i \in 1..Len(q) : i # k => p[i] = q[i]
  OBVIOUS

\* An issue as it is after a turn.
LEMMA TurnGrows ==
  ASSUME TypeOK, NEW i \in 1..Len(tracker), NEW s \in {"open", "closed", "gone"},
         tracker' = [tracker EXCEPT ![i].status = s, ![i].wasClosed = @ \/ s = "closed"]
  PROVE  /\ tracker' \in Seq(Issue) /\ Len(tracker') = Len(tracker) /\ Grows(tracker, tracker')
         /\ Closing(tracker) => Closing(tracker')
  <1> DEFINE issue == [tracker[i] EXCEPT !.status = s, !.wasClosed = @ \/ s = "closed"]
  <1>1. tracker \in Seq(Issue) /\ tracker[i] \in Issue /\ Len(tracker) \in Nat
    BY DEF TypeOK
  <1>2. issue \in Issue /\ issue.token = tracker[i].token /\ issue.status = s
        /\ issue.wasClosed = (tracker[i].wasClosed \/ s = "closed")
    BY <1>1 DEF Issue
  <1>3. tracker' = [tracker EXCEPT ![i] = issue]
    BY <1>1 DEF Issue
  <1> HIDE DEF issue
  <1>4. /\ tracker' \in Seq(Issue) /\ Len(tracker') = Len(tracker)
        /\ tracker'[i] = issue /\ \A j \in 1..Len(tracker) : j # i => tracker'[j] = tracker[j]
    <2>1. LET p == [tracker EXCEPT ![i] = issue] IN
            /\ p \in Seq(Issue) /\ Len(p) = Len(tracker)
            /\ p[i] = issue /\ \A j \in 1..Len(tracker) : j # i => p[j] = tracker[j]
      BY <1>1, <1>2, ReplaceOne
    <2>2. QED
      BY <1>3, <2>1
  <1>5. Grows(tracker, tracker')
    <2>1. \A j \in 1..Len(tracker) : /\ tracker'[j].token = tracker[j].token
                                    /\ tracker[j].wasClosed => tracker'[j].wasClosed
      <3> SUFFICES ASSUME NEW j \in 1..Len(tracker)
                   PROVE  /\ tracker'[j].token = tracker[j].token
                          /\ tracker[j].wasClosed => tracker'[j].wasClosed
        OBVIOUS
      <3>1. CASE j = i
        BY <1>2, <1>4, <3>1
      <3>2. CASE j # i
        BY <1>4, <3>2
      <3>3. QED
        BY <3>1, <3>2
    <2>2. QED
      BY <1>1, <1>4, <2>1 DEF Grows
  <1>6. Closing(tracker) => Closing(tracker')
    BY <1>1, <1>2, <1>4 DEF Closing
  <1>7. QED
    BY <1>4, <1>5, <1>6

\* What a sync holds stays true while the tracker grows.
LEMMA HeldGrows ==
  ASSUME NEW me \in RunnerState, NEW old \in Seq(Issue), NEW new \in Seq(Issue),
         Grows(old, new), Held(me, old)
  PROVE  Held(me, new)
  <1>1. Len(old) \in Nat /\ Len(new) \in Nat /\ me.ledger \in [Tokens -> Nat] /\ me.closed \subseteq Tokens
    BY DEF RunnerState
  <1>2. \A t \in Tokens : me.ledger[t] # 0 =>
          /\ me.ledger[t] \in 1..Len(old) /\ old[me.ledger[t]].token = t /\ me.ledger[t] <= Len(new)
          /\ new[me.ledger[t]].token = t
          /\ old[me.ledger[t]].wasClosed => new[me.ledger[t]].wasClosed
    BY <1>1 DEF Held, Names, Grows
  <1>3. QED
    BY <1>1, <1>2 DEF Held, Names

-----------------------------------------------------------------------------
(* Soundness                                                                *)

LEMMA IdleIsSound ==
  ASSUME NEW issues
  PROVE  Idle \in RunnerState /\ Held(Idle, issues)
  <1>1. (CHOOSE f \in Files : TRUE) \in Files
    BY IssueAssumption
  <1>2. Idle \in RunnerState
    BY <1>1 DEF Idle, RunnerState, Phase, NoLedger, Unmarked
  <1>3. Held(Idle, issues)
    BY DEF Held, Names, Idle, NoLedger
  <1>4. QED
    BY <1>2, <1>3

LEMMA EventType == ASSUME TypeOK, Event PROVE events' \in 0..MaxEvents
  BY IssueAssumption DEF TypeOK, Event

LEMMA SoundInit == Init => Sound
  <1> SUFFICES ASSUME Init PROVE Sound
    OBVIOUS
  <1>1. \A r \in Runners : runner[r] \in RunnerState /\ Held(runner[r], tracker)
    BY IdleIsSound DEF Init
  <1>2. tracker \in Seq(Issue) /\ Len(tracker) = 0
    BY DEF Init
  <1>3. TypeOK
    <2>1. marks \in [Comments -> SUBSET Tokens] /\ torn \in BOOLEAN /\ mishap \in BOOLEAN
      BY DEF Init
    <2>2. ledger \in [Tokens -> Nat] /\ \A t \in Tokens : ledger[t] = 0
      BY DEF Init, NoLedger
    <2>3. runner \in [Runners -> RunnerState]
      BY <1>1 DEF Init
    <2>4. events \in 0..MaxEvents
      BY IssueAssumption DEF Init
    <2>5. QED
      BY <1>2, <2>1, <2>2, <2>3, <2>4 DEF TypeOK
  <1>4. QED
    BY <1>1, <1>2, <1>3 DEF Sound, Closing

(* Steps of one sync that leave the source, the tracker and the saved ledger   *)
(* alone: it is enough to look at what that sync holds.                        *)
LEMMA RunnerStep ==
  ASSUME Sound, NEW r \in Runners, NEW v \in RunnerState, Become(r, v), Held(v, tracker),
         UNCHANGED <<marks, tracker, ledger>>, torn' \in BOOLEAN,
         events' \in 0..MaxEvents, mishap' \in BOOLEAN
  PROVE  Sound'
  <1>1. \A q \in Runners : runner'[q] = IF q = r THEN v ELSE runner[q]
    BY DEF Sound, TypeOK, Become
  <1>2. TypeOK'
    BY DEF Sound, TypeOK, Become
  <1>3. \A q \in Runners : Held(runner'[q], tracker')
    BY <1>1 DEF Sound
  <1>4. QED
    BY <1>2, <1>3 DEF Sound

LEMMA LessFresh ==
  ASSUME NEW me \in RunnerState, NEW f, NEW issues, Held(me, issues)
  PROVE  LET v == [me EXCEPT !.fresh = @ \ {f}] IN v \in RunnerState /\ Held(v, issues)
  <1> DEFINE v == [me EXCEPT !.fresh = @ \ {f}]
  <1>1. v \in RunnerState
    BY DEF RunnerState
  <1>2. Held(v, issues)
    BY DEF RunnerState, Held, Names
  <1>3. QED
    BY <1>1, <1>2

\* Where a file has changed, syncs only lose what they thought fresh.
LEMMA OutdateStep ==
  ASSUME Sound, NEW f \in Files, NEW v, v \in [Runners -> RunnerState],
         \A q \in Runners : Held(v[q], tracker),
         Outdate(f, v), marks' \in [Comments -> SUBSET Tokens],
         UNCHANGED <<tracker, ledger, torn, mishap>>, events' \in 0..MaxEvents
  PROVE  Sound'
  <1>1. \A q \in Runners : runner'[q] = [v[q] EXCEPT !.fresh = @ \ {f}]
    BY DEF Outdate
  <1>2. \A q \in Runners : runner'[q] \in RunnerState /\ Held(runner'[q], tracker')
    <2> SUFFICES ASSUME NEW q \in Runners
                 PROVE  runner'[q] \in RunnerState /\ Held(runner'[q], tracker')
      OBVIOUS
    <2>1. v[q] \in RunnerState /\ Held(v[q], tracker)
      OBVIOUS
    <2>2. runner'[q] = [v[q] EXCEPT !.fresh = @ \ {f}] /\ tracker' = tracker
      BY <1>1
    <2>3. QED
      BY <2>1, <2>2, LessFresh
  <1>3. runner' \in [Runners -> RunnerState]
    BY <1>2 DEF Outdate
  <1>4. TypeOK'
    BY <1>3 DEF Sound, TypeOK
  <1>5. QED
    BY <1>2, <1>4 DEF Sound

LEMMA ScanSound == ASSUME Sound, NEW r \in Runners, Scan(r) PROVE Sound'
  <1> DEFINE v == [Idle EXCEPT
               !.phase = "scanned", !.fresh = Files, !.files = Files,
               !.todo = {i \in 1..Len(Visits) : Visits[i][2] \in marks[Visits[i][1]]}]
  <1>1. Idle \in RunnerState /\ Held(Idle, tracker)
    BY IdleIsSound
  <1>2. v \in RunnerState
    BY <1>1 DEF RunnerState, Phase
  <1>3. Held(v, tracker)
    BY <1>1 DEF RunnerState, Held, Names, Idle
  <1>4. events' \in 0..MaxEvents /\ mishap' \in BOOLEAN
    BY EventType DEF Scan, Sound, TypeOK
  <1>5. Become(r, v) /\ UNCHANGED <<marks, tracker, ledger>> /\ torn' \in BOOLEAN
    BY DEF Scan, Sound, TypeOK
  <1> HIDE DEF v
  <1>6. QED
    BY <1>2, <1>3, <1>4, <1>5, RunnerStep

LEMMA LoadLedgerSound == ASSUME Sound, NEW r \in Runners, LoadLedger(r) PROVE Sound'
  <1> DEFINE v == IF torn THEN Idle ELSE [runner[r] EXCEPT !.phase = "syncing", !.ledger = ledger]
  <1>1. Idle \in RunnerState /\ Held(Idle, tracker)
    BY IdleIsSound
  <1>2. runner[r] \in RunnerState /\ Held(runner[r], tracker) /\ runner[r].phase = "scanned"
    BY DEF LoadLedger, Sound, TypeOK
  <1>3. ledger \in [Tokens -> Nat] /\ Names(ledger, tracker)
    BY DEF Sound, TypeOK, Names
  <1>4. v \in RunnerState
    BY <1>1, <1>2, <1>3 DEF RunnerState, Phase
  <1>5. Held(v, tracker)
    BY <1>1, <1>2, <1>3 DEF RunnerState, Held, Names
  <1>6. Become(r, v) /\ UNCHANGED <<marks, tracker, ledger, torn, events, mishap>>
    BY DEF LoadLedger
  <1> HIDE DEF v
  <1>7. QED
    BY <1>4, <1>5, <1>6, RunnerStep DEF Sound, TypeOK

LEMMA TrackSound == ASSUME Sound, NEW r \in Runners, Track(r) PROVE Sound'
  <1>1. PICK i \in runner[r].todo :
          /\ NextVisit(runner[r], i) /\ runner[r].ledger[Visits[i][2]] # 0
          /\ Become(r, [runner[r] EXCEPT !.todo = @ \ {i}, !.tracked = @ \cup {Visits[i]},
                                        !.ask = @ \cup {Visits[i][2]}])
    BY DEF Track
  <1> DEFINE v == [runner[r] EXCEPT !.todo = @ \ {i}, !.tracked = @ \cup {Visits[i]},
                                    !.ask = @ \cup {Visits[i][2]}]
  <1>2. runner[r] \in RunnerState /\ Held(runner[r], tracker)
    BY DEF Sound, TypeOK
  <1>3. Visits[i] \in Comments \X Tokens
    BY <1>2, IssueAssumption DEF RunnerState
  <1>4. v \in RunnerState
    BY <1>2, <1>3 DEF RunnerState
  <1>5. Held(v, tracker)
    BY <1>1, <1>2, <1>3 DEF RunnerState, Held, Names, NextVisit
  <1>6. Become(r, v) /\ UNCHANGED <<marks, tracker, ledger, torn, events, mishap>>
    BY <1>1 DEF Track
  <1> HIDE DEF v
  <1>7. QED
    BY <1>4, <1>5, <1>6, RunnerStep DEF Sound, TypeOK

(* Steps that change the tracker and what one sync holds, at most.            *)
LEMMA TrackerStep ==
  ASSUME Sound, tracker' \in Seq(Issue), Grows(tracker, tracker'), Closing(tracker'),
         NEW r \in Runners, NEW v \in RunnerState, Become(r, v), Held(v, tracker'),
         UNCHANGED <<marks, ledger, torn>>, events' \in 0..MaxEvents, mishap' \in BOOLEAN
  PROVE  Sound'
  <1>1. \A q \in Runners : runner'[q] = IF q = r THEN v ELSE runner[q]
    BY DEF Sound, TypeOK, Become
  <1>2. \A q \in Runners : runner[q] \in RunnerState /\ Held(runner[q], tracker)
    BY DEF Sound, TypeOK
  <1>3. \A q \in Runners : Held(runner'[q], tracker')
    BY <1>1, <1>2, HeldGrows DEF Sound, TypeOK
  <1>4. Len(tracker) \in Nat /\ Len(tracker') \in Nat
    BY DEF Sound, TypeOK
  <1>5. \A t \in Tokens : ledger'[t] # 0 => ledger'[t] <= Len(tracker') /\ tracker'[ledger'[t]].token = t
    BY <1>4 DEF Sound, TypeOK, Grows
  <1>6. TypeOK'
    BY <1>5 DEF Sound, TypeOK, Become
  <1>7. QED
    BY <1>3, <1>6 DEF Sound

LEMMA FileIssueSound == ASSUME Sound, NEW r \in Runners, FileIssue(r) PROVE Sound'
  <1>1. PICK i \in runner[r].todo :
          LET t == Visits[i][2]
          IN  /\ NextVisit(runner[r], i) /\ runner[r].ledger[t] = 0
              /\ tracker' = NewIssue(t)
              /\ Become(r, [runner[r] EXCEPT !.todo = @ \ {i}, !.filed = @ \cup {Visits[i]},
                                            !.ledger[t] = Len(tracker')])
    BY DEF FileIssue
  <1> DEFINE t == Visits[i][2]
             v == [runner[r] EXCEPT !.todo = @ \ {i}, !.filed = @ \cup {Visits[i]},
                                    !.ledger[t] = Len(tracker')]
  <1>2. runner[r] \in RunnerState /\ Held(runner[r], tracker)
    BY DEF Sound, TypeOK
  <1>3. Visits[i] \in Comments \X Tokens /\ t \in Tokens
    BY <1>2, IssueAssumption DEF RunnerState
  <1>4. /\ tracker' \in Seq(Issue) /\ Len(tracker') = Len(tracker) + 1 /\ Grows(tracker, tracker')
        /\ tracker'[Len(tracker')].token = t /\ Closing(tracker') /\ Len(tracker) \in Nat
    <2>1. tracker' = NewIssue(t) /\ tracker \in Seq(Issue)
      BY <1>1 DEF Sound, TypeOK
    <2> HIDE DEF t
    <2>2. t \in Tokens /\ TypeOK /\ Closing(tracker)
      BY <1>3 DEF Sound
    <2>3. /\ NewIssue(t) \in Seq(Issue) /\ Len(NewIssue(t)) = Len(tracker) + 1
          /\ NewIssue(t)[Len(tracker) + 1] = [token |-> t, status |-> "open", wasClosed |-> FALSE]
          /\ Grows(tracker, NewIssue(t)) /\ Closing(NewIssue(t))
      BY <2>2, NewIssueGrows
    <2>4. QED
      BY <2>1, <2>3
  <1>5. Held(runner[r], tracker')
    BY <1>2, <1>4, HeldGrows DEF Sound, TypeOK
  <1>6. v \in RunnerState
    <2>1. Len(tracker') \in Nat
      BY <1>4
    <2>2. [runner[r].ledger EXCEPT ![t] = Len(tracker')] \in [Tokens -> Nat]
      BY <1>2, <2>1 DEF RunnerState
    <2>3. runner[r].filed \cup {Visits[i]} \in SUBSET (Comments \X Tokens)
      BY <1>2, <1>3 DEF RunnerState
    <2>4. v = [runner[r] EXCEPT !.todo = @ \ {i}, !.filed = runner[r].filed \cup {Visits[i]},
                                !.ledger = [runner[r].ledger EXCEPT ![t] = Len(tracker')]]
      BY <1>2 DEF RunnerState
    <2> HIDE DEF v
    <2>5. QED
      BY <1>2, <2>2, <2>3, <2>4 DEF RunnerState
  <1>7. Held(v, tracker')
    <2>1. v.ledger = [runner[r].ledger EXCEPT ![t] = Len(tracker')] /\ v.phase = "syncing"
      BY <1>1, <1>2 DEF RunnerState, NextVisit
    <2>2. /\ v.ask = runner[r].ask /\ v.closed = runner[r].closed /\ v.gone = runner[r].gone
          /\ v.tracked = runner[r].tracked /\ v.resolved = runner[r].resolved
      BY <1>2 DEF RunnerState
    <2>3. t \notin runner[r].ask \cup runner[r].closed
      BY <1>1, <1>2 DEF Held
    <2>4. \A u \in Tokens : v.ledger[u] = IF u = t THEN Len(tracker') ELSE runner[r].ledger[u]
      BY <1>2, <2>1 DEF RunnerState
    <2>5. runner[r].ask \subseteq Tokens /\ runner[r].closed \subseteq Tokens /\ runner[r].phase = "syncing"
      BY <1>1, <1>2 DEF RunnerState, NextVisit
    <2>6. Names(v.ledger, tracker')
      BY <1>4, <1>5, <2>4 DEF Held, Names
    <2> HIDE DEF v, t
    <2>7. QED
      BY <1>5, <2>1, <2>2, <2>3, <2>4, <2>5, <2>6 DEF Held
  <1>8. Become(r, v) /\ UNCHANGED <<marks, ledger, torn, events, mishap>>
    BY <1>1 DEF FileIssue
  <1> HIDE DEF v
  <1>9. QED
    BY <1>4, <1>6, <1>7, <1>8, TrackerStep DEF Sound, TypeOK

LEMMA LoseAnswerSound == ASSUME Sound, NEW r \in Runners, LoseAnswer(r) PROVE Sound'
  <1>1. PICK i \in runner[r].todo : tracker' = NewIssue(Visits[i][2])
    BY DEF LoseAnswer
  <1>2. Visits[i][2] \in Tokens
    BY IssueAssumption DEF Sound, TypeOK, RunnerState
  <1>3. tracker' \in Seq(Issue) /\ Grows(tracker, tracker') /\ Closing(tracker')
    BY <1>1, <1>2, NewIssueGrows DEF Sound, TypeOK
  <1>4. events' \in 0..MaxEvents
    BY EventType DEF LoseAnswer, Sound
  <1>5. Idle \in RunnerState /\ Held(Idle, tracker')
    BY IdleIsSound
  <1>6. QED
    BY <1>3, <1>4, <1>5, TrackerStep DEF LoseAnswer

LEMMA AskSound == ASSUME Sound, NEW r \in Runners, Ask(r) PROVE Sound'
  <1>1. PICK t \in runner[r].ask :
          \/ /\ Become(r, [runner[r] EXCEPT
                  !.ask = @ \ {t},
                  !.closed = IF IsClosed(tracker[runner[r].ledger[t]]) THEN @ \cup {t} ELSE @])
             /\ UNCHANGED events
          \/ Become(r, [runner[r] EXCEPT !.ask = @ \ {t}]) /\ Event
    BY DEF Ask
  <1>2. runner[r] \in RunnerState /\ Held(runner[r], tracker) /\ runner[r].phase = "syncing"
    BY DEF Ask, Sound, TypeOK
  <1>3. events' \in 0..MaxEvents /\ UNCHANGED <<marks, tracker, ledger, torn, mishap>>
    BY <1>1, EventType DEF Ask, Sound, TypeOK
  <1>4. t \in Tokens /\ runner[r].ledger[t] \in 1..Len(tracker) /\ Len(tracker) \in Nat
    BY <1>2 DEF RunnerState, Held, Names, Sound, TypeOK
  <1>5. IsClosed(tracker[runner[r].ledger[t]]) => tracker[runner[r].ledger[t]].wasClosed
    BY <1>4 DEF IsClosed, Sound, Closing
  <1> DEFINE v == [runner[r] EXCEPT
                    !.ask = @ \ {t},
                    !.closed = IF IsClosed(tracker[runner[r].ledger[t]]) THEN @ \cup {t} ELSE @]
             w == [runner[r] EXCEPT !.ask = @ \ {t}]
  <1>6. v \in RunnerState /\ w \in RunnerState
    BY <1>2, <1>4 DEF RunnerState
  <1>7. Held(v, tracker)
    BY <1>2, <1>4, <1>5 DEF RunnerState, Held, Names
  <1>8. Held(w, tracker)
    BY <1>2 DEF RunnerState, Held, Names
  <1>9. Become(r, v) \/ Become(r, w)
    BY <1>1
  <1> HIDE DEF v, w
  <1>10. QED
    BY <1>3, <1>6, <1>7, <1>8, <1>9, RunnerStep DEF Sound, TypeOK

LEMMA EditFileSound == ASSUME Sound, NEW r \in Runners, EditFile(r) PROVE Sound'
  <1> DEFINE me == runner[r]
  <1>1. PICK f \in Left(me) : \E o \in Outcomes(me, f, Resolved(me) \cap In(f)) :
          Become(r, IF o[1] = {}
                    THEN [me EXCEPT !.files = @ \ {f}]
                    ELSE [me EXCEPT !.phase = "writing", !.file = f, !.files = @ \ {f},
                                    !.held = [c \in Comments |-> IF c \in In(f) \ o[2]
                                                                 THEN marks[c] ELSE {}],
                                    !.gone = o[1]])
    BY DEF EditFile
  <1>2. PICK o \in Outcomes(me, f, Resolved(me) \cap In(f)) :
          Become(r, IF o[1] = {}
                    THEN [me EXCEPT !.files = @ \ {f}]
                    ELSE [me EXCEPT !.phase = "writing", !.file = f, !.files = @ \ {f},
                                    !.held = [c \in Comments |-> IF c \in In(f) \ o[2]
                                                                 THEN marks[c] ELSE {}],
                                    !.gone = o[1]])
    BY <1>1
  <1>3. o[1] \subseteq Resolved(me)
    BY DEF Outcomes
  <1> DEFINE held == [c \in Comments |-> IF c \in In(f) \ o[2] THEN marks[c] ELSE {}]
             v == [me EXCEPT !.files = @ \ {f}]
             w == [me EXCEPT !.phase = "writing", !.file = f, !.files = @ \ {f},
                             !.held = held, !.gone = o[1]]
  <1>4. me \in RunnerState /\ Held(me, tracker) /\ me.phase = "syncing"
    BY DEF EditFile, Asked, Sound, TypeOK
  <1>5. f \in Files /\ held \in [Comments -> SUBSET Tokens]
    BY <1>4 DEF Left, RunnerState, Sound, TypeOK
  <1>6. o[1] \subseteq Comments /\ \A p \in me.tracked : p[1] \in o[1] => p[2] \in me.closed
    <2>1. o[1] \subseteq Comments
      BY <1>3 DEF Resolved
    <2>2. ASSUME NEW p \in me.tracked, p[1] \in o[1] PROVE p[2] \in me.closed
      <3>1. p \in Comments \X Tokens /\ p = <<p[1], p[2]>> /\ p[2] \in Tokens
        BY <1>4 DEF RunnerState
      <3>2. p[2] \in TokensTracked(me, p[1])
        BY <3>1 DEF TokensTracked
      <3>3. TokensTracked(me, p[1]) \subseteq me.closed
        BY <1>3, <2>2 DEF Resolved
      <3>4. QED
        BY <3>2, <3>3
    <2>3. QED
      BY <2>1, <2>2
  <1> HIDE DEF held
  <1>7. v \in RunnerState /\ w \in RunnerState
    BY <1>4, <1>5, <1>6 DEF RunnerState, Phase
  <1>8. Held(v, tracker)
    BY <1>4 DEF RunnerState, Held, Names
  <1>9. Held(w, tracker)
    BY <1>4, <1>6 DEF RunnerState, Held, Names
  <1>10. Become(r, v) \/ Become(r, w)
    BY <1>2 DEF held
  <1>11. UNCHANGED <<marks, tracker, ledger, torn, events, mishap>>
    BY DEF EditFile
  <1> HIDE DEF v, w
  <1>12. QED
    BY <1>7, <1>8, <1>9, <1>10, <1>11, RunnerStep DEF Sound, TypeOK

LEMMA SkipFileSound == ASSUME Sound, NEW r \in Runners, SkipFile(r) PROVE Sound'
  <1>1. PICK f \in Left(runner[r]) : Become(r, [runner[r] EXCEPT !.files = @ \ {f}])
    BY DEF SkipFile
  <1> DEFINE v == [runner[r] EXCEPT !.files = @ \ {f}]
  <1>2. runner[r] \in RunnerState /\ Held(runner[r], tracker)
    BY DEF Sound, TypeOK
  <1>3. v \in RunnerState /\ Held(v, tracker)
    BY <1>2 DEF RunnerState, Held, Names
  <1>4. events' \in 0..MaxEvents /\ UNCHANGED <<marks, tracker, ledger, torn, mishap>>
    BY EventType DEF SkipFile, Sound
  <1>5. Become(r, v)
    BY <1>1
  <1> HIDE DEF v
  <1>6. QED
    BY <1>3, <1>4, <1>5, RunnerStep DEF Sound, TypeOK

LEMMA WriteFileSound == ASSUME Sound, NEW r \in Runners, WriteFile(r) PROVE Sound'
  <1> DEFINE me == runner[r]
             tokens == UNION {TokensTracked(me, c) : c \in me.gone}
             w == [me EXCEPT !.phase = "syncing", !.gone = {}, !.held = Unmarked,
                             !.resolved = @ \cup tokens]
             v == [runner EXCEPT ![r] = w]
  <1>1. me \in RunnerState /\ Held(me, tracker) /\ me.phase = "writing"
    BY DEF WriteFile, Sound, TypeOK
  <1>2. tokens \subseteq me.closed /\ tokens \subseteq Tokens
    <2>1. ASSUME NEW t \in tokens PROVE t \in me.closed /\ t \in Tokens
      <3>1. PICK c \in me.gone : t \in TokensTracked(me, c)
        BY <2>1
      <3>2. t \in Tokens /\ <<c, t>> \in me.tracked
        BY <3>1 DEF TokensTracked
      <3>3. QED
        BY <1>1, <3>2 DEF Held
    <2>2. QED
      BY <2>1
  <1>3. Unmarked \in [Comments -> SUBSET Tokens]
    BY DEF Unmarked
  <1> HIDE DEF tokens
  <1>4. w \in RunnerState
    BY <1>1, <1>2, <1>3 DEF RunnerState, Phase
  <1>5. Held(w, tracker)
    BY <1>1, <1>2 DEF RunnerState, Held, Names
  <1>6. Outdate(me.file, v)
    BY DEF WriteFile, tokens
  <1> HIDE DEF w
  <1>7. v \in [Runners -> RunnerState] /\ \A q \in Runners : Held(v[q], tracker)
    BY <1>4, <1>5 DEF Sound, TypeOK
  <1>8. me.file \in Files /\ me.held \in [Comments -> SUBSET Tokens]
    BY <1>1 DEF RunnerState
  <1>9. marks' \in [Comments -> SUBSET Tokens]
    BY <1>8 DEF WriteFile, Sound, TypeOK
  <1>10. UNCHANGED <<tracker, ledger, torn, events, mishap>>
    BY DEF WriteFile
  <1> HIDE DEF v
  <1>11. QED
    BY <1>6, <1>7, <1>8, <1>9, <1>10, OutdateStep DEF Sound, TypeOK

LEMMA SaveLedgerSound == ASSUME Sound, NEW r \in Runners, SaveLedger(r) PROVE Sound'
  <1> DEFINE v == [runner[r] EXCEPT !.phase = "saving"]
  <1>1. runner[r] \in RunnerState /\ Held(runner[r], tracker) /\ runner[r].phase = "syncing"
    BY DEF SaveLedger, Asked, Sound, TypeOK
  <1>2. v \in RunnerState /\ Held(v, tracker)
    BY <1>1 DEF RunnerState, Phase, Held, Names
  <1>3. Idle \in RunnerState /\ Held(Idle, tracker)
    BY IdleIsSound
  <1>4. torn' \in BOOLEAN /\ UNCHANGED <<marks, tracker, ledger, events, mishap>>
    BY DEF SaveLedger, Sound, TypeOK
  <1>5. Become(r, v) \/ Become(r, Idle)
    BY DEF SaveLedger
  <1> HIDE DEF v
  <1>6. QED
    BY <1>2, <1>3, <1>4, <1>5, RunnerStep DEF Sound, TypeOK

LEMMA FillLedgerSound == ASSUME Sound, NEW r \in Runners, FillLedger(r) PROVE Sound'
  <1>1. runner[r] \in RunnerState /\ Held(runner[r], tracker)
    BY DEF Sound, TypeOK
  <1>2. ledger' \in [Tokens -> Nat] /\ Names(ledger', tracker)
    BY <1>1 DEF FillLedger, SavedLedger, RunnerState, Held, Names
  <1>3. Idle \in RunnerState /\ Held(Idle, tracker)
    BY IdleIsSound
  <1>4. \A q \in Runners : runner'[q] = IF q = r THEN Idle ELSE runner[q]
    BY DEF FillLedger, Become, Sound, TypeOK
  <1>5. UNCHANGED <<marks, tracker, events, mishap>> /\ torn' = FALSE
    BY DEF FillLedger
  <1>6. TypeOK'
    BY <1>2, <1>3, <1>5 DEF FillLedger, Become, Sound, TypeOK, Names
  <1>7. QED
    BY <1>3, <1>4, <1>5, <1>6 DEF Sound

LEMMA StopSound == ASSUME Sound, NEW r \in Runners, Stop(r) PROVE Sound'
  <1>1. Idle \in RunnerState /\ Held(Idle, tracker)
    BY IdleIsSound
  <1>2. events' \in 0..MaxEvents /\ mishap' \in BOOLEAN
    BY EventType DEF Stop, Sound, TypeOK
  <1>3. QED
    BY <1>1, <1>2, RunnerStep DEF Stop, Sound, TypeOK

LEMMA AuthorEditSound == ASSUME Sound, NEW c \in Comments, AuthorEdit(c) PROVE Sound'
  <1>1. FileOf[c] \in Files /\ events' \in 0..MaxEvents
    BY EventType, IssueAssumption DEF AuthorEdit, Sound
  <1>2. marks' \in [Comments -> SUBSET Tokens]
    BY DEF AuthorEdit, MarksOf, Sound, TypeOK
  <1>3. runner \in [Runners -> RunnerState] /\ \A q \in Runners : Held(runner[q], tracker)
    BY DEF Sound, TypeOK
  <1>4. QED
    BY <1>1, <1>2, <1>3, OutdateStep DEF AuthorEdit

LEMMA TrackerTurnSound == ASSUME Sound, NEW i \in 1..Len(tracker), TrackerTurn(i) PROVE Sound'
  <1>1. PICK s \in {"open", "closed", "gone"} :
          tracker' = [tracker EXCEPT ![i].status = s, ![i].wasClosed = @ \/ s = "closed"]
    BY DEF TrackerTurn
  <1>2. tracker' \in Seq(Issue) /\ Grows(tracker, tracker') /\ Closing(tracker')
    BY <1>1, TurnGrows DEF Sound
  <1>3. UNCHANGED <<marks, ledger, torn, runner, mishap>> /\ events' \in 0..MaxEvents
    BY EventType DEF TrackerTurn, Sound
  <1>4. \A q \in Runners : Held(runner'[q], tracker')
    BY <1>2, <1>3, HeldGrows DEF Sound, TypeOK
  <1>5. Len(tracker) \in Nat /\ Len(tracker') \in Nat
    BY <1>2 DEF Sound, TypeOK
  <1>6. \A t \in Tokens : ledger'[t] # 0 => ledger'[t] <= Len(tracker') /\ tracker'[ledger'[t]].token = t
    BY <1>2, <1>3, <1>5 DEF Sound, TypeOK, Grows
  <1>7. TypeOK'
    BY <1>2, <1>3, <1>6 DEF Sound, TypeOK
  <1>8. QED
    BY <1>2, <1>4, <1>7 DEF Sound

LEMMA RestoreSound == ASSUME Sound, Restore PROVE Sound'
  <1>1. ledger' \in [Tokens -> Nat] /\ Names(ledger', tracker)
    BY DEF Restore, NoLedger, Names, Sound, TypeOK
  <1>2. UNCHANGED <<marks, tracker, runner>> /\ torn' = FALSE /\ events' \in 0..MaxEvents
    BY EventType DEF Restore, Sound
  <1>3. mishap' \in BOOLEAN
    BY DEF Restore, Sound, TypeOK
  <1>4. QED
    BY <1>1, <1>2, <1>3 DEF Sound, TypeOK, Names

LEMMA SoundNext == Sound /\ [Next]_vars => Sound'
  <1> SUFFICES ASSUME Sound, [Next]_vars PROVE Sound'
    OBVIOUS
  <1>1. ASSUME NEW r \in Runners, Forward(r) PROVE Sound'
    BY <1>1, ScanSound, LoadLedgerSound, TrackSound, FileIssueSound DEF Forward
  <1>2. ASSUME NEW r \in Runners, Reverse(r) PROVE Sound'
    BY <1>2, AskSound, EditFileSound, WriteFileSound, SaveLedgerSound, FillLedgerSound DEF Reverse
  <1>3. ASSUME NEW r \in Runners, Fail(r) PROVE Sound'
    BY <1>3, LoseAnswerSound, SkipFileSound, StopSound DEF Fail
  <1>4. ASSUME World PROVE Sound'
    BY <1>4, AuthorEditSound, TrackerTurnSound, RestoreSound DEF World
  <1>5. CASE UNCHANGED vars
    BY <1>5 DEF vars, Sound, TypeOK
  <1>6. QED
    BY <1>1, <1>2, <1>3, <1>4, <1>5 DEF Next

-----------------------------------------------------------------------------
(* Order                                                                    *)

LEMMA OrderlyInit == Init => Orderly
  <1> SUFFICES ASSUME Init PROVE Orderly
    OBVIOUS
  <1>1. Len(tracker) = 0 /\ \A r \in Runners : runner[r].phase = "idle"
    BY DEF Init, Idle
  <1>2. QED
    BY <1>1 DEF Orderly, OneAtATime, Refiled, Covers, Loaded

LEMMA IssueTokens ==
  ASSUME Sound, NEW i \in 1..Len(tracker)
  PROVE  tracker[i].token \in Tokens
  <1>1. tracker[i] \in Issue
    BY DEF Sound, TypeOK
  <1>2. QED
    BY <1>1 DEF Issue

\* A ledger that covers the tracker does so after a turn of the tracker.
LEMMA CoversTurns ==
  ASSUME NEW l, NEW old \in Seq(Issue), NEW new \in Seq(Issue), Grows(old, new), Len(new) = Len(old),
         Covers(l, old)
  PROVE  Covers(l, new)
  BY DEF Grows, Covers

(* Steps after which at most those sync that did, with the ledger they had, and *)
(* what was filed and not saved still is.                                      *)
LEMMA OrderlyStep ==
  ASSUME Orderly, UNCHANGED <<tracker, ledger>>, ~mishap' => ~mishap,
         ~mishap' => \A q \in Runners :
           /\ runner'[q].phase # "idle" => runner[q].phase # "idle"
           /\ runner'[q].phase \in Loaded =>
                runner[q].phase \in Loaded /\ runner'[q].ledger = runner[q].ledger
           /\ runner'[q].filed = {} => runner[q].filed = {}
  PROVE  Orderly'
  BY DEF Orderly, OneAtATime

\* The same where one sync takes a step.
LEMMA OrderlyRunner ==
  ASSUME Sound, Orderly, NEW r \in Runners, NEW v, Become(r, v),
         UNCHANGED <<tracker, ledger>>, ~mishap' => ~mishap,
         v.phase # "idle" => runner[r].phase # "idle",
         v.phase \in Loaded => runner[r].phase \in Loaded /\ v.ledger = runner[r].ledger,
         ~mishap' /\ v.filed = {} => runner[r].filed = {}
  PROVE  Orderly'
  <1>1. \A q \in Runners : runner'[q] = IF q = r THEN v ELSE runner[q]
    BY DEF Sound, TypeOK, Become
  <1>2. QED
    BY <1>1, OrderlyStep

LEMMA ScanOrderly == ASSUME Sound, Orderly, NEW r \in Runners, Scan(r) PROVE Orderly'
  <1> SUFFICES ASSUME ~mishap' PROVE Orderly'
    BY DEF Orderly
  <1>1. Alone /\ ~mishap /\ UNCHANGED <<tracker, ledger>>
    BY DEF Scan
  <1>2. \A q \in Runners : runner'[q].phase = IF q = r THEN "scanned" ELSE "idle"
    BY <1>1 DEF Scan, Become, Alone, Idle, Sound, TypeOK
  <1>3. \A q \in Runners : runner[q].filed = {}
    BY <1>1 DEF Alone, Sound, Held
  <1>4. QED
    BY <1>1, <1>2, <1>3 DEF Orderly, OneAtATime, Loaded

LEMMA LoadLedgerOrderly == ASSUME Sound, Orderly, NEW r \in Runners, LoadLedger(r) PROVE Orderly'
  <1> SUFFICES ASSUME ~mishap' PROVE Orderly'
    BY DEF Orderly
  <1>1. ~mishap /\ UNCHANGED <<tracker, ledger>> /\ runner[r].phase = "scanned"
    BY DEF LoadLedger
  <1>2. CASE torn
    <2>1. Become(r, Idle) /\ Idle.phase = "idle" /\ runner[r].filed = {}
      BY <1>1, <1>2 DEF LoadLedger, Idle, Sound, Held
    <2>2. QED
      BY <1>1, <2>1, OrderlyRunner DEF Loaded
  <1>3. CASE ~torn
    <2> DEFINE v == [runner[r] EXCEPT !.phase = "syncing", !.ledger = ledger]
    <2>1. \A q \in Runners : runner'[q] = IF q = r THEN v ELSE runner[q]
      BY <1>3 DEF LoadLedger, Become, Sound, TypeOK
    <2>2. \A q \in Runners : q # r => runner[q].phase = "idle"
      BY <1>1 DEF Orderly, OneAtATime
    <2>3. \A q \in Runners : runner[q].filed = {}
      BY <1>1, <2>2 DEF Sound, Held
    <2>4. v.phase = "syncing" /\ v.ledger = ledger
      BY DEF Sound, TypeOK, RunnerState
    <2>5. Covers(ledger, tracker)
      BY <1>1, <2>3 DEF Orderly
    <2> HIDE DEF v
    <2>6. QED
      BY <1>1, <2>1, <2>2, <2>4, <2>5 DEF Orderly, OneAtATime, Loaded
  <1>4. QED
    BY <1>2, <1>3

\* An issue is filed for a token only when all earlier ones have been closed.
LEMMA FileIssueOrderly == ASSUME Sound, Orderly, NEW r \in Runners, FileIssue(r) PROVE Orderly'
  <1> SUFFICES ASSUME ~mishap' PROVE Orderly'
    BY DEF Orderly
  <1> DEFINE me == runner[r]
  <1>1. ~mishap /\ ledger' = ledger /\ me.phase = "syncing"
    BY DEF FileIssue, NextVisit
  <1>2. PICK t \in Tokens, v \in RunnerState :
          /\ me.ledger[t] = 0 /\ tracker' = NewIssue(t) /\ Become(r, v)
          /\ v.ledger = [me.ledger EXCEPT ![t] = Len(tracker')]
          /\ v.phase = "syncing" /\ v.filed # {}
    <2>1. PICK i \in me.todo :
            LET t == Visits[i][2]
            IN  /\ NextVisit(me, i) /\ me.ledger[t] = 0
                /\ tracker' = NewIssue(t)
                /\ Become(r, [me EXCEPT !.todo = @ \ {i}, !.filed = @ \cup {Visits[i]},
                                        !.ledger[t] = Len(tracker')])
      BY DEF FileIssue
    <2> DEFINE t == Visits[i][2]
               v == [me EXCEPT !.todo = @ \ {i}, !.filed = @ \cup {Visits[i]},
                               !.ledger[t] = Len(tracker')]
    <2>2. me \in RunnerState
      BY DEF Sound, TypeOK
    <2>3. t \in Tokens
      BY <2>2, IssueAssumption DEF RunnerState
    <2>4. /\ v.ledger = [me.ledger EXCEPT ![t] = Len(tracker')]
          /\ v.phase = "syncing" /\ v.filed # {}
      BY <1>1, <2>2 DEF RunnerState
    <2>5. v \in RunnerState
      BY <2>1, FileIssueSound DEF Sound, TypeOK, Become
    <2>6. me.ledger[t] = 0 /\ tracker' = NewIssue(t) /\ Become(r, v)
      BY <2>1
    <2> HIDE DEF v, t
    <2>7. QED
      BY <2>3, <2>4, <2>5, <2>6
  <1>3. /\ tracker' \in Seq(Issue) /\ Len(tracker') = Len(tracker) + 1 /\ Len(tracker) \in Nat
        /\ tracker'[Len(tracker')].token = t
        /\ \A i \in 1..Len(tracker) : tracker'[i] = tracker[i] /\ tracker[i].token \in Tokens
    <2>1. TypeOK /\ tracker \in Seq(Issue)
      BY DEF Sound, TypeOK
    <2>2. /\ NewIssue(t) \in Seq(Issue) /\ Len(NewIssue(t)) = Len(tracker) + 1
          /\ NewIssue(t)[Len(tracker) + 1] = [token |-> t, status |-> "open", wasClosed |-> FALSE]
          /\ \A i \in 1..Len(tracker) : NewIssue(t)[i] = tracker[i]
      BY <2>1, NewIssueGrows
    <2>3. [token |-> t, status |-> "open", wasClosed |-> FALSE].token = t
      OBVIOUS
    <2>4. QED
      BY <1>2, <2>1, <2>2, <2>3, IssueTokens
  <1>4. Covers(me.ledger, tracker) /\ Refiled(tracker)
    BY <1>1 DEF Orderly, Loaded
  <1>5. \A u \in Tokens : v.ledger[u] = IF u = t THEN Len(tracker') ELSE me.ledger[u]
    BY <1>2 DEF Sound, TypeOK, RunnerState
  <1>6. \A i \in 1..Len(tracker) : tracker[i].token = t => tracker[i].wasClosed
    BY <1>2, <1>4 DEF Covers
  <1>7. Covers(v.ledger, tracker')
    BY <1>3, <1>4, <1>5 DEF Covers
  <1>8. Refiled(tracker')
    BY <1>3, <1>4, <1>6 DEF Refiled
  <1>9. \A q \in Runners : runner'[q] = IF q = r THEN v ELSE runner[q]
    BY <1>2 DEF Become, Sound, TypeOK
  <1>10. \A q \in Runners : q # r => runner[q].phase = "idle"
    BY <1>1 DEF Orderly, OneAtATime
  <1>11. QED
    BY <1>2, <1>7, <1>8, <1>9, <1>10 DEF Orderly, OneAtATime, Loaded

\* What is saved without the resolved tokens covers the tracker: the last issue of
\* each was closed, and so were those before it.
LEMMA FillLedgerOrderly == ASSUME Sound, Orderly, NEW r \in Runners, FillLedger(r) PROVE Orderly'
  <1> SUFFICES ASSUME ~mishap' PROVE Orderly'
    BY DEF Orderly
  <1> DEFINE me == runner[r]
  <1>1. ~mishap /\ tracker' = tracker /\ me.phase = "saving" /\ ledger' = SavedLedger(me)
    BY DEF FillLedger
  <1>2. Covers(me.ledger, tracker) /\ Refiled(tracker)
    BY <1>1 DEF Orderly, Loaded
  <1>3. me \in RunnerState /\ Held(me, tracker) /\ tracker \in Seq(Issue)
    BY DEF Sound, TypeOK
  <1>4. Covers(ledger', tracker)
    <2> SUFFICES ASSUME NEW i \in 1..Len(tracker)
                 PROVE  IF ledger'[tracker[i].token] = 0 THEN tracker[i].wasClosed
                        ELSE i <= ledger'[tracker[i].token]
      BY DEF Covers
    <2> DEFINE t == tracker[i].token
    <2>1. t \in Tokens
      BY IssueTokens
    <2>2. ledger'[t] = IF t \in me.resolved THEN 0 ELSE me.ledger[t]
      BY <1>1, <2>1 DEF SavedLedger
    <2>3. CASE t \in me.resolved
      <3>1. /\ me.ledger[t] # 0 /\ tracker[me.ledger[t]].wasClosed
            /\ me.ledger[t] \in 1..Len(tracker) /\ tracker[me.ledger[t]].token = t
        <4>1. t \in me.closed /\ me.ledger[t] \in Nat /\ Len(tracker) \in Nat
          BY <1>3, <2>1, <2>3 DEF Held, RunnerState
        <4>2. QED
          BY <1>3, <2>1, <4>1 DEF Held, Names
      <3>2. i <= me.ledger[t]
        BY <1>2, <3>1 DEF Covers
      <3>3. tracker[i].wasClosed
        BY <1>2, <3>1, <3>2 DEF Refiled
      <3>4. QED
        BY <2>2, <2>3, <3>3
    <2>4. CASE t \notin me.resolved
      BY <1>2, <2>2, <2>4 DEF Covers
    <2>5. QED
      BY <2>3, <2>4
  <1>5. \A q \in Runners : runner'[q].phase = "idle"
    BY <1>1 DEF FillLedger, Become, Idle, Orderly, OneAtATime, Sound, TypeOK
  <1>6. QED
    BY <1>1, <1>2, <1>4, <1>5 DEF Orderly, OneAtATime, Loaded

LEMMA ReverseOrderly == ASSUME Sound, Orderly, NEW r \in Runners, Reverse(r) PROVE Orderly'
  <1> DEFINE me == runner[r]
  <1>1. me \in RunnerState /\ Held(me, tracker)
    BY DEF Sound, TypeOK
  <1>2. CASE Ask(r)
    <2>1. PICK t \in me.ask :
            \/ Become(r, [me EXCEPT
                 !.ask = @ \ {t},
                 !.closed = IF IsClosed(tracker[me.ledger[t]]) THEN @ \cup {t} ELSE @])
            \/ Become(r, [me EXCEPT !.ask = @ \ {t}])
      BY <1>2 DEF Ask
    <2> DEFINE v == [me EXCEPT
                      !.ask = @ \ {t},
                      !.closed = IF IsClosed(tracker[me.ledger[t]]) THEN @ \cup {t} ELSE @]
               w == [me EXCEPT !.ask = @ \ {t}]
    <2>2. /\ v.phase = me.phase /\ v.ledger = me.ledger /\ v.filed = me.filed
          /\ w.phase = me.phase /\ w.ledger = me.ledger /\ w.filed = me.filed
      BY <1>1 DEF RunnerState
    <2>3. Become(r, v) \/ Become(r, w)
      BY <2>1
    <2>4. UNCHANGED <<tracker, ledger, mishap>>
      BY <1>2 DEF Ask
    <2> HIDE DEF v, w
    <2>5. QED
      BY <2>2, <2>3, <2>4, OrderlyRunner
  <1>3. CASE EditFile(r)
    <2>1. PICK f \in Left(me) : \E o \in Outcomes(me, f, Resolved(me) \cap In(f)) :
            Become(r, IF o[1] = {}
                      THEN [me EXCEPT !.files = @ \ {f}]
                      ELSE [me EXCEPT !.phase = "writing", !.file = f, !.files = @ \ {f},
                                      !.held = [c \in Comments |-> IF c \in In(f) \ o[2]
                                                                   THEN marks[c] ELSE {}],
                                      !.gone = o[1]])
      BY <1>3 DEF EditFile
    <2>2. PICK gone, held :
            \/ Become(r, [me EXCEPT !.files = @ \ {f}])
            \/ Become(r, [me EXCEPT !.phase = "writing", !.file = f, !.files = @ \ {f},
                                    !.held = held, !.gone = gone])
      BY <2>1
    <2> DEFINE v == [me EXCEPT !.files = @ \ {f}]
               w == [me EXCEPT !.phase = "writing", !.file = f, !.files = @ \ {f},
                               !.held = held, !.gone = gone]
    <2>3. /\ v.phase = me.phase /\ v.ledger = me.ledger /\ v.filed = me.filed
          /\ w.phase = "writing" /\ w.ledger = me.ledger /\ w.filed = me.filed
      BY <1>1 DEF RunnerState
    <2>4. Become(r, v) \/ Become(r, w)
      BY <2>2
    <2>5. me.phase = "syncing" /\ UNCHANGED <<tracker, ledger, mishap>>
      BY <1>3 DEF EditFile, Asked
    <2> HIDE DEF v, w
    <2>6. QED
      BY <2>3, <2>4, <2>5, OrderlyRunner DEF Loaded
  <1>4. CASE WriteFile(r)
    <2>1. me.phase = "writing" /\ UNCHANGED <<tracker, ledger, mishap>>
      BY <1>4 DEF WriteFile
    <2>2. \A q \in Runners :
            /\ runner'[q].phase = IF q = r THEN "syncing" ELSE runner[q].phase
            /\ runner'[q].ledger = runner[q].ledger /\ runner'[q].filed = runner[q].filed
      <3> DEFINE tokens == UNION {TokensTracked(me, c) : c \in me.gone}
                 w == [me EXCEPT !.phase = "syncing", !.gone = {}, !.held = Unmarked,
                                 !.resolved = @ \cup tokens]
                 v == [runner EXCEPT ![r] = w]
      <3>1. Outdate(me.file, v)
        BY <1>4 DEF WriteFile
      <3>2. tokens \subseteq Tokens /\ Unmarked \in [Comments -> SUBSET Tokens]
        BY DEF TokensTracked, Unmarked
      <3> HIDE DEF tokens
      <3>3. /\ w.phase = "syncing" /\ w.ledger = me.ledger /\ w.filed = me.filed
            /\ w \in RunnerState
        BY <1>1, <3>2 DEF RunnerState, Phase
      <3> HIDE DEF w
      <3>4. \A q \in Runners : v[q] = (IF q = r THEN w ELSE runner[q]) /\ v[q] \in RunnerState
        BY <3>3 DEF Sound, TypeOK
      <3> HIDE DEF v
      <3>5. \A q \in Runners : runner'[q] = [v[q] EXCEPT !.fresh = @ \ {me.file}]
        BY <3>1 DEF Outdate
      <3>6. \A q \in Runners : /\ runner'[q].phase = v[q].phase /\ runner'[q].ledger = v[q].ledger
                               /\ runner'[q].filed = v[q].filed
        BY <3>4, <3>5 DEF RunnerState
      <3>7. QED
        BY <3>4, <3>6, <3>3
    <2>3. QED
      BY <2>1, <2>2, OrderlyStep DEF Loaded
  <1>5. CASE SaveLedger(r)
    <2>1. UNCHANGED <<tracker, ledger, mishap>> /\ me.phase = "syncing"
      BY <1>5 DEF SaveLedger, Asked
    <2>2. CASE LedgerChanged(me)
      <3> DEFINE v == [me EXCEPT !.phase = "saving"]
      <3>1. Become(r, v) /\ v.phase = "saving" /\ v.ledger = me.ledger /\ v.filed = me.filed
        BY <1>1, <1>5, <2>2 DEF SaveLedger, RunnerState
      <3> HIDE DEF v
      <3>2. QED
        BY <2>1, <3>1, OrderlyRunner DEF Loaded
    <2>3. CASE ~LedgerChanged(me)
      <3>1. Become(r, Idle) /\ me.filed = {} /\ Idle.phase = "idle"
        BY <1>5, <2>3 DEF SaveLedger, LedgerChanged, Idle
      <3>2. QED
        BY <2>1, <3>1, OrderlyRunner DEF Loaded
    <2>4. QED
      BY <2>2, <2>3
  <1>6. CASE FillLedger(r)
    BY <1>6, FillLedgerOrderly
  <1>7. QED
    BY <1>2, <1>3, <1>4, <1>5, <1>6 DEF Reverse

LEMMA TrackOrderly == ASSUME Sound, Orderly, NEW r \in Runners, Track(r) PROVE Orderly'
  <1>1. runner[r] \in RunnerState
    BY DEF Sound, TypeOK
  <1>2. PICK i \in runner[r].todo :
          Become(r, [runner[r] EXCEPT !.todo = @ \ {i}, !.tracked = @ \cup {Visits[i]},
                                      !.ask = @ \cup {Visits[i][2]}])
    BY DEF Track
  <1> DEFINE v == [runner[r] EXCEPT !.todo = @ \ {i}, !.tracked = @ \cup {Visits[i]},
                                    !.ask = @ \cup {Visits[i][2]}]
  <1>3. /\ v.phase = runner[r].phase /\ v.ledger = runner[r].ledger
        /\ v.filed = runner[r].filed
    BY <1>1 DEF RunnerState
  <1>4. Become(r, v) /\ UNCHANGED <<tracker, ledger, mishap>>
    BY <1>2 DEF Track
  <1> HIDE DEF v
  <1>5. QED
    BY <1>3, <1>4, OrderlyRunner

LEMMA FailOrderly == ASSUME Sound, Orderly, NEW r \in Runners, Fail(r) PROVE Orderly'
  <1>1. CASE LoseAnswer(r)
    BY <1>1 DEF LoseAnswer, Orderly
  <1>2. CASE SkipFile(r)
    <2>1. runner[r] \in RunnerState
      BY DEF Sound, TypeOK
    <2>2. PICK v : /\ Become(r, v) /\ v.phase = runner[r].phase /\ v.ledger = runner[r].ledger
                   /\ v.filed = runner[r].filed
      BY <1>2, <2>1 DEF SkipFile, RunnerState
    <2>3. QED
      BY <1>2, <2>2, OrderlyRunner DEF SkipFile
  <1>3. CASE Stop(r)
    <2>1. /\ Become(r, Idle) /\ UNCHANGED <<tracker, ledger>> /\ Idle.phase = "idle"
          /\ mishap' = (mishap \/ runner[r].filed # {})
      BY <1>3 DEF Stop, Idle
    <2>2. QED
      BY <2>1, OrderlyRunner DEF Loaded
  <1>4. QED
    BY <1>1, <1>2, <1>3 DEF Fail

LEMMA WorldOrderly == ASSUME Sound, Orderly, World PROVE Orderly'
  <1>1. ASSUME NEW c \in Comments, AuthorEdit(c) PROVE Orderly'
    <2>1. \A q \in Runners :
            /\ runner'[q].phase = runner[q].phase
            /\ runner'[q].ledger = runner[q].ledger /\ runner'[q].filed = runner[q].filed
      BY <1>1 DEF AuthorEdit, Outdate, Sound, TypeOK, RunnerState
    <2>2. QED
      BY <1>1, <2>1, OrderlyStep DEF AuthorEdit
  <1>2. ASSUME NEW i \in 1..Len(tracker), TrackerTurn(i) PROVE Orderly'
    <2>1. PICK s \in {"open", "closed", "gone"} :
            tracker' = [tracker EXCEPT ![i].status = s, ![i].wasClosed = @ \/ s = "closed"]
      BY <1>2 DEF TrackerTurn
    <2>2. /\ tracker' \in Seq(Issue) /\ Len(tracker') = Len(tracker) /\ Grows(tracker, tracker')
          /\ tracker \in Seq(Issue)
      BY <2>1, TurnGrows DEF Sound, TypeOK
    <2>3. UNCHANGED <<ledger, runner, mishap>>
      BY <1>2 DEF TrackerTurn
    <2>4. Refiled(tracker) => Refiled(tracker')
      BY <2>2 DEF Refiled, Grows
    <2>5. \A l : Covers(l, tracker) => Covers(l, tracker')
      BY <2>2, CoversTurns
    <2>6. QED
      BY <2>3, <2>4, <2>5 DEF Orderly, OneAtATime
  <1>3. CASE Restore
    BY <1>3 DEF Restore, Orderly, OneAtATime
  <1>4. QED
    BY <1>1, <1>2, <1>3 DEF World

LEMMA OrderlyNext == Sound /\ Orderly /\ [Next]_vars => Orderly'
  <1> SUFFICES ASSUME Sound, Orderly, [Next]_vars PROVE Orderly'
    OBVIOUS
  <1>1. ASSUME NEW r \in Runners, Forward(r) PROVE Orderly'
    BY <1>1, ScanOrderly, LoadLedgerOrderly, TrackOrderly, FileIssueOrderly DEF Forward
  <1>2. ASSUME NEW r \in Runners, Reverse(r) PROVE Orderly'
    BY <1>2, ReverseOrderly
  <1>3. ASSUME NEW r \in Runners, Fail(r) PROVE Orderly'
    BY <1>3, FailOrderly
  <1>4. CASE UNCHANGED vars
    BY <1>4 DEF vars, Orderly, OneAtATime
  <1>5. QED
    BY <1>1, <1>2, <1>3, <1>4, WorldOrderly DEF Next

-----------------------------------------------------------------------------
(* The theorems                                                             *)

THEOREM AlwaysSound == Spec => []Sound
  BY SoundInit, SoundNext, PTL DEF Spec

\* Type correctness, and no ledger entry, in the file or in a sync, names an issue
\* of another token.
THEOREM IssueTypeCorrect == Spec => []TypeOK
  <1>1. Sound => TypeOK
    BY DEF Sound
  <1>2. QED
    BY <1>1, AlwaysSound, PTL

\* Whatever overlaps, fails or is edited meanwhile, a sync takes out a comment only
\* when each of its issues that its ledger knew has been closed
\* (issues/mod.rs: reconcile_resolved).
THEOREM GivesUpOnlyClosed == Spec => []GivenUpOnlyWhenClosed
  <1>1. Sound => GivenUpOnlyWhenClosed
    <2> SUFFICES ASSUME Sound, NEW r \in Runners, NEW c \in runner[r].gone,
                        NEW t \in TokensTracked(runner[r], c)
                 PROVE  tracker[runner[r].ledger[t]].wasClosed
      BY DEF GivenUpOnlyWhenClosed
    <2>1. Held(runner[r], tracker) /\ <<c, t>> \in runner[r].tracked
      BY DEF Sound, TokensTracked
    <2>2. t \in runner[r].closed
      BY <2>1 DEF Held
    <2>3. QED
      BY <2>1, <2>2 DEF Held
  <1>2. QED
    BY <1>1, AlwaysSound, PTL

\* Where syncs end well and one at a time, an issue is filed again for a token only
\* after the earlier one was closed, for any number of syncs, edits and turns of the
\* tracker (verbs.rs: run_issues_sync).
THEOREM RefilesOnlyClosed == Spec => []RefiledOnlyAfterClosed
  <1>1. Orderly => RefiledOnlyAfterClosed
    BY DEF Orderly, Refiled, RefiledOnlyAfterClosed
  <1>2. Sound /\ Orderly /\ [Next]_vars => (Sound /\ Orderly)'
    BY SoundNext, OrderlyNext
  <1>3. QED
    BY <1>1, <1>2, SoundInit, OrderlyInit, PTL DEF Spec
=============================================================================
