------------------------------- MODULE CheckRun -------------------------------
(***************************************************************************)
(* A check and what it leaves behind: the provider results cached in       *)
(* inputs.db, and the baseline file that `baseline accept` and             *)
(* `baseline prune` write from a check of their own.                       *)
(*                                                                         *)
(* A check scans the tree, computes the cache keys, asks or runs one       *)
(* provider after another, fuses what they say into the comments, loads    *)
(* the baseline and shows what is left.  Each of these reads the tree, the *)
(* tools or the baseline on its own, and authors edit, tools change and    *)
(* other checks run in between.                                            *)
(*                                                                         *)
(* External: what a tool says of a file is a constant of its version and   *)
(* the file's content; a content stands for its bytes, and for their hash. *)
(***************************************************************************)
EXTENDS Suppression

CONSTANTS
  FileList,      \* the files, in the order of their paths
  LanguageOf,    \* [Files -> languages, None for a file without comments]
  Contents,      \* [Files -> what the file may hold]
  CommentsIn,    \* the comments of a content, in their order
  Providers,     \* the tools, in the order they are run
  ProjectScoped, \* tools that are given the root; the others get a list of files
  CommentScoped, \* tools whose findings count inside a comment only
  Languages,     \* [Tools -> the languages it declares, {} for any]
  Unkeyed,       \* tools without a version key
  Versions,      \* versions of a tool
  Says,          \* what a tool in a version reports of a content
  Configs,       \* configurations
  Baselines,     \* what an author may write into the baseline by hand
  Ops,           \* what the runners do: "check", "accept", "prune"
  Runners,       \* processes
  MaxEvents      \* bound on edits, tool and config changes, failures, overlaps

Files == {FileList[i] : i \in 1..Len(FileList)}
Tools == {Providers[i] : i \in 1..Len(Providers)}

\* The providers are the built-in ones, each with an id of its own.
ASSUME CheckRunAssumption ==
  /\ MaxEvents \in Nat
  /\ FileList \in Seq(Files)
  /\ Providers \in Seq(Tools)
  /\ \A i, j \in 1..Len(Providers) : Providers[i] = Providers[j] => i = j
  /\ ProjectScoped \subseteq Tools /\ CommentScoped \subseteq Tools /\ Unkeyed \subseteq Tools

\* What a tool reports: a rule at a place.
Points == [at : Nat, line : Nat, rule : Rules]

\* What a detector finds has a category of its own.
Mapped == {rule \in Rules : CategoryMap[rule] # Unmapped}

\* A comment has a place; its markers and what its detectors find have rules.
Placed(c) ==
  /\ c.start \in Nat /\ c.end \in Nat /\ c.line \in Nat /\ c.start <= c.end
  /\ c.rot \in Seq(Mapped)
  /\ Len(c.markers) \in Nat
  /\ \A i \in 1..Len(c.markers) :
       LET m == c.markers[i]
       IN  m.rule \in Mapped /\ (m.at = None \/ (m.at \in Nat /\ m.len \in Nat))

ASSUME WorldAssumption ==
  /\ Versions # {} /\ Configs # {}
  /\ \A c \in Configs :
       /\ c = [over |-> c.over, markers |-> c.markers, ignore |-> c.ignore, failOn |-> c.failOn]
       /\ c.over # None /\ \A key \in DOMAIN c.over : c.over[key] \in Severities
       /\ \A name \in DOMAIN c.markers : c.markers[name] \in Severities
  /\ \A f \in Files : \A c \in Contents[f] :
       /\ Len(CommentsIn[c]) \in Nat
       /\ \A n \in 1..Len(CommentsIn[c]) : Placed(CommentsIn[c][n])
       /\ \A t \in Tools, v \in Versions : Says[t][v][c] \in Seq(Points)

VARIABLES
  tree,     \* [Files -> contents]
  config,   \* the configuration on disk
  tool,     \* [Tools -> version and health]
  rows,     \* provider_results of inputs.db
  baseline, \* the committed file: a set of entries, None, or Torn
  run,      \* [Runners -> what a check holds]
  events,
  agreed    \* ghost: {the world the baseline was accepted in}, or {}

vars == <<tree, config, tool, rows, baseline, run, events, agreed>>

\* A file that no longer parses.
Torn == {None}

Healths == {"ok", "failing", "gone"}

Event == events < MaxEvents /\ events' = events + 1

-----------------------------------------------------------------------------
(* The walk and the native pass                                             *)

Universe(cfg) == Files \ cfg.ignore

Walked(cfg) == {f \in Universe(cfg) : LanguageOf[f] # None}

NativeFinding(f, start, end, line, rule, severity) ==
  [file |-> f, start |-> start, end |-> end, line |-> line, rule |-> rule,
   category |-> CategoryMap[rule], severity |-> severity, also |-> {}]

\* The span of a marker, or the whole comment when it is not found in the text.
MarkerFindings(f, c, severities) ==
  [i \in 1..Len(c.markers) |->
    LET m == c.markers[i]
        severity == IF m.name \in DOMAIN severities THEN severities[m.name]
                    ELSE CanonicalSeverity("marker_stale")
    IN  IF m.at = None THEN NativeFinding(f, c.start, c.end, c.line, m.rule, severity)
        ELSE NativeFinding(f, c.start + m.at, c.start + m.at + m.len, c.line, m.rule, severity)]

\* The detectors' findings span the whole comment.
RotFindings(f, c) ==
  [i \in 1..Len(c.rot) |->
    NativeFinding(f, c.start, c.end, c.line, c.rot[i], CanonicalSeverity(CategoryMap[c.rot[i]]))]

\* A comment of a file with its native findings.
Detected(f, c, severities) ==
  [file |-> f, symbol |-> c.symbol, print |-> c.print, start |-> c.start, end |-> c.end,
   line |-> c.line, directive |-> c.directive,
   findings |-> MarkerFindings(f, c, severities) \o RotFindings(f, c)]

\* The comments of the walked files.
Scan(cfg) ==
  FlattenSeq([i \in 1..Len(FileList) |->
    LET f == FileList[i]
        here == IF f \in Walked(cfg) THEN CommentsIn[tree[f]] ELSE <<>>
    IN  [n \in 1..Len(here) |-> Detected(f, here[n], cfg.markers)]])

-----------------------------------------------------------------------------
(* Providers                                                                *)

\* The files a provider is handed.
FilesForProvider(t, cfg) ==
  {f \in Walked(cfg) : Languages[t] = {} \/ LanguageOf[f] \in Languages[t]}

ContentHash(fs) == [f \in fs |-> tree[f]]

\* What a tool in a version says of files with these contents, in the order of
\* the files.
Reports(t, version, contents, over) ==
  FlattenSeq([i \in 1..Len(FileList) |->
    LET f == FileList[i]
    IN  IF f \in DOMAIN contents THEN Normalize(f, Says[t][version][contents[f]], over)
        ELSE <<>>])

\* The files a tool looks at: it is given the root, or a list.
LooksAt(t, cfg) == IF t \in ProjectScoped THEN Files ELSE FilesForProvider(t, cfg)

\* Bug: output that cannot be parsed counts as no findings.
FailureIsEmpty(t, cfg) ==
  IF tool[t].health = "gone" THEN Skipped
  ELSE IF tool[t].health = "failing" THEN Ran(<<>>)
  ELSE Ran(Reports(t, tool[t].version, ContentHash(LooksAt(t, cfg)), cfg.over))

\* A provider's run: parsed output means that it ran.  A tool that takes a list
\* of files is not started without one; a missing tool is skipped.
ProviderRun(t, cfg) ==
  IF t \notin ProjectScoped /\ FilesForProvider(t, cfg) = {} THEN Skipped
  ELSE IF tool[t].health = "gone" THEN Skipped
  ELSE IF tool[t].health = "failing" THEN Partial
  ELSE Ran(Reports(t, tool[t].version, ContentHash(LooksAt(t, cfg)), cfg.over))

\* The binary's content and the manifest; none when the binary is not found.
VersionKey(t) == IF t \in Unkeyed \/ tool[t].health = "gone" THEN None ELSE tool[t].version

\* Bug: both scopes are keyed by the files that hold comments.
KeyedByWalked(t, cfg) == ContentHash(Walked(cfg))

\* The hash of what a provider's retained findings depend on.
InputHash(t, cfg) == ContentHash(IF t \in ProjectScoped THEN Universe(cfg) ELSE Walked(cfg))

-----------------------------------------------------------------------------
(* Fusion                                                                   *)

\* Of a comment-scoped tool only what lies in a comment counts, and its state
\* follows; a failure stays a failure.
CommentScopedRun(t, comments, ran) ==
  LET kept == Keep(ran.findings, {f \in Range(ran.findings) :
                \E n \in 1..Len(comments) : WithinCommentSpan(comments[n], f)})
  IN  IF t \notin CommentScoped THEN ran
      ELSE IF ran.state \in {"PARTIAL", "SKIPPED"} THEN [ran EXCEPT !.findings = kept]
      ELSE Ran(kept)

OfFiles(fs, found) == Keep(found, {f \in Range(found) : f.file \in fs})

InScope(cfg, found) == OfFiles(Universe(cfg), found)

\* What is in scope is attached, and each comment's findings are deduplicated.
Fuse(cfg, comments, found) ==
  LET attached == AttachFindings(comments, InScope(cfg, found))
  IN  [n \in 1..Len(comments) |->
        [attached[n] EXCEPT !.findings = DedupFindings(attached[n].findings)]]

-----------------------------------------------------------------------------
(* A check, step by step                                                    *)

\* Ghosts: disturbed, the tree or a tool changed since the check began; stale,
\* since its keys were computed; crossed, before the provider at hand was run;
\* sound, no row it took is of a crossed run; taken, for a tool whose row it took,
\* the severities that row was stored under; told, agreed when the baseline was
\* loaded.
Idle == [phase |-> "idle", op |-> "check", cfg |-> None, comments |-> <<>>,
         keys |-> None, hashes |-> None, next |-> 1, ran |-> Skipped,
         states |-> [t \in Tools |-> None], found |-> <<>>, loaded |-> {}, entries |-> {},
         disturbed |-> FALSE, stale |-> FALSE, crossed |-> FALSE, sound |-> TRUE,
         taken |-> [t \in Tools |-> None], told |-> {}]

Become(r, v) == run' = [run EXCEPT ![r] = v]

Alone == \A r \in Runners : run[r].phase = "idle"

\* Config discovery, the walk and the native pass.
Begin(r) ==
  /\ run[r].phase = "idle"
  /\ IF Alone THEN UNCHANGED events ELSE Event
  /\ Become(r, [Idle EXCEPT !.phase = "walked", !.cfg = config, !.comments = Scan(config)])
  /\ UNCHANGED <<tree, config, tool, rows, baseline, agreed>>

\* ProviderCache::build, or the disabled cache.
ComputeKeys(r) ==
  LET me == run[r]
  IN  /\ me.phase = "walked"
      /\ \/ Become(r, [me EXCEPT !.phase = "ask", !.stale = FALSE,
                                  !.keys = [t \in Tools |-> VersionKey(t)],
                                  !.hashes = [t \in Tools |-> InputHash(t, me.cfg)]])
         \/ Become(r, [me EXCEPT !.phase = "ask", !.keys = [t \in Tools |-> None]])
      /\ UNCHANGED <<tree, config, tool, rows, baseline, events, agreed>>

Provider(me) == Providers[me.next]

Found(me, ran) ==
  LET kept == CommentScopedRun(Provider(me), me.comments, ran)
  IN  [me EXCEPT !.phase = "ask", !.next = @ + 1, !.ran = Skipped, !.crossed = FALSE,
                 !.states[Provider(me)] = kept.state, !.found = @ \o kept.findings]

RowFor(me) ==
  LET t == Provider(me)
  IN  {row \in rows : row.tool = t /\ row.version = me.keys[t] /\ row.hash = me.hashes[t]}

\* lookup: the provider is not run.
Reuse(r) ==
  LET me == run[r]
  IN  /\ me.phase = "ask" /\ me.next <= Len(Providers) /\ me.keys[Provider(me)] # None
      /\ \E row \in RowFor(me) :
           Become(r, [Found(me, row.ran) EXCEPT
                        !.sound = @ /\ ~row.crossed,
                        !.taken = [@ EXCEPT ![row.tool] = row.over]])
      /\ UNCHANGED <<tree, config, tool, rows, baseline, events, agreed>>

\* A miss, or a provider that cannot be cached: it is run.
RunProvider(r) ==
  LET me == run[r]  t == Provider(me)
  IN  /\ me.phase = "ask" /\ me.next <= Len(Providers)
      /\ IF me.keys[t] = None
         THEN Become(r, Found(me, ProviderRun(t, me.cfg)))
         ELSE /\ RowFor(me) = {}
              /\ Become(r, [me EXCEPT !.phase = "store", !.crossed = me.stale,
                                        !.ran = ProviderRun(t, me.cfg)])
      /\ UNCHANGED <<tree, config, tool, rows, baseline, events, agreed>>

\* Bug: every result is worth caching.
Cacheable(ran) == TRUE

\* Only a provider that ran is cached.
Usable(ran) == ran.state \in {"SUCCESS", "EMPTY"}

\* INSERT OR REPLACE under the key computed before; or the write fails, which
\* nobody notices.
StoreResult(r) ==
  LET me == run[r]  t == Provider(me)
      row == [tool |-> t, version |-> me.keys[t], hash |-> me.hashes[t], ran |-> me.ran,
              over |-> me.cfg.over, crossed |-> me.crossed]
  IN  /\ me.phase = "store"
      /\ \/ /\ rows' = IF Usable(me.ran) THEN (rows \ RowFor(me)) \cup {row} ELSE rows
            /\ UNCHANGED events
         \/ Usable(me.ran) /\ Event /\ UNCHANGED rows
      /\ Become(r, Found(me, me.ran))
      /\ UNCHANGED <<tree, config, tool, baseline, agreed>>

\* Fusion, then the suppression pass with the baseline there is; a torn one is
\* an error.
Finish(r) ==
  LET me == run[r]
  IN  /\ me.phase = "ask" /\ me.next > Len(Providers)
      /\ Become(r, IF baseline = Torn THEN Idle
                   ELSE [me EXCEPT !.phase = "report", !.keys = None, !.hashes = None,
                                   !.comments = Fuse(me.cfg, me.comments, me.found),
                                   !.found = Unattached(me.comments, InScope(me.cfg, me.found)),
                                   !.loaded = IF baseline = None THEN {} ELSE baseline,
                                   !.told = IF baseline = None THEN {} ELSE agreed])
      /\ UNCHANGED <<tree, config, tool, rows, baseline, events, agreed>>

\* `check` prints, persists and exits.
Report(r) ==
  /\ run[r].phase = "report" /\ "check" \in Ops
  /\ Become(r, Idle)
  /\ UNCHANGED <<tree, config, tool, rows, baseline, events, agreed>>

\* The baseline that is to be written: prune loads the file a second time, and
\* it must be there.
Prepare(r) ==
  LET me == run[r]
  IN  /\ me.phase = "report"
      /\ \/ "accept" \in Ops
            /\ Become(r, [me EXCEPT !.phase = "write", !.op = "accept",
                                    !.entries = Accept(me.comments)])
         \/ "prune" \in Ops
            /\ Become(r, IF baseline \in {None, Torn} THEN Idle
                         ELSE [me EXCEPT !.phase = "write", !.op = "prune", !.loaded = baseline,
                                         !.told = agreed, !.entries = Prune(baseline, me.comments)])
      /\ UNCHANGED <<tree, config, tool, rows, baseline, events, agreed>>

\* fs::write truncates the file and then fills it.
Truncate(r) ==
  /\ run[r].phase = "write"
  /\ baseline' = Torn
  /\ agreed' = {}
  /\ Become(r, [run[r] EXCEPT !.phase = "fill", !.comments = <<>>, !.found = <<>>, !.loaded = {}])
  /\ UNCHANGED <<tree, config, tool, rows, events>>

\* The severities of a tool's findings: the configuration's, when it was run, and
\* those its row was stored under, when that was taken.
Ranks(cfg, from) == IF from = None THEN cfg.over ELSE from

\* What decides what a check shows.
World(me) ==
  [tree |-> tree, tool |-> tool, cfg |-> [me.cfg EXCEPT !.failOn = Info],
   ranks |-> [t \in Tools |-> Ranks(me.cfg, me.taken[t])],
   heard |-> {t \in Tools : me.states[t] \in {"SUCCESS", "EMPTY"}}]

\* The world stood still, and no row is of a crossed run.
Trusted(me) == ~me.disturbed /\ me.sound

Fill(r) ==
  LET me == run[r]
  IN  /\ run[r].phase = "fill"
      /\ baseline' = me.entries
      /\ agreed' = IF Trusted(me) /\ (me.op = "accept" \/ World(me) \in me.told)
                   THEN {World(me)} ELSE {}
      /\ Become(r, Idle)
      /\ UNCHANGED <<tree, config, tool, rows, events>>

\* An error on the way, or a kill.
Stop(r) ==
  /\ run[r].phase # "idle"
  /\ Become(r, Idle)
  /\ Event
  /\ UNCHANGED <<tree, config, tool, rows, baseline, agreed>>

-----------------------------------------------------------------------------
(* The world                                                                *)

Disturb == run' = [r \in Runners |->
  IF run[r].phase = "idle" THEN run[r]
  ELSE [run[r] EXCEPT !.disturbed = TRUE, !.stale = run[r].phase \in {"ask", "store"}]]

Edit(f) ==
  /\ \E c \in Contents[f] \ {tree[f]} : tree' = [tree EXCEPT ![f] = c]
  /\ Disturb
  /\ Event
  /\ UNCHANGED <<config, tool, rows, baseline, agreed>>

\* A tool is installed, upgraded, broken, repaired or removed.
ToolTurn(t) ==
  /\ \/ \E v \in Versions \ {tool[t].version} : tool' = [tool EXCEPT ![t].version = v]
     \/ \E h \in Healths \ {tool[t].health} : tool' = [tool EXCEPT ![t].health = h]
  /\ Disturb
  /\ Event
  /\ UNCHANGED <<tree, config, rows, baseline, agreed>>

Reconfigure ==
  /\ \E c \in Configs \ {config} : config' = c
  /\ Event
  /\ UNCHANGED <<tree, tool, rows, baseline, run, agreed>>

\* The baseline file is text that an author may edit.
WriteByHand ==
  /\ \E b \in Baselines \ {baseline} : baseline' = b
  /\ agreed' = {}
  /\ Event
  /\ UNCHANGED <<tree, config, tool, rows, run>>

Init ==
  /\ tree \in {t \in [Files -> UNION {Contents[f] : f \in Files}] :
                 \A f \in Files : t[f] \in Contents[f]}
  /\ config = CHOOSE c \in Configs : TRUE
  /\ tool = [t \in Tools |-> [version |-> CHOOSE v \in Versions : TRUE, health |-> "ok"]]
  /\ rows = {}
  /\ baseline = None
  /\ run = [r \in Runners |-> Idle]
  /\ events = 0
  /\ agreed = {}

Providing(r) == ComputeKeys(r) \/ Reuse(r) \/ RunProvider(r) \/ StoreResult(r)

Ending(r) == Finish(r) \/ Report(r) \/ Prepare(r) \/ Truncate(r) \/ Fill(r) \/ Stop(r)

Change == (\E f \in Files : Edit(f)) \/ (\E t \in Tools : ToolTurn(t)) \/ Reconfigure \/ WriteByHand

Next ==
  \/ \E r \in Runners : Begin(r) \/ Providing(r) \/ Ending(r)
  \/ Change

Spec == Init /\ [][Next]_vars

-----------------------------------------------------------------------------
(* Properties                                                               *)

Phases == {"idle", "walked", "ask", "store", "report", "write", "fill"}

\* Each entry has a provider's rule, or comes from a file that an author wrote.
BaselineFile(b) ==
  b \in {None, Torn} \/ \A e \in b : e.rule \in Rules \/ \E h \in Baselines : e \in h

Types ==
  /\ tree \in [Files -> UNION {Contents[f] : f \in Files}]
  /\ config \in Configs
  /\ tool \in [Tools -> [version : Versions, health : Healths]]
  /\ \A row \in rows : row.tool \in Tools \ Unkeyed /\ Usable(row.ran)
                        /\ (row.ran.state = "EMPTY" <=> row.ran.findings = <<>>)
  /\ \A r \in Runners : run[r].phase \in Phases /\ run[r].next \in 1..(Len(Providers) + 1)
                         /\ (run[r].phase = "store" => run[r].keys[Provider(run[r])] # None)
  /\ events \in 0..MaxEvents

\* Every variable has its type; a check past the keys has a hash for every key,
\* and only results that can be used are cached.
TypeOK == Types /\ BaselineFile(baseline)

\* What a version of a tool has to say of contents, an [some files -> contents].
TruthOf(t, v, contents, over) ==
  LET fs == IF t \in ProjectScoped THEN DOMAIN contents
            ELSE {f \in DOMAIN contents :
                    LanguageOf[f] # None /\ (Languages[t] = {} \/ LanguageOf[f] \in Languages[t])}
  IN  Reports(t, v, [f \in fs |-> contents[f]], over)

\* A cached row is what that version of the tool says of the contents its hash
\* stands for, unless an edit or a tool change fell between the keys and the
\* run: no failure, no other configuration and no other check can put a wrong
\* row there.
RowIsOfItsKey ==
  \A row \in rows :
    ~row.crossed =>
      OfFiles(DOMAIN row.hash, row.ran.findings) = TruthOf(row.tool, row.version, row.hash, row.over)

\* What a provider would say now to a check without a cache, in the severities of
\* the row that was taken instead; of a failing tool that was not asked, what it
\* would say if it worked.
Now(t, me) ==
  IF tool[t].health = "ok" \/ me.taken[t] # None
  THEN IF t \notin ProjectScoped /\ FilesForProvider(t, me.cfg) = {} THEN Skipped
       ELSE Ran(TruthOf(t, tool[t].version, ContentHash(Universe(me.cfg)), Ranks(me.cfg, me.taken[t])))
  ELSE ProviderRun(t, me.cfg)

FoundNow(me) ==
  LET Of(i) == CommentScopedRun(Providers[i], Scan(me.cfg), Now(Providers[i], me)).findings
  IN  InScope(me.cfg, FlattenSeq([i \in 1..Len(Providers) |-> Of(i)]))

\* What it shows is what is found now, the comments' findings and the unattached ones.
Fresh(me, found) ==
  /\ me.comments = Fuse(me.cfg, Scan(me.cfg), found)
  /\ me.found = Unattached(Scan(me.cfg), found)

\* A check in a world that stands still shows what it would show without a cache,
\* whatever other checks stored, under whatever configuration and however they
\* ended, but for two things that the keys do not hold: a taken row ranks its
\* findings by the [severity] table it was stored under (see CacheIsNeverStale),
\* and a row of a run that an edit or a tool change had separated from its keys
\* speaks of another world; a check that took one of those is left out.
ReportIsFresh ==
  \A r \in Runners :
    LET me == run[r]
    IN  me.phase = "report" /\ ~me.disturbed /\ me.sound => Fresh(me, FoundNow(me))

\* As documented: a config change invalidates the cache, which never gives a
\* stale-wrong result (provider_cache.rs).  A check whose rows are all of runs that
\* nothing crossed shows what it would show without a cache.
CacheIsNeverStale ==
  \A r \in Runners :
    LET me == run[r]
        asked == [t \in Tools |-> IF me.taken[t] = None THEN None ELSE me.cfg.over]
    IN  me.phase = "report" /\ ~me.disturbed /\ me.sound =>
          Fresh(me, FoundNow([me EXCEPT !.taken = asked]))

Live(me) == LiveComments(me.comments, me.loaded)

\* After `baseline accept` a check of the same tree, tools and configuration shows
\* nothing, also after prunes and behind checks that failed, if the same tools
\* answer it and rank their findings by the same severities.  A row stored under
\* another [severity] table ranks them otherwise, and another finding may then
\* stand for its cluster, which was not accepted; checks that took a row of a
\* crossed run are left out, as in ReportIsFresh.
AcceptedIsClean ==
  \A r \in Runners :
    LET me == run[r]
    IN  me.phase = "report" /\ Trusted(me) /\ World(me) \in me.told =>
          \A n \in 1..Len(me.comments) : Live(me)[n].findings = <<>>

\* The entries a prune drops hide none of the findings it has seen, but for those
\* that an entry with a bare id alone had hidden: `baseline accept` never writes
\* one, a hand may.
PruneKeepsHiding ==
  \A r \in Runners :
    LET me == run[r]
        before == Suppressed(me.comments, me.loaded)
        after == Suppressed(me.comments, me.entries)
    IN  me.phase = "write" /\ me.op = "prune" =>
          /\ after \subseteq before
          /\ \A p \in before \ after :
               Entry(me.comments[p[1]], me.comments[p[1]].findings[p[2]].rule) \notin me.loaded

VerdictOf(me, comments, partial) ==
  Verdict(NewFindings(comments, me.loaded), me.cfg.failOn, partial)

\* What a provider would say if it worked; one that had nothing to run on, or
\* that was missing, still has nothing to say.
Repaired(t, me) ==
  IF me.states[t] = "SKIPPED" THEN Skipped
  ELSE Ran(TruthOf(t, tool[t].version, ContentHash(Universe(me.cfg)), Ranks(me.cfg, me.taken[t])))

FoundRepaired(me) ==
  LET Of(i) == CommentScopedRun(Providers[i], Scan(me.cfg), Repaired(Providers[i], me)).findings
  IN  FlattenSeq([i \in 1..Len(Providers) |-> Of(i)])

\* A CI diff that passes would pass as well were every tool repaired that had
\* failed: missing results never make a pass.
PassSurvivesRepair ==
  \A r \in Runners :
    LET me == run[r]
    IN  /\ me.phase = "report" /\ ~me.disturbed /\ me.sound
        /\ VerdictOf(me, me.comments, \E t \in Tools : me.states[t] = "PARTIAL") = "pass"
        => VerdictOf(me, Fuse(me.cfg, Scan(me.cfg), FoundRepaired(me)), FALSE) = "pass"

\* Whatever edits, failures and cached rows a check went through: each comment it
\* shows has one finding for each cluster of what was found in it, with the worst
\* severity and all the tools that saw it (ops/check.rs: fuse; dedup.rs).
EachIssueOnce ==
  [][\A r \in Runners :
       LET me == run[r]
           attached == AttachFindings(me.comments, InScope(me.cfg, me.found))
       IN  me.phase = "ask" /\ run'[r].phase = "report" =>
             \A n \in 1..Len(attached) :
               OnePerCluster(run'[r].comments[n].findings, attached[n].findings)]_vars

\* As documented: `disable-file` and a region reach to the end of their file, no
\* further.
DirectiveStaysInItsFile ==
  \A r \in Runners :
    LET me == run[r]  all == DirectivesOf(me.comments)
    IN  me.phase = "report" =>
          \A n \in 1..Len(me.comments) : \A i \in 1..Len(me.comments[n].findings) :
            LET f == me.comments[n].findings[i]
                here == SelectSeq(all, LAMBDA d : d.file = f.file)
            IN  SuppressedByDirective(f, all) => SuppressedByDirective(f, here)
=============================================================================
