# Commenter-Cat: a TLA+ model

Commenter-Cat extracts the comments of a source tree, attaches findings to
them, and lets people and agents edit, remove and sweep comments with the
promise that code never changes. This directory holds TLA+ modules for its
components, TLC configurations that check small instances, and TLAPS proofs.
Definitions keep the names of the Rust code where TLA+ allows; `PROJECT.json`
maps each of them to the lines it models.

`E` is `src/crates/commenter-cat-engine/src`, `C` is
`src/crates/commenter-cat-core/src`, `L` is
`src/crates/commenter-cat-cli/src/cli`.

## The system

| component | state it keeps | operations | with whom |
|---|---|---|---|
| extraction (`E/extract`, `C/kind.rs`) | none | parse, classify, coalesce | check, strip, re-check |
| applier (`E/ops/apply`) | none | `apply_comment_edit`, `insert_comment`, `code_unchanged`, write protection | every writer of source |
| round trip, MCP and CLI write tools (`E/surface/roundtrip.rs`, `E/mcp`, `E/ops/index.rs`) | the source files | resolve an index row, read the file, edit in memory, write | index, applier |
| strip (`E/ops/strip.rs`) | the source files | walk, batch or one-by-one removal, tidy | extraction, applier |
| issue sync (`L/verbs.rs`, `E/issues`) | committed ledger, source files, tracker | file, look up, remove, save | check, applier, `gh` |
| index store (`E/ops/index.rs`, `E/storage`) | `index.db`, embeddings in `inputs.db` | `persist`, `Session` | check, every index-backed tool |
| provider cache (`E/ops/provider_cache.rs`, `E/storage/inputs_db.rs`) | provider results in `inputs.db` | build, look up, run, store | check, providers |
| check (`E/ops/check.rs`, `E/ops/normalize.rs`, `C/finding`) | none | native pass, providers, fuse, suppress | all of the above |
| baseline and CI (`E/ops/baseline`, `E/ci`) | committed baseline | accept, prune, verdict | check |
| suppression and export (`E/ops/suppress`) | source files (export) | match directives, write native ones | check, applier |
| identity (`C/identity`, `E/identity`) | identity rows | fingerprint, ordinals, tiered match | index, issues, baseline |
| search and agent surface (`E/search`, `E/surface`) | none | rank fusion, ranking, paging | index |
| rot and mapping (`E/rot`, `E/map`) | none | bind, detect | check, git, walk |
| configuration (`C/config`) | none | discover, merge, validate | every command |
| providers (`E/provider`, `C/finding/coordinates.rs`) | none | start a tool, read its output | check |
| rendering, command line, MCP (`E/render`, `L`, `E/mcp`) | none | dispatch, print, exit | all of the above |
| walk, git, hooks (`E/walk.rs`, `E/git`, `E/hooks`) | git's hooks path | walk, blame, install | check |

Nothing locks a source file, the ledger, the baseline or a database file. The
MCP server runs tool calls on a multi-threaded runtime, CLI processes run beside
it, git hooks start `check`, and authors save files in their editors; all of them
share the tree and `.commenter-cat/`. `fs::write` truncates and then fills. So the
hard behaviours are interleavings on files, records that describe an older text,
caches whose key was computed before the value, non-atomic writes, passes (strip,
sync, export) that stop half way, and providers that fail and look as if they
had found nothing.

What makes each component correct:

- applier and its callers: an author's code survives every edit; no
  behavior-bearing comment goes out of effect unacknowledged; a strip pass takes
  what its policy gives up, all of it, and nothing else.
- issue sync: a marker gets one issue; a comment goes only when its issues are
  closed; repeated syncs converge whatever failed.
- index store: a session sees the comments of one check, all of them once.
- provider cache and check: a hit returns what a run on the present content would.
- baseline and CI: a failed provider never passes a diff; an accepted world is clean.
- suppression: a directive acts in its own file; export is idempotent.
- the sequential parts: no finding is lost, doubled or moved by dedup, paging,
  coordinates, paths or an output format; a faithful comment is never flagged.

`PROJECT.json` lists every component and the hazards with the lines where they
bite.

## Modules

State machines, most important first:

**`SourceText`** (no state). A file is a sequence of atoms: code leaves, notes
(comment texts) and newlines; a byte offset becomes a position. It defines
extraction (`Nodes`, `Classify`, `Coalesce`), the stream of code leaves the
applier compares (`CodeSignature`), an edit and its acceptance (`Splice`,
`CommentEditOk`, `WriteProtected`), and the plan of a strip pass
(`Protection`, `BatchText`, `BatchOk`, `Tidy`). `Python` decides whether a
docstring is a string node. The grammar itself is external: that a line comment
runs to its line's end (`Swallowed`) and that an emptied Python suite changes
the tree (`BareSuite`) is all the model knows of it. `AuthorCode`, the code as
an author means it (no docstrings), is used in properties only.

**`SafeApply`** (extends `SourceText`). `disk` and `index` per file, and what
each client holds in memory. `Resolve`, `ReadAndVerify`, `Truncate`, `Fill`
are the steps of `apply_edit` and `remove` (a removal is an edit with the empty
text, as in the code); `StartStrip`, `StripFile`, `IsolateOne`, `IsolateDone`,
`SkipWrite` those of `strip`. A read may see a file that another client is
filling (`Views`). `Tear` and `Abandon` are failures and kills, `Check`
refreshes the index, `AuthorSave` is an editor. Two ghosts: `authored`, the code
the author last saved, and `exposed`, whether since then a write of the file was
overlapped or torn or a client held a text read before that save.

**`IssueSync`**. `marks` (what is in the source), `tracker`, `ledger` and `torn`
(the ledger file: the last whole content, and whether the file is cut off now),
and what each runner holds. `Scan`, `LoadLedger`, `Track`, `FileIssue` are the
forward half of `run_issues_sync`; `Ask`, `EditFile`, `WriteFile` are
`reconcile_resolved`; `SaveLedger` and `FillLedger` write the ledger, which
`fs::write` first truncates. A ledger that is cut off does not parse (it has no
`version`), so every sync that loads it ends; `Restore` is somebody checking
out the committed one or deleting the file. `LoseAnswer`, `SkipFile` and `Stop` are
the failures; `AuthorEdit` and `TrackerTurn` the world. A removal from a file that
changed since the scan may be refused or take something else (`Outcomes`): how the
applier deals with that is `SafeApply`'s subject.

**`IndexStore`**. `path` is the file at `index.db`, `files` every file there has
been (a removed one lives on for whoever has it open), `cache` the embeddings of
`inputs.db`, `run` and `ask` what each check and each client holds. `Begin`,
`LookForStale`, `RemoveStale`, `OpenIndex` are the head of `persist`;
`InsertComment`, `IndexText`, `ReuseVector` or `ComputeVector` and
`StoreVector`, `IndexVector`, `InsertFinding`, `StoreIdentity` its loop, one
SQL statement each because the code opens no transaction; `Finish` its return.
`Break` is a failing statement or a kill at any of these points. `FindIndex`,
`OpenSession`, `Search`, `Fetch` are a query; `Resolve` is the later call that
comes back with an id from it. Two ghosts: `made`, the check that last opened a
file, and `begun`, the checks with their tree, their model, whether they ran to
the end (`whole`) and whether another one ran meanwhile (`crossed`). SQLite
is external: a statement is atomic and durable, a row id is the connection's own
last insert, and what is written to one file is not seen in another.

**`IndexView`** is the abstract index: the comments of one check, as far as it has
come (`StartOver`, `Grow`). `IndexStore` implements it (`OneCheckShown`): what is
shown is the file at the path as long as no other check has persisted beside the one
that last opened it (`ByOneCheck`), and nothing otherwise; every other statement of
`persist` is a stutter.

**`CheckRun`** (extends `Suppression`, which extends `Findings`). `tree`, `config`,
`tool` (version and health of each provider) are the world; `rows` the cached provider
results, `baseline` the committed file, `run` what each process holds. `Begin` is the
walk and the native pass, `ComputeKeys` is `ProviderCache::build` (or `--no-cache`),
`Reuse`, `RunProvider` and `StoreResult` are lookup, run and store, one provider after
another; `Finish` fuses, attaches, deduplicates and loads the baseline; `Report` is
`check`, `Prepare`, `Truncate`, `Fill` are `baseline accept` and `prune`. `Edit`,
`ToolTurn` and `Reconfigure` are the world, `Stop` a failure or a kill. What a version
of a tool says of a content is a constant; a content stands for its hash. Ghosts per
process: whether the world moved since the check began, since its keys, before the
provider at hand; whether none of the rows it took is of a run that the world had
crossed (`sound`); and the severities under which each row it took was stored (`taken`).
`agreed` is a set of at most one world, the one in which the baseline was accepted:
tree, configuration, versions, which tools answered, and by which severities each ranked
its findings (`World`); `told` is what `agreed` was when a check loaded the baseline.
`TypeOK` is `Types` and `BaselineFile`, the latter about the rules that the baseline's
entries name. A tool's output is made file by file, in the order of the paths
(`Reports`), which is the order the code sorts it into.

**`Findings`** has severities, categories, normalization, attachment, the dedup
sweep and the CI verdict; **`Suppression`** the directives, the unified pass and
the baseline's entries.

The sequential parts are modules of operators, each checked against a definition
that says what it should come to:

| module | models | data kept |
|---|---|---|
| `Agent` | rank fusion, ranking, `bound`, the views of `check`, `candidates`, `strip` | ids, scores, costs |
| `Identity` | `cosmetic_fingerprint`, `match_comment` | words, blanks and delimiters; similarity as a relation |
| `Coordinates` | `CoordinateSystem::to_byte_offset` | characters with their widths in bytes and UTF-16 |
| `Manifest` (extends `Coordinates`) | manifests, JSON and SARIF extraction, `relativize`, `normalize`, runs, eslint, discovery, version keys, pinning | an output as the values its queries find |
| `Config` | layers, environment, merge, validation, resolution | settings and tokens |
| `Export` | the plan of `suppressions export`, `insert_comment` | a language and lines with directives, each in code, a string or a comment |
| `Tree` | the walk, its universe, blame | files with features, commits as times |
| `Binding` | comment to node and symbol, the symbol index, signatures | parse trees as pre-order sequences |
| `Rot` (extends `Tree`) | markers, intents, the five detectors, the pass | tokens |
| `Workspace` | cache directory, hooks, CI cache keys | paths |
| `Render`, `Cli` (extends `Agent`, `Render`) | the five formats, diagnostics, exit codes, the verbs | cells and records; characters where they are escaped |
| `Surface` | MCP tools and CLI verbs as calls of the engine | arguments and flags |

`MCSafeApply`, `MCIssueSync`, `MCIndexStore`, `MCCheckRun` give the constants
small values. `MCAlgorithms` holds one question at a time, `<<family, inputs>>`;
one action per family enumerates the inputs, so a property is checked for all of
them.

The proofs are in modules of their own, each on top of the module it is about:
`SourceTextProofs`, `SafeApplyProofs` (the code stream), `StripProofs` (what a removal
and a strip take and leave), `IndexStoreProofs` (rows), `IndexBuildProofs` (what a check
leaves, refinement), `IssueSyncProofs`, `FindingsProofs` (the operators on lists of
findings, the sweep among them) and `CheckRunProofs`.

Interaction. `SafeApply` and `IndexStore` meet in the index rows: `SafeApply`
abstracts the index to the records of one earlier text, which is what
`IndexView` promises. `CheckRun` composes the cache, the fuse loop, suppression,
the baseline and the verdict. `MCAlgorithms` composes sequential modules where the
code does: `Cli` with `Agent` and `Render`, `Manifest` with `Coordinates` and
`Cli`, `Rot` with `Binding` and `Tree`.

## What the runs check

| run | question | bound | distinct states |
|---|---|---|---|
| `safe_apply` | edits, removals and strips of a TypeScript file by two clients | one file, 2 operations | 314k |
| `strip` | two strip passes over Python, policies with and without license, tidy, kept kinds | 2 operations | 214k |
| `stale_edit` | violation: an unacknowledged write takes a directive out of effect | | |
| `stale_docstring` | violation: a stale docstring record deletes code | | |
| `issue_sync` | two syncs in any order or overlapping, failures, kills, edits, tracker changes, torn ledgers; convergence | 2 comments, 2 tokens, 3 events | 533k |
| `live_work` | violation: a comment goes while an issue filed in the same sync is open | | |
| `double_file` | violation: a sync that ends before its save files twice | | |
| `index_store` | two checks in any interleaving, kills at any statement, a change of model, a session and an id used across checks; refinement of `IndexView` | 2 checks, 2 trees, 2 models | 4.4M |
| `check_pipeline` | two processes that check, accept and prune, with edits, tool and configuration changes, failures, kills | 2 events, 3 files, 2 providers, 2 versions, 2 configurations | 1.3M |
| `stale_severity` | violation: rows stored under one `[severity]` table are shown under another | | |
| `muted_file` | violation: a `disable-file` hides the findings of another file | | |
| `algorithms` | the sequential modules, seventeen properties | see each family's comment | 157k |

Why the bounds are enough. In `SafeApply` an operation is four to six steps and
the interesting cases need two: one that makes the index stale or overlaps, and
one that works from it. The texts in `AuthorVersions` hold a shebang or an
encoding declaration, a directive, adjacent line comments, code before and after
comments, and for Python a docstring alone in its suite and one that is not.
In `IssueSync`, three events let an issue be closed, a comment be edited and a
sync be killed in one behaviour, or a sync die in its save, the file be deleted
and another start meanwhile; one comment carries two markers and shares one of
them with a comment the applier refuses to remove.
In `IndexStore` the hazards need a stale build and the check that replaces it, or
two checks at once: two checks are the least that do. The trees share a comment
under different ids, one tree holds two comments with one identity base, and
comments with and without findings occur.
An author may replace the baseline by one that names a rule by its bare id. In
`CheckRun` a wrong row needs an edit or a tool change in one process and a
lookup in another; a wrong baseline an accept and a prune around a tool that
breaks. Two events are the least for each, a restarted process costs none, and
the second process may begin at any point of the first. One provider is given
files and counts in comments only, the other is given the root; one file has
no comments, one has a directive, findings occur inside and outside comments,
two of them overlapping, and one rule belongs to no category.
In `algorithms` each family has the least inputs in which its hazard occurs (three
findings for a cluster joined by its middle, two lines for a directive above a
line, three layers of configuration), and all of them up to that size. Rank fusion
has, besides all short lists, lists of 64 that share one id at the ranks around 61,
where agreement ceases to win, with limits whose pool cuts them before and after
that; the export has two files in two languages, either of which may be refused; a
page may be asked for with limit zero, and with no tokens to spend.

Deadlock is not checked in the index run: a model that has used up its checks
stops, and so does a client while there is no index to open.

The properties:

- `CodeKept`: parse-invariance end to end, from however stale an index.
- `RemovalKeepsBearing`: a removal that works from a record of the present text,
  or a strip, leaves every behavior-bearing comment in effect.
- `StripKeepsProtected`, `StripTakesTheRest`: a strip pass takes what its policy
  gives up and nothing else, in the batch and in the one-by-one path. The one
  exception is a Python suite's only statement.
- `RefiledOnlyAfterClosed`: without a mishap (a sync cut off after filing, a
  lost answer, overlapping syncs, a deleted ledger), a token is filed again only
  after its earlier issue was closed.
- `GivenUpOnlyWhenClosed`: a comment goes only when each of its issues the
  ledger knew was closed at some time.
- `Converges`: once the world rests, every marker has an issue and every comment
  whose issues are closed is gone, unless removing it is unsafe, or a sync that
  was killed left the ledger cut off and nobody ever restores it.
- `RowsAligned`: text, vector, findings and identity under an id are those of the
  comment with that id, also in a file into which two checks insert.
- `WholeWhenDone`: a check that returns and that no other crossed leaves
  its comments, all of them once, in order, fully indexed, whatever was there.
- `VectorsOfOneModel`: a file's vectors are of the model of the check that wrote
  it, although the cache outlives models.
- `IdKeepsItsComment`: an id from a query resolves later to the same comment or
  to none while the tree is the same, although every check renumbers.
- `OneCheckShown`: whoever opens an index that one check fills with no other beside
  it finds a prefix of that check's comments.
- `RowIsOfItsKey`: a cached row is what that version of the tool says of the
  contents its hash stands for, unless an edit or a tool change fell between the
  keys and the run.
- `ReportIsFresh`: in a world that stands still, a check shows what it would show
  without a cache, whatever earlier checks stored, but for the severities of the
  rows it took, which are those they were stored under. Checks that took a row of a
  run that an edit or a tool change had separated from its keys are left out.
- `CacheIsNeverStale` (violated): the same with the severities of now, as
  `provider_cache.rs:12-17` has it.
- `AcceptedIsClean`: after an accept, a check of the same world shows nothing, also
  after prunes and behind failed checks. The same tools must answer it, and rank by
  the same severities: a row stored under another `[severity]` table may make
  another finding stand for a cluster, which the baseline does not have.
- `PruneKeepsHiding`: what a prune drops hides nothing it has seen, but for what a
  bare id alone had hidden (a hand-written entry: `accept` writes none).
- `PassSurvivesRepair`: a CI diff that passes would pass with every failed tool
  repaired.
- `EachIssueOnce`: the step in which a check comes to its report leaves, in each
  comment, one finding for each cluster of what tools and detectors found there, cached
  or not: the worst, with the names of the others.
- `AgreementWins`: what both signals rank among their first 61 comes before what
  one of them finds.
- `PagesCoverAll`: following a cursor to the end shows everything once, for every
  budget and every limit but zero, with which nothing is ever shown.
- `FingerprintSurvivesReflow`, `RivalsAreRefused`: identity across layouts, and
  no guess between rivals in either order.
- `PointsKeepTheirPlace`, `FindingsAreOfGivenFiles`: a tool's report reaches the
  byte and line of the file it was about, and none it was not run on.
- `OneFindingPerCluster`: dedup against a definition by connected overlap, in
  both orders.
- `NearestLayerWins`: each setting against the nearest place that names it; what
  cannot be read is an error.
- `ExportSettles`: in every file before the first that is refused, a directive
  where the tool looks for it, new ones with the rule's name and obeyed (but within
  a block comment); the code as it was; the refused file and all after it
  untouched; the same export once more changes nothing.
- `ExistingPathsPass`, `TouchedCommentIsFresh`: no path that exists and no comment
  that was touched with its code is flagged.
- `IndexedIsNeverDangling`: nor is a name whose definition the symbol index holds;
  it does not hold constants, second declarators, fields and shell variables, which
  are flagged.
- `FaithfulDocPasses`: nor a docstring that claims what the function does, and each
  broken claim is one finding. A bare `raise`, a thrown text and a parameter without
  a plain name are the exceptions.
- `ExitTellsWhatIsShown`: the exit code against what is shown, and every one of
  the five formats read back (RFC 4180, table rows, records, SARIF results).
- `FailureIsTold`: `check`, `baseline accept` and `suppressions export` say of a tool
  that it was not started, that its output is torn, or that its manifest is broken;
  they say nothing exactly of the output that parses and holds nothing the manifest
  asks for, whatever the tool's exit code.
- `InterfacesAgree`: a wish said to an MCP tool and to the CLI verb of that name
  is the same operation, every default included.
- `RestoredIsComparable`: what CI restores was made with the same tools,
  configurations, rule set and schemas.

Six runs expect a violation: they state what the documentation promises and
TLC finds the behaviour in which the code does otherwise (`PROJECT.json`,
"findings").

Fairness. Only `FairSpec` of `IssueSync` assumes any: weak fairness of each
runner's own steps, that is, whoever runs `issues sync` (a CI job) keeps running
it. Nothing is assumed of authors, the tracker or failures except that they are
finitely many (`MaxEvents`), which is what "once the world rests" means.

## What is proved

TLAPS proves, for all values of the constants under `SourceAssumption`,
`ApplyAssumption`, `IndexAssumption`, `IssueAssumption`, `FindingsAssumption`,
`CheckRunAssumption` and `WorldAssumption` (any number of clients, writers, runners,
files and tools, any texts, trees, models, configurations and findings, any bound):

| theorem | states | module |
|---|---|---|
| `TypeCorrect` | `Spec => []TypeOK` | `SafeApply` |
| `CodeIsKept` | `~Python => (Spec => []CodeKept)` | `SafeApply` |
| `StripKeepsCode` | `StripSpec => []CodeKept`, Python included | `SafeApply` |
| `PlansHold` | `Spec => []Plans`, the invariant below | `SafeApply` |
| `ProtectedIsKept` | `Spec => []StripKeepsProtected` | `SafeApply` |
| `BearingIsKept` | `Spec => []RemovalKeepsBearing` | `SafeApply` |
| `RestIsTaken` | `~Python => (Spec => []StripTakesTheRest)` | `SafeApply` |
| `IndexTypeCorrect` | `Spec => []TypeOK` | `IndexStore` |
| `RowsStayAligned` | `Spec => []RowsAligned`, with overlapping checks too | `IndexStore` |
| `OneCheckImplemented` | `Spec => OneCheckShown`: the detailed index implements the abstract one, with overlapping checks too | `IndexStore` |
| `FinishedCheckIsWhole` | `Spec => []WholeWhenDone` | `IndexStore` |
| `OneModelPerFile` | `Spec => []VectorsOfOneModel` | `IndexStore` |
| `IdsKeepTheirComments` | `Spec => []IdKeepsItsComment` | `IndexStore` |
| `IssueTypeCorrect` | `Spec => []TypeOK` | `IssueSync` |
| `GivesUpOnlyClosed` | `Spec => []GivenUpOnlyWhenClosed` | `IssueSync` |
| `RefilesOnlyClosed` | `Spec => []RefiledOnlyAfterClosed` | `IssueSync` |
| `CheckTypes` | `Spec => []TypeOK`, the rules of the baseline's entries included | `CheckRun` |
| `RowsAreOfTheirKeys` | `Spec => []RowIsOfItsKey` | `CheckRun` |
| `CacheIsUnseen` | `Spec => []ReportIsFresh` | `CheckRun` |
| `AcceptedStaysClean` | `Spec => []AcceptedIsClean` | `CheckRun` |
| `PruneUncoversNothing` | `Spec => []PruneKeepsHiding` | `CheckRun` |
| `NoPassForWantOfResults` | `Spec => []PassSurvivesRepair` | `CheckRun` |
| `IssuesAreMerged` | `Spec => EachIssueOnce`, an action property | `CheckRun` |
| `DedupIsOnePerCluster` | `OnePerCluster(DedupFindings(findings), findings)` for every list of findings as reported for one file | `Findings` |
| `DedupIgnoresOrder` | every permutation of such a list leaves the same findings | `Findings` |

The assumptions give the constants their types and say little more: code leaves,
comments and the newline differ, the providers are the built-in ones with an id
each, what a tool says of a file is a finite list of points, and so is what a
comment holds, in which a finding does not end before it starts; severities are
those of the scale, and the rules of the native detectors have a category; the order
of rules, by name, tells any two apart. TLC evaluates them in every run.

`CodeKept` is not inductive: it says nothing of what clients hold. The invariant
`Sound` adds that, for each file that is not exposed, every text a client has
read or computed from it has the author's code (`HeldCode`), at most one
client is writing it (`OneWriter`), a file being written is empty until it is
filled (`Truncated`), and the file on disk has the author's code when nobody is
writing it (`DiskCode`). A step of a client preserves `HeldCode` because the
applier compared the streams (`EditKeepsCode`, `BatchKeepsCode`,
`TidyKeepsCode`: lemmas over all texts and all records, current or stale), a
write preserves `DiskCode` because the text written is a held one, and an author's
save makes exposed whatever clients hold. Outside Python no leaf is ever left
out of the comparison. In Python the range of a docstring's record is, and of two
streams with docstrings left out only the code can be compared (`CodeIsAuthorCode`):
the edit keeps it unless that range has come to cover code, which is why `CodeIsKept`
excludes Python and why `stale_docstring` fails. A strip pass extracts the records
from the text it rewrites, and tries them from the end of the file, so that the range
of each still holds what it held (`DocstringsStand`, from `Plans` below); hence
`StripKeepsCode`, which is what the run `strip` checks.

The strip's properties speak of what is about to be written. `Plans` of `StripProofs`
says how it came about: a pending edit is the splice that was verified against the
source as read (`Edited`), and the text of a strip pass is its source at the
positions that some set of records, all given up by the policy, leaves
(`Stripped`), tidied or not (`Batched`); in the one-by-one path the records still to
be tried lie before all that are gone (`Isolated`), which is why their ranges still
hold. What remains is about texts: records of one extraction never overlap, a
record that holds a newline starts a line, and a line comment ends where its line
does. So a deletion neither moves a protected comment into another one nor lets a
line comment swallow what followed it, and the tidy, which drops blank lines, takes
no comment. Outside Python no batch is ever refused, hence the strip is complete;
in Python a refused batch is isolated and a suite's only statement stays, and the
property is left to TLC there.

`RowsAligned` speaks of files only. The invariant `Sound` of `IndexStoreProofs` adds
what a writer holds: from `InsertComment` to `StoreIdentity` its file exists, its
row id is a row of that file, that row is the comment it is at, and its vector is
of that comment's text, as is every cached vector. Rows are only ever appended, so
another writer's insert into the same file leaves what it holds true.

`WholeWhenDone` is about a check that ended, `VectorsOfOneModel` about its file and
`IdKeepsItsComment` about what a client remembers of it. `OneBuild` of
`IndexBuildProofs` joins them, under any number of overlapping checks: two checks that
persist at once are both marked as crossed (`Checks`); a writer that nobody crossed
has the file at the path to itself, and a file no check has opened is empty (`Ours`);
a file of one check holds a prefix of its list and vectors of its model (`Files`);
each of the four tables is as far as the writer's place in the loop says, its last
findings being those of the comment at hand (`Building`); and what a client read is of
the check it names (`Asked`). When the loop ends, "as far as" is all of it.

`OneCheckShown` follows from the same invariant. A file that `ByOneCheck` shows holds
a prefix of its check's list, and only that check's writer inserts into it, so that
its next insert is the comment that comes next. Each step then maps to `StartOver`
(`RemoveStale`; `OpenIndex`, which gives an empty file to its check; a `Begin` that
crosses the check shown), to `Grow` (`InsertComment`) or to a stutter.

`GivenUpOnlyWhenClosed` is about the comments that are gone; what a runner holds
decides which go. The invariant `Sound` of `IssueSyncProofs` adds that an issue that
is closed now counts as having been closed (`Closing`), and that a runner's ledger
names issues under their own tokens, that what it takes for closed was closed, and
that each issue it tracks for a comment it gives up is one of those (`Held`). Another
runner disturbs none of this: issues are only ever added, and what was closed once
stays so.

`RefiledOnlyAfterClosed` needs `Orderly` besides, which holds until a mishap: at
most one runner is under way (`OneAtATime`), and the ledger it works with, or the
saved one when nobody has filed since, has the last issue of each token that may
still be open (`Covers`), so that no sync takes its token for a new one.

`PruneKeepsHiding` compares what a prune loaded with what it is about to write.
The invariant `Holds` of `CheckRunProofs` says that the entries a prune holds are
those of the file it loaded whose identity its own check still found, whoever
wrote that file meanwhile; an entry with a finding's own rule is then among them.

The other properties of `CheckRun` share one invariant, `Right`. A row fits its key
(`Fits`): restricted to the files the key hashes, its findings are the tool's output on
those contents, and the output of a tool that is handed files is exactly that. The keys
a check holds are those of the world until an edit or a tool change (`Current`); the
result it is about to store fits them unless that happened before the run (`AtHand`). A
check that nothing disturbed has gathered, provider by provider, what in scope counts of
a run now, or of the run that was stored, in the severities it was stored under
(`Gathered`), and shows what fusing that gives (`Shows`). The step that carries this is
that a project-scoped tool reports files that the key does not hash, and that the scope
drops them: taking the findings of some files commutes with concatenation, with what
counts of a comment-scoped tool, and with a tool's output, because that is a sorted list
per file (`NormalizeOfFile` and `KeepTwice` in `FindingsProofs`). From there
`AcceptedIsClean` needs that what was accepted covers every finding of a check of that
world, with its severities and the tools that answered in it (`Accepts`), which a prune
in that world preserves since it keeps every entry that still occurs, and
`PassSurvivesRepair` that a check without a PARTIAL has gathered what the repaired tools
would say. `Typing` adds that a result that is to be stored has a key. `Ruling` follows
a finding instead: those of a cached row, of a scan and of what is gathered have a rule,
a category, a severity and a span that does not end before it starts, and name no other
tool yet (`FairList`); those that are shown have a place, and the entries made of them a
rule (`SitedComments`, `Ruled`). The first is what `IssuesAreMerged` needs of what a
check fuses, the second the rest of `TypeOK`.

`FindingsProofs` is where lists are reasoned about. A library operator that is defined
by recursion (`FlattenSeq`) is tied to its result at every prefix, and a property
of all prefixes follows from the least one at which it would fail (`Reaches`, from
well-founded induction over sets). That a sort loses and invents nothing is
counted: each finding has a place of its own (`EveryRank`).

`DedupIsOnePerCluster` compares two definitions of an issue seen twice: the sweep,
which joins a finding that starts before the running cluster ends, and the sets that
no overlap leads out of (`Cluster`). The sweep's invariant (`SweptSoFar`) is that
what it has are disjoint groups of which each ends before the next starts, that no
set closed under overlaps parts one (`Tight`), that the worst finding of each stands
for it (`MergeStands`), and that the running end is that of one of the last group.
At the end of a category each group is closed too (`SweepPartitions`), and a closed
and tight group is a cluster. The categories are then put one after the other, and
the final sort moves clusters along with what stands for them. Since spans come
sorted into the sweep, of two with the same severity and key the one that ends first
stands for both, so that the one that stands is determined (`StandsUnique`);
clusters move with a permutation of the list (`ClustersMove`), and
`DedupIgnoresOrder` follows. Two findings at one place of one rule are equal in the
model, which leaves out their messages.

Only model-checked:

- `StripTakesTheRest` for Python strips. It is not true of every sequence of atoms: a
  docstring directly before another that stays would be refused, since the other
  slides to its place and is taken for it. No Python file has two docstrings with
  nothing between them, and a proof would need such facts of its grammar, which the
  model leaves out; the runs' texts have them.
- The other sequential modules (`algorithms`): `FoldLeft`, `SortSeq` and `SelectSeq`
  take operators as arguments, of which the provers know nothing, and `Findings` does
  without them where the others use them.
- `Converges`: liveness under fairness is out of TLAPS's reach.

## What the code does that its documents do not say

Besides the six findings, these came up while modelling; the model has the code's
behaviour.

- The MCP `check` ranks all findings, suppressed ones too (`E/mcp/mod.rs:91-163`);
  `check` on the command line hides them.
- The hooks' script hands changed files to `check`, whose root is the first of
  them: the cache directory would lie under a file, `check` fails, and `|| true`
  hides it. Of a merge or a root commit `git diff-tree HEAD` says nothing.
- Configuration is looked for from the given root upwards, and a relative root ends
  at the working directory; cache, baseline and ledger lie at the given root.
- Rank fusion lets what both signals rank high outrank the rest (`E/search/rrf.rs:3-6`)
  only down to rank 61: two 63rd ranks weigh less than one first.
- Blame has the lines of HEAD, the comments those of the working tree.
- An export that is refused in one file ends with the files before it written and
  leaves those after it alone; `E/ops/suppress/export.rs:123-124` has it that a
  refusal aborts that file. A gitleaks finding on a line of JavaScript code is such
  a refusal: `# gitleaks:allow` is no comment there. A directive that is written
  above a line within a block comment is never obeyed, and any directive of the same
  origin counts as present, whatever it names.
- `[markers.severity]` replaces, `[severity]` merges key by key; an environment
  variable that holds a comma sets a list to empty.
- `candidates` and `strip` answer with a cursor that no argument takes. A limit
  of zero answers with no item and the cursor it was given, though
  `E/surface/token_economy.rs:75-76` promises an item whenever one remains.
- A baseline entry by category or origin is never matched. One by bare id hides its
  finding, and `prune` drops it while the finding still occurs: `prune` compares
  with `provider_rule_id`s only (`E/ops/baseline/mod.rs:47-57`), whose comment says
  that it drops entries whose identity no longer occurs. A torn baseline makes
  every later check fail, `baseline accept` included.
- A documented exception is reported as not raised when the function has only a bare
  `raise` or throws a text, though `E/rot/signature/sig_extract.rs:11-12` has it that this
  happens only if there truly is none. So is, as absent, a documented parameter without
  a plain name, which `:134-135` calls handled conservatively: in JavaScript one that
  is destructured, has a default or collects the rest, in Python a splat with a type.
- A constant of Python, a second declarator, a field and a shell variable are not in
  the symbol index, so that a comment that names them is flagged as dangling, against
  `E/rot/reference.rs:19-20` and `E/rot/symbol_index.rs:16-18`.
- A tool that prints JSON in which no query finds anything counts as one that found
  nothing, whatever its exit code (`E/provider/manifest/mod.rs:347`), and nothing is
  said of it (`L/verbs.rs:238-251`).
- Decorated Python functions bind to the enclosing scope; a backticked
  file name is looked up as a symbol too.
- A place that cannot be converted becomes byte 0 of the file.

## What is not modelled

- Bytes. A stale range is a range of whole atoms, so a range that cuts a token
  in two (which the applier sees as changed leaves) does not occur.
- Whitespace other than newlines; the tidy's trimming of trailing blanks.
- The line limit of license headers, comment text other than its class.
- A ledger or baseline cut off between two entries, which would parse: a file
  being written is unreadable until it is whole.
- What SQLite keeps beside a database file: a removed `index.db` leaves its `-wal`
  and `-shm` files at their paths, and what a second connection makes of them is
  SQLite's business.
- What an FTS or vector query scores; `derive_into` and `needs_rebuild`
  (`E/storage/rebuild.rs`), which only tests call.
- Grammars (tree-sitter), TOML and JSON parsing, hashes, cosine similarity, ignore
  patterns, git, subprocesses: functions or given values, marked external.
- Dry runs of `issues sync` (they change nothing). Dry strips are modelled.
- Help texts, the JSON-RPC transport, layout and wording of output.

Some definitions are stated from the code and no run asks about them, because
what they say is a table or one branch: the verbs `RunCandidates`, `RunContext`,
`RunDoctor`, `RunQuery`, `RunStrip`, `EditReport`, `IssueRequest`,
`RunInstallHooks` of `Cli`; `StripTool` of `Agent`; `EffectiveScope`,
`ResolveExecutable`, `VersionKey`, `RunEslint`, `ReproducibilityLevel`,
`MayUpdateBaseline`, `ProviderCacheDir`, `ProviderPath`, `Diagnose` of `Manifest`;
the hooks of `Workspace`; `Descriptors` of `Surface`.

## What is left

Of the sequential modules: that a page of `Bound` always makes progress, which needs
its folds written over positions, as those of `Findings` are.
