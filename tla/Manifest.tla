------------------------------- MODULE Manifest -------------------------------
(***************************************************************************)
(* Provider adapters: how a tool is started, what counts as its run, and   *)
(* what is read from its output.                                           *)
(*                                                                         *)
(* A manifest is [version, command, format, languages, specs, categories,  *)
(* default, curated, system, fix].  An object of a tool's output maps the  *)
(* paths that are queried to scalars: <<"string", s>>, <<"number", n>>,    *)
(* <<"huge", s>> for a number beyond 32 bits, or <<"other">>.  Paths of    *)
(* files are sequences of names; an absolute one starts with "/".  Texts   *)
(* are those of Coordinates.                                               *)
(***************************************************************************)
EXTENDS Coordinates, FiniteSetsExt

CONSTANTS
  KeyLess(_, _),  \* the canonical order of findings
  Canonical(_)    \* a path without symbolic links, or the path itself

-----------------------------------------------------------------------------
(* Manifests                                                                *)

MANIFEST_VERSION == 1

\* The version of this build and the one before it.
ManifestIsSupported(version) == version <= MANIFEST_VERSION /\ version + 1 >= MANIFEST_VERSION

\* A manifest that does not parse is None.
FromToml(manifest) ==
  IF manifest = None THEN None
  ELSE IF ManifestIsSupported(manifest.version) THEN manifest ELSE None

BuiltinIds == <<"ruff", "shellcheck", "gitleaks">>

\* All of them, or an error for one.
LoadAll(assets) ==
  IF \E id \in ToSet(BuiltinIds) : FromToml(assets[id]) = None THEN None
  ELSE [i \in 1..Len(BuiltinIds) |-> FromToml(assets[BuiltinIds[i]])]

\* A provider may veto files of the scope it is given.
EffectiveScope(scope, vetoed) == SelectSeq(scope, LAMBDA f : f \notin vetoed)

-----------------------------------------------------------------------------
(* What is read from an output                                              *)

QueryString(node, path) ==
  IF path \notin DOMAIN node \/ node[path][1] = "other" THEN None
  ELSE IF node[path][1] = "number" THEN ToString(node[path][2]) ELSE node[path][2]

QueryU32(node, path) ==
  IF path \in DOMAIN node /\ node[path][1] = "number"
  THEN node[path][2] ELSE None

OrElse(x, default) == IF x = None THEN default ELSE x

\* A path of a spec that is no JSONPath; it is looked at when it is used.
BadPath == "$["

Fields == {"rule", "severity", "message", "file", "line", "column"}

\* A spec names the nodes, and in each node the fields; severity and column may
\* be None.
ExtractSpec(spec, output) ==
  LET nodes == IF spec.iterate \in DOMAIN output THEN output[spec.iterate] ELSE <<>>
      Raw(node) ==
        [rule |-> OrElse(QueryString(node, spec.rule), ""),
         file |-> OrElse(QueryString(node, spec.file), ""),
         line |-> OrElse(QueryU32(node, spec.line), 1),
         column |-> IF spec.column = None THEN None ELSE QueryU32(node, spec.column)]
  IN  IF spec.iterate = BadPath \/ (nodes # <<>> /\ \E f \in Fields : spec[f] = BadPath) THEN None
      ELSE [i \in 1..Len(nodes) |-> Raw(nodes[i])]

\* All specs, or None when one is no query.
ExtractJson(specs, output) ==
  LET parts == [i \in 1..Len(specs) |-> ExtractSpec(specs[i], output)]
  IN  IF \E i \in 1..Len(parts) : parts[i] = None THEN None ELSE FlattenSeq(parts)

\* The results of all runs; what is missing has its default.
ExtractSarif(output) ==
  LET Raw(node) ==
        LET Text(path) == IF path \in DOMAIN node /\ node[path][1] = "string" THEN node[path][2] ELSE ""
        IN  [rule |-> Text("ruleId"), file |-> Text("uri"),
             line |-> OrElse(QueryU32(node, "startLine"), 1), column |-> QueryU32(node, "startColumn")]
      results == IF "results" \in DOMAIN output THEN output["results"] ELSE <<>>
  IN  [i \in 1..Len(results) |-> Raw(results[i])]

IsAbsolute(path) == path # <<>> /\ Head(path) = "/"

StripPrefix(path, prefix) ==
  IF IsPrefix(prefix, path) THEN SubSeq(path, Len(prefix) + 1, Len(path)) ELSE None

\* Bug: the path is taken as the tool says it.
AsReported(file, root) == OrElse(StripPrefix(file, root), file)

\* The path of a file in the repository, through symbolic links on both sides.
Relativize(file, root) ==
  LET absolute == IF IsAbsolute(file) THEN file ELSE root \o file
      real == Canonical(absolute)
  IN  OrElse(StripPrefix(real, Canonical(root)),
        OrElse(StripPrefix(real, root), OrElse(StripPrefix(file, root), file)))

\* The line, from one, and the byte; zero when the text has no such place.
RangeFor(system, text, line, column) ==
  LET base == Base(system)
      byte == IF text = None THEN None
              ELSE ToByteOffset(system, text, line, OrElse(column, base))
  IN  [start |-> OrElse(byte, 0), end |-> OrElse(byte, 0),
       line |-> (IF line < base THEN 0 ELSE line - base) + 1]

\* The category of a rule, or None for one that is dropped.
CategoryOf(manifest, rule) ==
  IF rule \in DOMAIN manifest.categories THEN manifest.categories[rule]
  ELSE IF manifest.default # None THEN manifest.default
  ELSE IF manifest.curated THEN None ELSE "comment_style"

\* The text of a file as it is now, None when it cannot be read.
TextOf(sources, file) == IF file \in DOMAIN sources THEN sources[file] ELSE None

\* What a manifest's tool said, as findings, in order.
NormalizeOutput(manifest, output, root, sources) ==
  LET raw == IF manifest.format = "sarif" THEN ExtractSarif(output)
             ELSE ExtractJson(manifest.specs, output)
      Place(e) ==
        LET file == Relativize(e.file, root)
        IN  [file |-> file, rule |-> e.rule, category |-> CategoryOf(manifest, e.rule)]
              @@ RangeFor(manifest.system, TextOf(sources, file), e.line, e.column)
  IN  IF raw = None THEN None
      ELSE LET kept == SelectSeq(raw, LAMBDA e : CategoryOf(manifest, e.rule) # None)
           IN  SortSeq([i \in 1..Len(kept) |-> Place(kept[i])], KeyLess)

-----------------------------------------------------------------------------
(* A run                                                                    *)

FilesToken == "{files}"
RootToken == "{root}"

\* Bug: `{files}` stays when there is no file.
RunsWithoutFiles(manifest, files) == FALSE

\* A tool that takes a list of files is not started without one.
NothingToCheck(manifest, files) == files = <<>> /\ FilesToken \in ToSet(manifest.command)

\* The arguments; the root is made absolute, for the tool is started in it.
BuildArgs(manifest, files, root, absolute) ==
  FlattenSeq([i \in 1..Len(manifest.command) |->
    CASE manifest.command[i] = FilesToken -> files
      [] manifest.command[i] = RootToken -> <<absolute[root]>>
      [] OTHER -> <<manifest.command[i]>>])

\* A process ends with an output that parses, or with None; exit codes are not
\* looked at.  spawn has [started, output] for the arguments.
RunManifest(manifest, files, root, absolute, sources, spawn) ==
  LET args == BuildArgs(manifest, files, root, absolute)
      process == spawn[args]
      findings == NormalizeOutput(manifest, process.output, root, sources)
  IN  IF NothingToCheck(manifest, files) \/ args = <<>> THEN [state |-> "SKIPPED", findings |-> <<>>]
      ELSE IF ~process.started THEN [state |-> "SKIPPED", findings |-> <<>>]
      ELSE IF process.output = None \/ findings = None THEN [state |-> "PARTIAL", findings |-> <<>>]
      ELSE [state |-> IF findings = <<>> THEN "EMPTY" ELSE "SUCCESS", findings |-> findings]

\* The binary a command names: a path as it is, a name as the first on PATH.
ResolveExecutable(name, isPath, dirs, files) ==
  LET hits == {i \in 1..Len(dirs) : Append(dirs[i], name) \in files}
  IN  IF isPath THEN IF <<name>> \in files THEN <<name>> ELSE None
      ELSE IF hits = {} THEN None
      ELSE Append(dirs[CHOOSE i \in hits : \A j \in hits : i <= j], name)

\* The binary's content and the manifest, or None.
VersionKey(manifest, resolved, contents) ==
  IF manifest.command = <<>> \/ resolved = None THEN None
  ELSE <<contents[resolved], manifest>>

-----------------------------------------------------------------------------
(* eslint                                                                   *)

EslintCategories ==
  [r \in {"jsdoc/check-param-names", "jsdoc/check-types", "jsdoc/check-property-names"} |->
     "doc_drift"]
  @@ [r \in {"jsdoc/require-jsdoc", "require-jsdoc", "jsdoc/require-param",
             "jsdoc/require-returns", "jsdoc/require-description"} |-> "doc_missing"]
  @@ "no-warning-comments" :> "todo_format"
  @@ [r \in {"tsdoc/syntax", "jsdoc/check-alignment", "jsdoc/check-indentation",
             "jsdoc/no-multi-asterisks", "jsdoc/multiline-blocks"} |-> "doc_style"]

\* Its rules on comments; output is a sequence of [path, messages].
NormalizeEslint(output, root, sources) ==
  LET File(path) == OrElse(StripPrefix(path, root), path)
      Kept(messages) == SelectSeq(messages, LAMBDA m : QueryString(m, "ruleId") \in DOMAIN EslintCategories)
      Finding(path, m) ==
        [file |-> File(path), rule |-> m["ruleId"][2], category |-> EslintCategories[m["ruleId"][2]]]
          @@ [RangeFor("1-based-utf16", TextOf(sources, File(path)), OrElse(QueryU32(m, "line"), 1),
                       QueryU32(m, "column")) EXCEPT !.line = OrElse(QueryU32(m, "line"), 1)]
      Of(result) == LET kept == Kept(result.messages)
                    IN  [j \in 1..Len(kept) |-> Finding(result.path, kept[j])]
  IN  SortSeq(FlattenSeq([i \in 1..Len(output) |-> Of(output[i])]), KeyLess)

RunEslint(process, root, sources) ==
  IF ~process.started THEN [state |-> "SKIPPED", findings |-> <<>>]
  ELSE IF process.output = None THEN [state |-> "PARTIAL", findings |-> <<>>]
  ELSE LET findings == NormalizeEslint(process.output, root, sources)
       IN  [state |-> IF findings = <<>> THEN "EMPTY" ELSE "SUCCESS", findings |-> findings]

ReproducibilityLevel(runtime) == IF runtime = "hermetic" THEN "HERMETIC" ELSE "SEMI_HERMETIC"

-----------------------------------------------------------------------------
(* Pinned tools                                                             *)

MayUpdateBaseline(source) == source = "pinned"

\* Of the environment's directories for caches, or None.
ProviderCacheDir(env) ==
  IF "XDG_CACHE_HOME" \in DOMAIN env /\ env["XDG_CACHE_HOME"] # "" THEN <<env["XDG_CACHE_HOME"]>>
  ELSE IF "HOME" \in DOMAIN env /\ env["HOME"] # "" THEN <<env["HOME"], ".cache">> ELSE None

ProviderPath(dir, provider, version) == dir \o <<provider, version>>

\* A provider's state against the one a baseline recorded, [version, config].
Diagnose(baseline, current) ==
  [version |-> baseline.version = current.version, config |-> baseline.config = current.config]

IsComparable(report) == report.version /\ report.config
=============================================================================
