-------------------------------- MODULE Config --------------------------------
(***************************************************************************)
(* Layered configuration: environment variables, the config files from a   *)
(* directory upwards, a global file, and defaults.                         *)
(*                                                                         *)
(* A layer names some settings; [severity] overrides are a table of their  *)
(* own.  Values are tokens, sequences of tokens, numbers or tables.  What  *)
(* an environment variable holds is the sequence of its parts between      *)
(* commas, without the blanks around them.                                 *)
(***************************************************************************)
EXTENDS Naturals, Sequences, SequencesExt

CONSTANTS None

CONFIG_VERSION == 1

Languages == <<"python", "typescript", "javascript", "shell">>

Severities == {"info", "warning", "error", "critical"}

CommentKinds ==
  {"line", "block", "docstring", "shebang", "license", "encoding-decl", "directive"}

\* Those with an environment variable, by what the variable holds.
TokenSettings ==
  "providers.on_missing" :> {"warn", "error"} @@ "severity.fail_on" :> Severities
    @@ "search.embeddings" :> {"local"}
    @@ "output.default_format" :> {"terminal", "jsonl", "sarif", "markdown", "csv"}
TokenListSettings ==
  "scan.languages" :> ToSet(Languages) @@ "scan.suppress_kinds" :> CommentKinds
BooleanSettings == {"scan.respect_gitignore"}
ListSettings == {"scan.extra_ignores", "markers.custom"}
StringSettings ==
  {"providers.python", "providers.javascript", "providers.typescript", "providers.shell",
   "providers.secrets", "providers.docstring_convention"}

\* The settings that files alone can name.
FileSettings ==
  {"markers.severity", "rot.reference_liveness", "rot.signature_contract", "rot.path_existence",
   "rot.git_drift", "rot.semantic_contradiction", "rot.git_drift_age_threshold_days",
   "rot.semantic_confidence_threshold"}

EnvSettings ==
  DOMAIN TokenSettings \cup DOMAIN TokenListSettings \cup BooleanSettings \cup ListSettings
    \cup StringSettings

Settings == EnvSettings \cup FileSettings

\* What is not named anywhere.
Default ==
  "scan.respect_gitignore" :> TRUE @@ "scan.languages" :> Languages
    @@ "scan.extra_ignores" :> <<>> @@ "scan.suppress_kinds" :> <<"license", "shebang">>
    @@ "providers.python" :> "ruff" @@ "providers.javascript" :> "eslint"
    @@ "providers.typescript" :> "eslint" @@ "providers.shell" :> "shellcheck"
    @@ "providers.secrets" :> "gitleaks" @@ "providers.on_missing" :> "warn"
    @@ "providers.docstring_convention" :> None
    @@ "markers.custom" :> <<>> @@ "markers.severity" :> <<>>
    @@ "rot.reference_liveness" :> TRUE @@ "rot.signature_contract" :> TRUE
    @@ "rot.path_existence" :> TRUE @@ "rot.git_drift" :> TRUE
    @@ "rot.semantic_contradiction" :> FALSE
    @@ "rot.git_drift_age_threshold_days" :> 30 @@ "rot.semantic_confidence_threshold" :> 35
    @@ "severity.fail_on" :> "error" @@ "search.embeddings" :> "local"
    @@ "output.default_format" :> "terminal"

Layer(version, set, over) == [version |-> version, set |-> set, over |-> over]

-----------------------------------------------------------------------------
(* The environment                                                          *)

\* Unset, or blank.
EnvValue(env, s) == IF s \notin DOMAIN env \/ env[s] = <<"">> THEN None ELSE env[s]

ToLower(token) == CASE token = "TRUE" -> "true" [] token = "FALSE" -> "false" [] OTHER -> token

SplitCsv(parts) == SelectSeq(parts, LAMBDA t : t # "")

\* Whether a value that is set can be parsed.
Parses(env, s) ==
  LET v == EnvValue(env, s)
  IN  \/ v = None \/ s \in ListSettings \cup StringSettings
      \/ s \in BooleanSettings /\ Len(v) = 1 /\ ToLower(v[1]) \in {"true", "false"}
      \/ s \in DOMAIN TokenSettings /\ Len(v) = 1 /\ v[1] \in TokenSettings[s]
      \/ s \in DOMAIN TokenListSettings /\ ToSet(SplitCsv(v)) \subseteq TokenListSettings[s]

FromEnv(env) ==
  LET named == {s \in EnvSettings : EnvValue(env, s) # None}
      Value(s) ==
        LET v == EnvValue(env, s)
        IN  CASE s \in BooleanSettings -> ToLower(v[1]) = "true"
              [] s \in ListSettings \cup DOMAIN TokenListSettings -> SplitCsv(v)
              [] s \in DOMAIN TokenSettings -> v[1]
              [] OTHER -> IF Len(v) = 1 THEN v[1] ELSE v
  IN  IF \E s \in EnvSettings : ~Parses(env, s) THEN None
      ELSE Layer(None, [s \in named |-> Value(s)], <<>>)

-----------------------------------------------------------------------------
(* Files                                                                    *)

\* A path is [absolute, names]; a relative one starts in the working directory.
\* The directories on the way up, the nearest first: of a relative path as far as
\* the working directory.
Ancestors(start) ==
  [i \in 1..(Len(start.names) + 1) |->
     [start EXCEPT !.names = SubSeq(@, 1, Len(@) - (i - 1))]]

Absolute(path, cwd) == IF path.absolute THEN path.names ELSE cwd \o path.names

\* files maps directories to what their config file holds: a layer, or None when
\* it is no TOML or a setting has no such value.
WalkUpConfigPaths(files, start, cwd) ==
  SelectSeq([i \in 1..(Len(start.names) + 1) |-> Absolute(Ancestors(start)[i], cwd)],
            LAMBDA dir : dir \in DOMAIN files)

LoadFile(layer) ==
  IF layer = None THEN None
  ELSE IF layer.version # None /\ layer.version > CONFIG_VERSION THEN None ELSE layer

\* XDG_CONFIG_HOME, or else the home directory's .config.
GlobalConfigPath(env) ==
  IF EnvValue(env, "XDG_CONFIG_HOME") # None THEN "xdg"
  ELSE IF EnvValue(env, "HOME") # None THEN "home" ELSE None

-----------------------------------------------------------------------------
(* Layers                                                                   *)

Or(hi, lo) == IF hi # None THEN hi ELSE lo

\* Bug: the overrides are one setting like all others.
MergeWholeTables(hi, lo) ==
  Layer(Or(hi.version, lo.version), hi.set @@ lo.set, IF hi.over = <<>> THEN lo.over ELSE hi.over)

\* The higher layer wins setting by setting; overrides are united, and win key by
\* key.
MergeOver(hi, lo) == Layer(Or(hi.version, lo.version), hi.set @@ lo.set, hi.over @@ lo.over)

\* A layer that names nothing falls to the defaults.
Resolve(layer) ==
  [version |-> Or(layer.version, CONFIG_VERSION), set |-> layer.set @@ Default, over |-> layer.over]

Assemble(env, files, global) ==
  LET merged == FoldLeft(MergeOver, env, files)
  IN  Resolve(IF global = None THEN merged ELSE MergeOver(merged, global))

\* The configuration of a scan of start, or None when a layer cannot be read.
\* globals holds the global files there are.
Discover(env, files, globals, start, cwd) ==
  LET paths == WalkUpConfigPaths(files, start, cwd)
      layers == [i \in 1..Len(paths) |-> LoadFile(files[paths[i]])]
      at == GlobalConfigPath(env)
      global == IF at \in DOMAIN globals THEN LoadFile(globals[at]) ELSE None
  IN  IF \/ FromEnv(env) = None
         \/ \E i \in 1..Len(layers) : layers[i] = None
         \/ at \in DOMAIN globals /\ global = None
      THEN None
      ELSE Assemble(FromEnv(env), layers, global)
=============================================================================
