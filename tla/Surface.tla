-------------------------------- MODULE Surface --------------------------------
(***************************************************************************)
(* The two interfaces to the engine: the tools an agent calls and the      *)
(* verbs of the command line.  Either way a request becomes one operation  *)
(* of the engine, a tagged tuple; None is a refusal.                       *)
(*                                                                         *)
(* Arguments and flags are functions from the names that were given.       *)
(***************************************************************************)
EXTENDS Naturals, Sequences, SequencesExt

CONSTANTS None, Cwd

McpTools == <<"query", "context", "check", "candidates", "apply_edit", "remove", "strip">>

Group(tool) ==
  CASE tool \in {"query", "candidates"} -> "find"
    [] tool = "context" -> "understand"
    [] tool = "check" -> "rule-check"
    [] tool \in {"apply_edit", "remove", "strip"} -> "update"

Stability(tool) == IF Group(tool) = "update" THEN "experimental" ELSE "stable"

Descriptors == [i \in 1..Len(McpTools) |-> [name |-> McpTools[i], stability |-> Stability(McpTools[i])]]

Kinds == {"line", "block", "docstring", "shebang", "license", "encoding-decl", "directive"}

Given(names, name, default) == IF name \in DOMAIN names THEN names[name] ELSE default

-----------------------------------------------------------------------------
(* Tools                                                                    *)

\* What the transport lets through to a tool, and what it asks for.
Parameters(tool) ==
  CASE tool = "query" -> {"path", "query", "limit"}
    [] tool = "context" -> {"path", "comment_id", "with_code"}
    [] tool = "check" -> {"path", "limit", "cursor"}
    [] tool = "candidates" -> {"path", "limit"}
    [] tool = "apply_edit" -> {"path", "comment_id", "new_text", "allow_significant"}
    [] tool = "remove" -> {"path", "comment_id", "allow_significant"}
    [] tool = "strip" -> {"path", "apply", "allow_significant", "strip_license", "keep", "tidy", "limit"}

Required(tool) == {"comment_id", "new_text"} \cap Parameters(tool)

RootFrom(args) == Given(args, "path", Cwd)

\* The kinds to keep; None when one of them is unknown.
KeepKinds(args) ==
  LET kinds == ToSet(Given(args, "keep", <<>>))
  IN  IF kinds \subseteq Kinds THEN kinds ELSE None

\* Bug: every flag that is not given is off.
PolicyOfFlags(args) ==
  [allowSignificant |-> Given(args, "allow_significant", FALSE),
   stripLicense |-> Given(args, "strip_license", FALSE),
   keepKinds |-> KeepKinds(args), tidy |-> Given(args, "tidy", FALSE)]

PolicyFrom(args) ==
  [allowSignificant |-> Given(args, "allow_significant", FALSE),
   stripLicense |-> Given(args, "strip_license", FALSE),
   keepKinds |-> KeepKinds(args), tidy |-> Given(args, "tidy", TRUE)]

StripCall(args) ==
  IF KeepKinds(args) = None THEN None
  ELSE <<"strip", RootFrom(args), PolicyFrom(args), ~Given(args, "apply", FALSE)>>

\* The number of results has a default of its own, and there is no cursor.
QueryCall(args) == <<"query", RootFrom(args), Given(args, "query", ""), Given(args, "limit", 20), 0>>

CandidatesCall(args) == <<"candidates", RootFrom(args), Given(args, "limit", 20)>>

\* The built-in providers, out of the cache where it has them; the findings are
\* paged behind the engine.
CheckCall(args) == <<"check", RootFrom(args), "built-in providers", "cached">>

ContextCall(args) == <<"context", RootFrom(args), args["comment_id"], Given(args, "with_code", FALSE)>>

ApplyEditCall(args) ==
  <<"apply_edit", RootFrom(args), args["comment_id"], args["new_text"], Given(args, "allow_significant", FALSE)>>

RemoveCall(args) ==
  <<"remove", RootFrom(args), args["comment_id"], Given(args, "allow_significant", FALSE)>>

ToolCall(tool, args) ==
  CASE tool = "check" -> CheckCall(args)
    [] tool = "candidates" -> CandidatesCall(args)
    [] tool = "query" -> QueryCall(args)
    [] tool = "context" -> ContextCall(args)
    [] tool = "apply_edit" -> ApplyEditCall(args)
    [] tool = "remove" -> RemoveCall(args)
    [] tool = "strip" -> StripCall(args)

\* A call as it comes over the transport: what a tool does not know is dropped.
Dispatch(tool, args) ==
  IF tool \notin ToSet(McpTools) THEN None
  ELSE IF ~(Required(tool) \subseteq DOMAIN args) THEN None
  ELSE ToolCall(tool, [p \in DOMAIN args \cap Parameters(tool) |-> args[p]])

-----------------------------------------------------------------------------
(* The command line                                                         *)

RootFor(flags) == Given(flags, "path", Cwd)

GlobalFlags == {"--stats", "--system-tools", "--hermetic", "--show-suppressed", "--no-cache"}

\* What the verbs that have a tool may be given, arguments included.
Flags(verb) ==
  CASE verb = "query" -> {"query", "--limit", "--cursor"}
    [] verb = "context" -> {"comment_id", "--with-code"}
    [] verb = "check" -> {"path", "--format", "--strict"}
    [] verb = "candidates" -> {"--limit"}
    [] verb = "apply-edit" -> {"comment_id", "new_text", "--allow-significant"}
    [] verb = "remove" -> {"comment_id", "--allow-significant"}
    [] verb = "strip" -> {"path", "--apply", "--allow-significant", "--strip-license", "--keep", "--no-tidy"}

\* A flag that takes no value is given or not.
VerbCall(verb, flags) ==
  LET Flag(name) == name \in DOMAIN flags
      limit == Given(flags, "--limit", 20)
  IN  CASE verb = "check" ->
             <<"check", RootFor(flags), "built-in providers", IF Flag("--no-cache") THEN "anew" ELSE "cached">>
        [] verb = "candidates" -> <<"candidates", Cwd, limit>>
        [] verb = "query" -> <<"query", Cwd, flags["query"], limit, Given(flags, "--cursor", 0)>>
        [] verb = "context" -> <<"context", Cwd, flags["comment_id"], Flag("--with-code")>>
        [] verb = "apply-edit" ->
             <<"apply_edit", Cwd, flags["comment_id"], flags["new_text"], Flag("--allow-significant")>>
        [] verb = "remove" -> <<"remove", Cwd, flags["comment_id"], Flag("--allow-significant")>>
        [] verb = "strip" ->
             <<"strip", RootFor(flags),
               [allowSignificant |-> Flag("--allow-significant"), stripLicense |-> Flag("--strip-license"),
                keepKinds |-> ToSet(Given(flags, "--keep", <<>>)), tidy |-> ~Flag("--no-tidy")],
               ~Flag("--apply")>>

\* A command line that does not parse is refused.
CommandCall(verb, flags) ==
  IF \/ ~(DOMAIN flags \subseteq Flags(verb) \cup GlobalFlags)
     \/ ~(ToSet(Given(flags, "--keep", <<>>)) \subseteq Kinds)
  THEN None ELSE VerbCall(verb, flags)
=============================================================================
