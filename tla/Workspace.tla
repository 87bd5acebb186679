------------------------------- MODULE Workspace -------------------------------
(***************************************************************************)
(* Where a check works and where it leaves its cache; the git hooks that   *)
(* are to warm it, and the keys under which CI keeps it.                   *)
(*                                                                         *)
(* A work tree is [files, dirs, caches, hooksPath]: the files, with their  *)
(* contents, the directories, and, for every cache directory, the files    *)
(* its index covers or None.  Paths are sequences of names, <<>> the root. *)
(***************************************************************************)
EXTENDS Naturals, Sequences, SequencesExt, FiniteSetsExt

CONSTANTS None

-----------------------------------------------------------------------------
(* The cache                                                                *)

\* The first path that is given, or the working directory; none of the others.
RootFor(paths, cwd) == IF paths = <<>> THEN cwd ELSE cwd \o paths[1]

Upwards(path) == {SubSeq(path, 1, n) : n \in 0..Len(path)}

Below(root, paths) == {p \in paths : root \in Upwards(p)}

\* create_dir_all of the cache directory: nothing on the way may be a file.
EnsureCacheDir(ws, root) ==
  IF Upwards(root) \cap DOMAIN ws.files # {} THEN None
  ELSE [ws EXCEPT !.dirs = @ \cup Upwards(root), !.caches = (root :> None) @@ @]

\* A check that indexes what it finds below its root, in a cache there; it finds
\* nothing below a root that does not exist.
Check(ws, root) ==
  LET made == EnsureCacheDir(ws, root)
  IN  IF made = None THEN [ws |-> ws, code |-> 2]
      ELSE [ws |-> [made EXCEPT !.caches[root] = Below(root, DOMAIN ws.files)], code |-> 0]

\* Session::open: the index of the root, or an error.
OpenSession(ws, root) ==
  IF root \in DOMAIN ws.caches THEN ws.caches[root] ELSE None

-----------------------------------------------------------------------------
(* Hooks                                                                    *)

HookEvents == {"post-commit", "post-checkout", "post-merge", "post-rewrite"}

\* The scripts are written, then core.hooksPath is set, whatever it was.
InstallHooks(ws) ==
  LET made == EnsureCacheDir(ws, <<>>)
  IN  IF made = None THEN ws ELSE [made EXCEPT !.hooksPath = <<".commenter-cat", "hooks">>]

\* External: git diff-tree HEAD, which says nothing of a merge or of the first
\* commit, and names what is gone under its old path.
DiffTree(commit) ==
  IF Len(commit.parents) # 1 THEN {}
  ELSE LET old == commit.parents[1].tree
           new == commit.tree
       IN  (DOMAIN old \ DOMAIN new) \cup (DOMAIN new \ DOMAIN old)
             \cup {p \in DOMAIN old \cap DOMAIN new : old[p] # new[p]}

\* The script of every event: `check` of the changed files, at the root of the
\* work tree, with its failure ignored.  order is all paths in their order.
HookScript(ws, commit, order) ==
  LET changed == SelectSeq(order, LAMBDA p : p \in DiffTree(commit))
  IN  IF changed = <<>> THEN ws ELSE Check(ws, RootFor(changed, <<>>)).ws

-----------------------------------------------------------------------------
(* Cache keys of a CI run                                                   *)

\* A provider's fingerprint is [id, version, config].
ProviderMaterial(providers) ==
  SortSeq(providers, LAMBDA a, b : a.id < b.id)

InputsCacheKey(providers, schemas) == <<schemas.inputs, ProviderMaterial(providers)>>

\* Bug: the index is keyed like the inputs.
IndexKeyOfInputs(providers, schemas) == InputsCacheKey(providers, schemas)

IndexCacheKey(providers, schemas) ==
  <<InputsCacheKey(providers, schemas), schemas.ruleset, schemas.index>>

PlanRestore(inputsHit, indexHit) ==
  CASE indexHit -> "use-index"
    [] inputsHit /\ ~indexHit -> "re-derive"
    [] OTHER -> "cold-scan"

\* Two runs may be compared when rule set, provider version and config agree.
ComparabilityKey(provider, schemas) == <<schemas.ruleset, provider.version, provider.config>>

-----------------------------------------------------------------------------
(* Versions                                                                 *)

\* The streams and manifests of this version and of the one before it.
VersionIsSupported(version, current) == version <= current /\ version + 1 >= current

\* An index file is missing, unreadable, without a version, or of another one.
NeedsRebuild(file, current) ==
  \/ file = None
  \/ ~file.readable
  \/ file.version # current
=============================================================================
