--------------------------------- MODULE Tree ---------------------------------
(***************************************************************************)
(* The files of a check, and what git knows of their lines.                *)
(*                                                                         *)
(* A file has a path (a sequence of names), an extension, the features of  *)
(* its head, the ignore files and patterns that name it, and whether it    *)
(* can be read.  Files stand in the order of their paths.                  *)
(***************************************************************************)
EXTENDS Naturals, Sequences, SequencesExt, FiniteSetsExt

CONSTANTS None

-----------------------------------------------------------------------------
(* The walks                                                                *)

CACHE_DIR_NAME == ".commenter-cat"

LanguageOfExtension ==
  "py" :> "python" @@ "pyi" :> "python"
    @@ "ts" :> "typescript" @@ "mts" :> "typescript" @@ "cts" :> "typescript" @@ "tsx" :> "typescript"
    @@ "js" :> "javascript" @@ "mjs" :> "javascript" @@ "cjs" :> "javascript" @@ "jsx" :> "javascript"
    @@ "sh" :> "shell" @@ "bash" :> "shell"

\* By extension; a file without one that is known may be a shell script.
LanguageForPath(file, enabled) ==
  IF file.extension \in DOMAIN LanguageOfExtension
  THEN IF LanguageOfExtension[file.extension] \in enabled
       THEN LanguageOfExtension[file.extension] ELSE None
  ELSE IF "shell" \in enabled /\ "shebang" \in file.head THEN "shell" ELSE None

\* A marker of generated code in the head, or a first line that is too long.
IsGenerated(file) == file.head \cap {"generated", "minified"} # {}

\* A glob is [pattern, slash]; one that ends in a slash stands for what is in the
\* directory.
Excludes(glob, file) ==
  glob.pattern \in file.within \/ (~glob.slash /\ glob.pattern \in file.named)

\* Whether the walker comes to a file.
Reached(file, options) ==
  /\ file.readable
  /\ ~\E i \in 1..Len(options.extra_ignores) : Excludes(options.extra_ignores[i], file)
  /\ ~(options.respect_gitignore /\ file.ignored)

IsHidden(name) == name \in {".git", ".github", ".env", CACHE_DIR_NAME}

\* The files of the enabled languages; hidden ones when ignore files are not
\* respected.
Walk(files, options) ==
  LET Kept(file) ==
        /\ Reached(file, options)
        /\ ~(options.respect_gitignore /\ \E i \in 1..Len(file.path) : IsHidden(file.path[i]))
        /\ LanguageForPath(file, options.languages) # None
        /\ ~IsGenerated(file)
  IN  SelectSeq(files, Kept)

\* Bug: the universe is what can hold comments.
WalkedUniverse(files, options) == Walk(files, options)

\* All files, hidden ones too, but for those of git and of the cache.
WalkUniverse(files, options) ==
  SelectSeq(files, LAMBDA file :
    Reached(file, options) /\ ToSet(file.path) \cap {".git", CACHE_DIR_NAME} = {})

-----------------------------------------------------------------------------
(* Blame                                                                    *)

\* Bug: the first commit counts.
OldestInRange(blame, first, last) ==
  LET known == {line \in first..last : line \in DOMAIN blame}
  IN  IF known = {} THEN None ELSE Min({blame[line] : line \in known})

\* The last commit of any line of a range; blame has, for the lines at HEAD, the
\* time of their last commit.
MostRecentInRange(blame, first, last) ==
  LET known == {line \in first..last : line \in DOMAIN blame}
  IN  IF known = {} THEN None ELSE Max({blame[line] : line \in known})

\* Hunks [start, len, commit] of the blamed file, its lines counted from zero; times
\* are those of the commits.
BlameFile(hunks, times) ==
  LET At(line) == {i \in 1..Len(hunks) : /\ hunks[i].start + 1 <= line
                                         /\ line <= hunks[i].start + hunks[i].len}
      lines == UNION {(hunks[i].start + 1)..(hunks[i].start + hunks[i].len) : i \in 1..Len(hunks)}
  IN  [line \in lines |-> times[hunks[Max(At(line))].commit]]

\* A comment takes the commit of the lines it has in the working tree; head has
\* the blame of the files that are tracked, by their path in the repository.
Enrich(comments, head) ==
  [n \in 1..Len(comments) |->
     LET c == comments[n]
     IN  IF c.path \in DOMAIN head
         THEN [c EXCEPT !.git = MostRecentInRange(head[c.path], c.first, c.last)]
         ELSE c]

-----------------------------------------------------------------------------
(* Changed files                                                            *)

\* A commit is its tree, [paths -> contents]; a file that moved is named by its
\* new path.
ChangedBetween(old, new) ==
  LET gone == DOMAIN old \ DOMAIN new
      come == DOMAIN new \ DOMAIN old
      MovedAway(p) == \E q \in come : new[q] = old[p]
  IN  come \cup {p \in gone : ~MovedAway(p)} \cup {p \in DOMAIN old \cap DOMAIN new : old[p] # new[p]}

\* Against the first parent, or the empty tree.
ChangedInCommit(commit) ==
  ChangedBetween(IF commit.parents = <<>> THEN <<>> ELSE Head(commit.parents).tree, commit.tree)
=============================================================================
