---------------------------- MODULE FileSelection ----------------------------
(***************************************************************************)
(* Which files of a snapshot a per-file reviewer reads: list_repo_files of    *)
(* repo_fetcher.py, classify_file of file_classifier.py, and the whitelist,     *)
(* the skipped categories and the cap of LLMPerFileReviewer.  A path is its      *)
(* directories and its name; a name is its text, what stands before its first     *)
(* dot, the parts after it, and the affix of that stem that the rules test.       *)
(***************************************************************************)
EXTENDS Naturals, Sequences, SequencesExt, SequenceFilter

CONSTANT MAX_FILES_PER_AGENT

ASSUME MaxFilesAssumption == MAX_FILES_PER_AGENT \in Nat

NameType == [text : STRING, stem : STRING, affix : STRING, dots : Seq(STRING)]
PathType == [dirs : Seq(STRING), name : NameType]
EntryType == [path : PathType, kind : STRING, large : BOOLEAN]

\* Names that rules here and in RequestValidator look for as a whole and whose
\* parts other rules look at.
KnownNames ==
  {[text |-> t, stem |-> t, dots |-> <<>>] :
     t \in {"LICENSE", "CHANGELOG", "AUTHORS", "CONTRIBUTORS", "NOTICE"}}
    \cup {[text |-> "go.sum", stem |-> "go", dots |-> <<"sum">>],
          [text |-> ".dockerignore", stem |-> "", dots |-> <<"dockerignore">>]}

\* The parts of a name are those of its text.
WellSplit(name) ==
  \A known \in KnownNames :
    name.text = known.text => name.stem = known.stem /\ name.dots = known.dots

Parts(path) == ToSet(path.dirs) \cup {path.name.text}

FirstPart(path) == IF path.dirs = <<>> THEN path.name.text ELSE Head(path.dirs)

HasEnding(name, endings) == name.dots # <<>> /\ Last(name.dots) \in endings

HasEndings(name, marker, endings) ==
  \E e \in endings : IsSuffix(<<marker, e>>, name.dots)

\* PurePosixPath.suffix: a name that begins with its only dot has none.
HasSuffix(name, suffixes) ==
  HasEnding(name, suffixes) /\ (name.stem # "" \/ Len(name.dots) > 1)

-----------------------------------------------------------------------------
(* file_classifier.py                                                       *)

VendoredDirs ==
  {"node_modules", "vendor", ".venv", "venv", ".env", "__pycache__", ".pytest_cache", ".tox",
   "dist", "build", "target", ".next", ".nuxt", ".cache", "coverage", "htmlcov"}

\* The test is on every part of the path, the file's own name included.
IsVendored(path) == Parts(path) \cap VendoredDirs # {}

IsGenerated(name) ==
  \/ HasEndings(name, "min", {"js", "css", "map"})
  \/ name.affix \in {"_pb2", "_pb2_grpc"} /\ name.dots = <<"py">>
  \/ HasEndings(name, "pb", {"go", "cc"})
  \/ name.text \in {"package.lock", "yarn.lock", "poetry.lock", "Pipfile.lock", "Cargo.lock",
                    "composer.lock", "Gemfile.lock", "package-lock.json"}

IsTest(path) ==
  \/ Parts(path) \cap {"tests", "test", "__tests__", "spec", "e2e"} # {}
  \/ path.name.affix = "test_" /\ HasEnding(path.name, {"py"})
  \/ path.name.affix = "_test" /\ path.name.dots \in {<<"py">>, <<"go">>}
  \/ HasEndings(path.name, "test", {"js", "jsx", "ts", "tsx"})
  \/ HasEndings(path.name, "spec", {"js", "jsx", "ts", "tsx", "rb"})
  \/ path.name.text = "conftest.py"

Templates == {"example", "sample", "template", "dist"}

\* Documentation, and templates by their last suffix or the one before.
IsDocs(path) ==
  \/ Parts(path) \cap {"docs", "doc", "documentation", "wiki"} # {}
  \/ HasSuffix(path.name, {"md", "rst", "adoc", "txt"} \cup Templates)
  \/ Len(path.name.dots) > 1 /\ path.name.dots[Len(path.name.dots) - 1] \in Templates

IsInfra(path) ==
  \/ path.name.stem = "Dockerfile"
  \/ path.name.stem = "docker-compose" /\ HasEnding(path.name, {"yml", "yaml"})
  \/ path.name.text \in {"Makefile", "nginx.conf"}
  \/ HasSuffix(path.name, {"tf"})
  \/ Parts(path) \cap {"k8s", "kubernetes", "deploy", "deployment"} # {}
  \/ IsPrefix(<<".github", "workflows">>, path.dirs)

\* The first category that fits, core being what nothing else claims.
CategoryOrder == <<"vendored", "generated", "test", "docs", "infra", "core">>

Fits(category, path) ==
  CASE category = "vendored"  -> IsVendored(path)
    [] category = "generated" -> IsGenerated(path.name)
    [] category = "test"      -> IsTest(path)
    [] category = "docs"      -> IsDocs(path)
    [] category = "infra"     -> IsInfra(path)
    [] category = "core"      -> TRUE

classify_file(path) ==
  CategoryOrder[SelectInSeq(CategoryOrder, LAMBDA category : Fits(category, path))]

-----------------------------------------------------------------------------
(* The reviewers.                                                           *)

SourceEndings ==
  {"py", "js", "jsx", "ts", "tsx", "mjs", "cjs", "go", "java", "kt", "kts", "scala",
   "rb", "php", "cs", "fs", "rs", "c", "cc", "cpp", "h", "hpp"}

ConfigEndings ==
  {"dockerfile", "nginx", "tf", "tfvars", "yml", "yaml", "toml", "ini", "conf", "cfg",
   "properties"}

\* PATH_PATTERNS, matched against the name alone.
MatchesPath(role, name) ==
  CASE role = "injection"     -> HasEnding(name, SourceEndings \cup {"sql", "sh", "bash"})
    [] role = "owasp"         -> HasEnding(name, SourceEndings)
    [] role = "configuration" ->
         \/ HasEnding(name, ConfigEndings)
         \/ name.stem = "Dockerfile"
         \/ name.text = ".dockerignore"
         \/ name.stem = "" /\ Head(name.dots) = "env"

\* SKIP_CATEGORIES: infrastructure is left to the configuration reviewer.
SkipCategories(role) ==
  {"test", "docs", "vendored", "generated"}
    \cup (IF role = "configuration" THEN {} ELSE {"infra"})

\* list_repo_files: no symlinks, directories, repository data or large files.
Listed(tree) ==
  Keep(tree, {entry \in ToSet(tree) : /\ entry.kind = "file"
                                      /\ FirstPart(entry.path) # ".git"
                                      /\ ~entry.large})

InScope(role, path) ==
  MatchesPath(role, path.name) /\ classify_file(path) \notin SkipCategories(role)

Capped(files) ==
  IF Len(files) <= MAX_FILES_PER_AGENT THEN files ELSE SubSeq(files, 1, MAX_FILES_PER_AGENT)

Matched(role, files) == Keep(files, {entry \in ToSet(files) : InScope(role, entry.path)})

\* The cap is applied to what the whitelist lets through.
ScannedFromCapped(role, files) ==
  SelectSeq(Capped(SelectSeq(files, LAMBDA entry : MatchesPath(role, entry.path.name))),
            LAMBDA entry : InScope(role, entry.path))

\* The files one pass of a role reads, in order: the cap comes last.
Scanned(role, files) == Capped(Matched(role, files))

\* What the summary says was left out.
Truncated(role, files) == Len(Matched(role, files)) - Len(Scanned(role, files))
=============================================================================
