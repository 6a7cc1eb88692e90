--------------------------- MODULE RequestValidator ---------------------------
(***************************************************************************)
(* RequestValidator of validator.py: the rules that settle a request without  *)
(* a model, in their order, and what is made of the model's answer.            *)
(***************************************************************************)
EXTENDS FileSelection

CONSTANT MAX_REPO_FILES_HARD

ASSUME HardCapAssumption == MAX_REPO_FILES_HARD \in Nat

Verdict(accepted, category) == [accepted |-> accepted, category |-> category]

\* _is_autogen_file searches the whole path; a directory only counts as such.
IsAutogenFile(path) ==
  \/ path.name.text \in {"package-lock.json", "yarn.lock", "poetry.lock", "Cargo.lock", "go.sum"}
  \/ HasEndings(path.name, "min", {"js", "css"})
  \/ HasEndings(path.name, "pb", {"go"})
  \/ path.name.affix = "_pb2" /\ path.name.dots = <<"py">>
  \/ ToSet(path.dirs) \cap {"dist", "build", "gen"} # {}

IsDocFile(path) ==
  \/ path.dirs = <<>> /\ path.name.text \in {"LICENSE", "CHANGELOG", "AUTHORS",
                                             "CONTRIBUTORS", "NOTICE"}
  \/ FirstPart(path) \in {"docs", "doc"} /\ path.dirs # <<>>
  \/ HasEnding(path.name, {"md", "rst", "txt", "adoc"})

AnyChanged(pr, such) == such # {}

\* "files and all(...)": a diff of which no files are known is no reason.
AllChanged(pr, such) == pr.files # <<>> /\ such = DOMAIN pr.files

Reasons == <<"empty_diff", "out_of_scope", "autogenerated", "docs_only">>

Applies(reason, pr) ==
  CASE reason = "empty_diff"    -> ~pr.payload
    [] reason = "out_of_scope"  -> pr.large
    [] reason = "autogenerated" -> \/ AllChanged(pr, {i \in DOMAIN pr.files : IsAutogenFile(pr.files[i])})
                                \/ pr.marker
    [] reason = "docs_only"     -> AllChanged(pr, {i \in DOMAIN pr.files : IsDocFile(pr.files[i])})

\* _prefilter: the first reason that applies; 0 leaves it to the judge.
Prefilter(pr) == SelectInSeq(Reasons, LAMBDA reason : Applies(reason, pr))

\* _parse_llm_response of an answer: accept, unless it clearly says reject.
JudgeVerdict(answer) ==
  CASE answer = "reject"                  -> Verdict(FALSE, "trolling")
    [] answer = "reject, uncategorised"   -> Verdict(FALSE, "other")
    [] answer \in {"accept", "no answer"} -> Verdict(TRUE, "accepted")

\* _prefilter_repo: the size of the listed tree.
RepoVerdict(repo) ==
  CASE Listed(repo.tree) = <<>> -> Verdict(FALSE, "empty_repo")
    [] Len(Listed(repo.tree)) > MAX_REPO_FILES_HARD -> Verdict(FALSE, "oversized_repo")
    [] OTHER -> Verdict(TRUE, "accepted")

\* The verdicts the validator may give, over the answers of its model.
Verdicts(request) ==
  CASE request.mode = "repo" -> {RepoVerdict(request)}
    [] request.mode = "pr" /\ Prefilter(request) > 0 ->
         {Verdict(FALSE, Reasons[Prefilter(request)])}
    [] OTHER -> {JudgeVerdict(a) : a \in {"accept", "no answer", "reject",
                                          "reject, uncategorised"}}
=============================================================================
