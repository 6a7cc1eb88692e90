---------------------------- MODULE MCFindingTrail ----------------------------
(***************************************************************************)
(* Instances of FindingTrail for TLC: pull requests and trees on both sides   *)
(* of every rule of the validator, the classifier and the caps, and answers     *)
(* on both sides of every rule of severity, place and shape.                     *)
(***************************************************************************)
EXTENDS FindingTrail

Name(text, stem, affix, dots) == [text |-> text, stem |-> stem, affix |-> affix, dots |-> dots]
Path(dirs, name) == [dirs |-> dirs, name |-> name]

app        == Name("app.py", "app", None, <<"py">>)
db         == Name("db.py", "db", None, <<"py">>)
stub       == Name("x_pb2.py", "x_pb2", "_pb2", <<"py">>)
test       == Name("test_app.py", "test_app", "test_", <<"py">>)
readme     == Name("README.md", "README", None, <<"md">>)
license    == Name("LICENSE", "LICENSE", None, <<>>)
pins       == Name("requirements.txt", "requirements", None, <<"txt">>)
lock       == Name("package-lock.json", "package-lock", None, <<"json">>)
dockerfile == Name("Dockerfile", "Dockerfile", None, <<>>)
compose    == Name("docker-compose.yml", "docker-compose", None, <<"yml">>)
sample     == Name("docker-compose.sample.yml", "docker-compose", None, <<"sample", "yml">>)
env        == Name(".env", "", None, <<"env">>)
settings   == Name("app.toml", "app", None, <<"toml">>)

PullRequest(files, scope) ==
  [mode |-> "pr", files |-> files, payload |-> TRUE, large |-> FALSE, marker |-> FALSE,
   scope |-> scope]

File(path)  == [path |-> path, kind |-> "file", large |-> FALSE]
Repo(tree, scope) == [mode |-> "repo", tree |-> tree, scope |-> scope]

top(name) == Path(<<>>, name)

PullRequests ==
  {PullRequest(<<top(app)>>, {"injection", "configuration"}),
   PullRequest(<<top(readme), top(app)>>, {"dependency"}),
   PullRequest(<<>>, {"owasp"}),
   [PullRequest(<<top(app)>>, {}) EXCEPT !.payload = FALSE],
   [PullRequest(<<top(app)>>, {}) EXCEPT !.large = TRUE],
   [PullRequest(<<top(app)>>, {}) EXCEPT !.marker = TRUE],
   PullRequest(<<top(lock), top(stub), Path(<<"build">>, app)>>, {}),
   PullRequest(<<Path(<<"gen">>, app)>>, {}),
   PullRequest(<<top(readme), top(license), Path(<<"docs">>, settings)>>, {}),
   PullRequest(<<top(pins)>>, {})}

Repositories ==
  {Repo(<<>>, {}),
   Repo(<<[File(top(app)) EXCEPT !.kind = "symlink"], File(Path(<<".git">>, settings)),
          [File(top(db)) EXCEPT !.large = TRUE], [File(top(app)) EXCEPT !.kind = "dir"]>>, {}),
   Repo(<<File(top(app)), File(top(db)), File(top(readme)), File(top(pins)), File(top(lock))>>,
        {}),
   Repo(<<File(top(test)), File(top(app)), File(Path(<<"gen">>, app)), File(top(db))>>,
        {"injection"}),
   Repo(<<File(top(env)), File(top(dockerfile)), File(top(sample)), File(top(compose))>>,
        {"configuration"}),
   Repo(<<File(top(app)), File(top(settings))>>, {"injection", "configuration"}),
   Repo(<<File(Path(<<"deploy">>, app)), File(Path(<<"k8s">>, compose)),
          File(Path(<<".github", "workflows">>, db)), File(Path(<<"vendor">>, settings))>>,
        {"owasp", "configuration"})}

MCRequests == PullRequests \cup Repositories

sqli == Finding("app.py", "7", TRUE, "critical", "sqli")

Answer(findings, summary, severity) ==
  [kind |-> "json", findings |-> findings, sound |-> TRUE, summary |-> summary,
   severity |-> severity]

MCAnswers ==
  {Answer(<<>>, <<"text">>, "low"),
   Answer(<<>>, <<>>, "HIGH"),
   Answer(<<[sqli EXCEPT !.severity = "minor"], sqli>>, <<"### TL;DR", "text">>, "blocker"),
   Answer(<<[sqli EXCEPT !.severity = None], [sqli EXCEPT !.severity = "HIGH", !.text = "xss"],
            [sqli EXCEPT !.severity = "Critical", !.file = None]>>, <<"text">>, "minor"),
   Answer(<<[sqli EXCEPT !.line = "7-9", !.exact = FALSE],
            [sqli EXCEPT !.line = "7f", !.exact = FALSE]>>, <<>>, None),
   [Answer(<<>>, <<"text">>, "critical") EXCEPT !.sound = FALSE],
   [Answer(<<>>, <<"text">>, None) EXCEPT !.kind = "prose"]}
=============================================================================
