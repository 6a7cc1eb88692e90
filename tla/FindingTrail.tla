----------------------------- MODULE FindingTrail -----------------------------
(***************************************************************************)
(* One review from the request to the panel, by what is found: the validator  *)
(* admits it, the reviewers read files and answer, a human may ask for another  *)
(* pass, the report is rendered, given its TL;DR and published, the row is       *)
(* saved, and the critical-findings panel and its "Create exploit" button work    *)
(* from that row.  Interleavings are those of other modules (ReviewGraph,          *)
(* ReviewLifecycle, ExploitEndpoint): here every step is taken alone, and what      *)
(* matters is that the parts, each with its own rules, speak of the same findings.  *)
(***************************************************************************)
EXTENDS RequestValidator, ReportContent

CONSTANTS
  Requests,     \* what may be posted: the records of RequestValidator with a scope
  Answers,      \* what a reviewer's model may answer
  MAX_CYCLES, MAX_EXPLOIT_PROPOSALS,
  MaxPosts      \* bound on clicks

ASSUME TrailAssumption ==
  /\ MAX_CYCLES \in Nat \ {0}
  /\ MAX_EXPLOIT_PROPOSALS \in Nat
  /\ MaxPosts \in Nat

\* Files have names that are split as they are written, and no two listed files of
\* a snapshot have the same path.
ASSUME RequestsAssumption ==
  \A r \in Requests :
    /\ r.mode \in {"pr", "repo"}
    /\ r.mode = "pr" =>
         r.files \in Seq(PathType) /\ \A i \in DOMAIN r.files : WellSplit(r.files[i].name)
    /\ r.mode = "repo" =>
         /\ r.tree \in Seq(EntryType)
         /\ \A i, j \in DOMAIN Listed(r.tree) :
              Listed(r.tree)[i].path = Listed(r.tree)[j].path => i = j

ASSUME AnswersAssumption == Answers \subseteq AnswerType

VARIABLES
  request, verdict, agent_reviews, final_report,
  at,           \* the node of the graph, or what follows it
  passes,       \* passes of the reviewers so far
  filesRead,    \* history: the files each role has an answer for, in its last pass
  filesLost,    \* history: those it took on and has none for
  report_tldr,  \* whether a TL;DR was spliced
  grounds,      \* history: the findings it was written from
  published,    \* the report or notice that anyone can read; <<>> if none
  row,          \* the row of reviews; NoRow before it is saved
  posts         \* clicks so far

trailVars == <<request, verdict, agent_reviews, final_report, at, passes, filesRead,
               filesLost, report_tldr, grounds, published, row, posts>>

review == <<agent_reviews, passes, filesRead, filesLost>>
report == <<final_report, report_tldr, grounds>>

NoRow == <<>>
NoVerdict == Verdict(FALSE, None)

Roles == <<"dependency", "injection", "owasp", "configuration">>

LlmRoles == {"injection", "owasp", "configuration"}

\* _skip_for_scope: the roles that run; an empty scope means all.  The scan of a
\* repository's dependencies is DependencyReviewer's and left out here.
RolesOf(r) ==
  Keep(Roles, {role \in ToSet(Roles) : /\ r.scope = {} \/ role \in r.scope
                                       /\ r.mode = "pr" \/ role \in LlmRoles})

TrailInit ==
  /\ request \in Requests
  /\ verdict = NoVerdict
  /\ agent_reviews = <<>>
  /\ final_report = <<>>
  /\ at = "validate_request"
  /\ passes = 0
  /\ filesRead = <<>>
  /\ filesLost = <<>>
  /\ report_tldr = FALSE
  /\ grounds = {}
  /\ published = <<>>
  /\ row = NoRow
  /\ posts = 0

-----------------------------------------------------------------------------

ValidateRequest ==
  /\ at = "validate_request"
  /\ verdict' \in Verdicts(request)
  /\ at' = IF verdict'.accepted THEN "reviewers" ELSE "notify_rejection"
  /\ UNCHANGED <<request, review, report, published, row, posts>>

\* The notice is a comment on the pull request or, for a repository, the report
\* file; an error of either is kept in the state.
NotifyRejection ==
  /\ at = "notify_rejection"
  /\ published' \in {<<>>, RenderRejection(verdict.category)}
  /\ at' = "persist"
  /\ UNCHANGED <<request, verdict, review, report, row, posts>>

\* _run_pr: one answer of each role, in the order in which LangGraph folds them.
ReviewPullRequest ==
  LET roles == RolesOf(request) IN
  /\ at = "reviewers"
  /\ request.mode = "pr"
  /\ \E answer \in [DOMAIN roles -> Answers] :
       agent_reviews' = agent_reviews
         \o [i \in DOMAIN roles |-> AgentReview(roles[i], Parsed(answer[i]))]
  /\ passes' = passes + 1
  /\ at' = "review_decision"
  /\ UNCHANGED <<request, verdict, filesRead, filesLost, report, published, row, posts>>

Paths(role) ==
  LET files == Scanned(role, Listed(request.tree))
  IN [i \in DOMAIN files |-> files[i].path]

\* _run_repo: one outcome per file taken on; a file may be empty, its call may fail,
\* or its answer be a list that cannot be tagged.
ReviewRepository ==
  LET roles == RolesOf(request)
      files == UNION {{role} \X DOMAIN Paths(role) : role \in ToSet(roles)}
  IN
  /\ at = "reviewers"
  /\ request.mode = "repo"
  /\ passes = 0
  /\ \E answered \in SUBSET files : \E answer \in [answered -> Answers] :
       /\ agent_reviews' =
            [k \in DOMAIN roles |->
               RepoReview(roles[k], Paths(roles[k]),
                          [i \in {n \in DOMAIN Paths(roles[k]) : <<roles[k], n>> \in answered} |->
                             Parsed(answer[<<roles[k], i>>])],
                          Truncated(roles[k], Listed(request.tree)))]
       /\ filesRead' =
            [k \in DOMAIN roles |->
               {Paths(roles[k])[i] : i \in {n \in DOMAIN Paths(roles[k]) :
                                            /\ <<roles[k], n>> \in answered
                                            /\ Parsed(answer[<<roles[k], n>>]).sound}}]
  /\ filesLost' = [k \in DOMAIN roles |-> ToSet(Paths(roles[k])) \ filesRead'[k]]
  /\ passes' = 1
  /\ at' = "review_decision"
  /\ UNCHANGED <<request, verdict, report, published, row, posts>>

\* The snapshot is gone when a rerun follows: every reviewer returns {}.
RerunWithoutSnapshot ==
  /\ at = "reviewers"
  /\ request.mode = "repo"
  /\ passes > 0
  /\ passes' = passes + 1
  /\ at' = "review_decision"
  /\ UNCHANGED <<request, verdict, agent_reviews, filesRead, filesLost, report, published,
                 row, posts>>

\* Without a concern that has no finding there is nothing to ask; with one, the
\* human may send the reviewers round again or let the report go out.
ReviewDecision ==
  /\ at = "review_decision"
  /\ at' \in {"aggregate_results"}
       \cup (IF passes < MAX_CYCLES /\ \E i \in DOMAIN agent_reviews : Ambiguous(agent_reviews[i])
             THEN {"reviewers"} ELSE {})
  /\ UNCHANGED <<request, verdict, review, report, published, row, posts>>

AggregateResults ==
  /\ at = "aggregate_results"
  /\ Renders(agent_reviews)
  /\ final_report' = RenderReview(agent_reviews)
  /\ at' = "format_report"
  /\ UNCHANGED <<request, verdict, review, report_tldr, grounds, published, row, posts>>

HasFindings ==
  \E i \in DOMAIN agent_reviews : agent_reviews[i].findings # <<>> \/ ~agent_reviews[i].sound

AllSound == \A i \in DOMAIN agent_reviews : agent_reviews[i].sound

\* The flag is off, there is nothing to say, the model fails, says nothing or too
\* much, or the judge does not agree: the report stays as it is.
LeaveReport ==
  /\ at = "format_report"
  /\ at' = "publish_report"
  /\ UNCHANGED <<request, verdict, review, report, published, row, posts>>

SpliceReport ==
  /\ at = "format_report"
  /\ HasFindings
  /\ AllSound
  /\ grounds' = Grounds(agent_reviews)
  /\ report_tldr' = TRUE
  /\ final_report' = SpliceTldr(final_report)
  /\ at' = "publish_report"
  /\ UNCHANGED <<request, verdict, review, published, row, posts>>

\* A call of a pull request, the judge of the request, render_review or the
\* prompt of the formatter raises: the run ends without report and row.
GraphFails ==
  /\ \/ at = "validate_request" /\ request.mode = "pr" /\ Prefilter(request) = 0
     \/ at = "reviewers" /\ request.mode = "pr"
     \/ at = "aggregate_results" /\ ~Renders(agent_reviews)
     \/ at = "format_report" /\ HasFindings /\ ~AllSound
  /\ at' = "failed"
  /\ UNCHANGED <<request, verdict, review, report, published, row, posts>>

\* The file, and for a pull request a comment as well; both may fail.
PublishReport ==
  /\ at = "publish_report"
  /\ published' \in {<<>>, final_report}
  /\ at' = "persist"
  /\ UNCHANGED <<request, verdict, review, report, row, posts>>

\* _persist_review, whose failure is only logged.
PersistReview ==
  /\ at = "persist"
  /\ row' \in {NoRow, ReviewRow(verdict, agent_reviews, final_report)}
  /\ at' = "settled"
  /\ UNCHANGED <<request, verdict, review, report, published, posts>>

-----------------------------------------------------------------------------
(* The endpoints of main.py that work from the row.                         *)

\* compute_finding_id hashes the role and three columns, not the severity.
FindingId(finding) == <<finding.role, finding.file, finding.line, finding.text>>

\* list_critical_findings: the last record of an id counts.
Panel ==
  LET last(id) == SelectLastInSeq(row.exploit_proposals, LAMBDA p : p.finding_id = id)
  IN {[finding_id |-> FindingId(f),
       exploit_status |-> IF last(FindingId(f)) = 0 THEN "null"
                          ELSE row.exploit_proposals[last(FindingId(f))].status] :
        f \in {g \in ToSet(row.findings) : g.severity = "critical"}}

\* create_exploit: the first record of the id, and the first finding with it.
RecordOf(id) == SelectInSeq(row.exploit_proposals, LAMBDA p : p.finding_id = id)
FindingOf(id) == SelectInSeq(row.findings, LAMBDA f : FindingId(f) = id)

CapBeforeRecord(id) ==
  CASE Len(row.exploit_proposals) >= MAX_EXPLOIT_PROPOSALS -> 409
    [] Len(row.exploit_proposals) < MAX_EXPLOIT_PROPOSALS /\ RecordOf(id) > 0 -> 200
    [] OTHER -> 201

\* The status of the response, in the order of the checks.
Response(id) ==
  IF RecordOf(id) > 0 THEN 200
  ELSE IF Len(row.exploit_proposals) >= MAX_EXPLOIT_PROPOSALS THEN 409
  ELSE IF FindingOf(id) = 0 THEN 404
  ELSE IF row.findings[FindingOf(id)].severity # "critical" THEN 400
  ELSE 201

\* A click that gets 201: approved, or skipped for low confidence (a failed draft
\* included); the record may fail to be saved.
CreateExploit(id) ==
  /\ at = "settled"
  /\ row # NoRow
  /\ posts < MaxPosts
  /\ Response(id) = 201
  /\ \E status \in {"approved", "skipped_low_confidence"} :
       row' \in {row, [row EXCEPT !.exploit_proposals =
                         Append(@, [finding_id |-> id, status |-> status])]}
  /\ posts' = posts + 1
  /\ UNCHANGED <<request, verdict, review, report, at, published>>

TrailNext ==
  \/ ValidateRequest \/ NotifyRejection
  \/ ReviewPullRequest \/ ReviewRepository \/ RerunWithoutSnapshot
  \/ ReviewDecision \/ AggregateResults
  \/ LeaveReport \/ SpliceReport \/ PublishReport \/ PersistReview \/ GraphFails
  \/ row # NoRow /\ \E k \in DOMAIN row.findings : CreateExploit(FindingId(row.findings[k]))

TrailSpec == TrailInit /\ [][TrailNext]_trailVars
-----------------------------------------------------------------------------

Lines(body, kind) == Keep(body, {l \in ToSet(body) : l.kind = kind})

CountSum(lines) ==
  LET sum[n \in 0 .. Len(lines)] == IF n = 0 THEN 0 ELSE sum[n - 1] + lines[n].count
  IN sum[Len(lines)]

\* A summary that brings the heading under which the formatter puts its own text.
OwnTldr == \E i \in DOMAIN LatestByRole(agent_reviews) :
             "### TL;DR" \in ToSet(LatestByRole(agent_reviews)[i].summary)

Reported == at \in {"publish_report", "persist", "settled"} /\ final_report # <<>>

Saved == at = "settled" /\ row # NoRow /\ row.accepted

RowsOf(role, severity) ==
  Keep(row.findings, {f \in ToSet(row.findings) : f.role = role /\ f.severity = severity})

\* What the row says and what its report shows is the same, although each of
\* renderer and store goes over the reviews itself: the overall severity, the
\* reviewers' findings one by one, and the counts, except that a severity spelled
\* otherwise counts as info in the report and as what it says in the row.  A TL;DR
\* spliced into a report in which a reviewer wrote that heading itself takes findings
\* out of the report: they are then not compared one by one.
ReportAndRowAgree ==
  Saved =>
    LET counts == Lines(row.markdown, "count")
        shown  == Lines(row.markdown, "finding")
    IN /\ \A k \in DOMAIN Lines(row.markdown, "overall") :
            Lines(row.markdown, "overall")[k].severity = row.overall
       /\ row.finding_count = CountSum(counts)
       /\ row.finding_count = Len(row.findings)
       /\ \A k \in DOMAIN counts :
            counts[k].severity # "info" =>
              counts[k].count <= Len(RowsOf(counts[k].role, counts[k].severity))
       /\ (OwnTldr /\ report_tldr) \/
          (/\ Len(shown) = row.finding_count
           /\ \A k \in DOMAIN row.findings : \E l \in DOMAIN shown :
                /\ shown[l].role = row.findings[k].role
                /\ shown[l].file = row.findings[k].file
                /\ shown[l].text = row.findings[k].text
                /\ StoredSeverity(shown[l].severity) = row.findings[k].severity)

\* Whatever the report calls critical is in the panel, and each entry of the
\* panel does what it shows: one with a status returns that record, one without
\* can be clicked until the cap is reached.  Only an earlier finding at the same
\* place with the same text and a lower severity answers in its stead.
PanelIsServed ==
  Saved =>
    /\ \A k \in DOMAIN Lines(row.markdown, "critical") : \E entry \in Panel :
         LET l == Lines(row.markdown, "critical")[k]
         IN /\ entry.finding_id[1] = l.role
            /\ entry.finding_id[2] = l.file
            /\ entry.finding_id[4] = l.text
    /\ \A entry \in Panel :
         LET response == Response(entry.finding_id)
         IN IF entry.exploit_status # "null"
            THEN /\ response = 200
                 /\ row.exploit_proposals[RecordOf(entry.finding_id)].status
                      = entry.exploit_status
            ELSE \/ response \in {201, 409}
                 \/ response = 400 /\ FindingOf(entry.finding_id) <
                      SelectLastInSeq(row.findings,
                        LAMBDA f : FindingId(f) = entry.finding_id /\ f.severity = "critical")
    /\ Len(row.exploit_proposals) <= MAX_EXPLOIT_PROPOSALS

\* The TL;DR adds to the report and takes nothing away, save the rest of a
\* section in which the reviewer itself wrote a TL;DR heading; it is written from
\* all the report shows, and after a single pass from nothing else.
TldrIsGrounded ==
  Reported =>
    LET plain == RenderReview(agent_reviews)
        own   == SelectInSeq(plain, LAMBDA l : l.kind = "### TL;DR")
    IN IF ~report_tldr THEN final_report = plain
       ELSE /\ ToSet(Lines(plain, "finding")) \subseteq grounds
            /\ passes = 1 => grounds = ToSet(Lines(plain, "finding"))
            /\ Len(Lines(final_report, "tldr")) = 1
            /\ OwnTldr \/ Keep(final_report, {l \in ToSet(final_report) :
                                                l.kind \notin {"### TL;DR", "tldr"}}) = plain
            /\ \A k \in DOMAIN plain :
                 \/ plain[k] \in ToSet(final_report)
                 \/ own > 0 /\ k >= own /\ plain[k].role = plain[own].role

\* A path that the validator turns away and a reviewer would read: what lies
\* under gen/ is generated for the one and code for the other.
ReadAndRefused(path) == "gen" \in ToSet(path.dirs)

\* What the validator calls generated or documentation is not what the reviewers
\* of code call their scope: a pull request turned away for its files (and not for
\* a marker in its diff) has none that the injection, owasp or configuration
\* reviewer would read in a repository, save under gen/.  This is not so of the
\* dependency reviewer, whose manifests the two rules do turn away: requirements*.txt
\* as text, the lock files of npm, yarn, poetry, cargo and go as generated, and what lies
\* under the directories they name.
RefusalsMatchScope ==
  (request.mode = "pr" /\ verdict.category \in {"autogenerated", "docs_only"} /\ ~request.marker)
    => \A i \in DOMAIN request.files : \A role \in LlmRoles :
         InScope(role, request.files[i]) => ReadAndRefused(request.files[i])

\* What is left out of a role's pass without a word in its review: links,
\* directories and git's own data, files over the size cap (repo_fetcher.py promises
\* a note of these), and categories it skips, .env among them as a vendored directory.
LeftOut(role, entry) ==
  \/ entry.kind # "file"
  \/ FirstPart(entry.path) = ".git"
  \/ entry.large
  \/ classify_file(entry.path) \in SkipCategories(role)

\* Every file of the tree that a role's patterns match is accounted for: it has an
\* answer, or it was taken on and has none (the call failed, the file is empty, the
\* answer cannot be tagged: the review says nothing of it), or it is left out for one
\* of the reasons above, or the role used up its cap.  Only the last is told, and the
\* summary tells it exactly when it is so.  Findings come from files with an answer.
EveryFileIsAccountedFor ==
  \A k \in DOMAIN filesRead :
    LET role  == RolesOf(request)[k]
        taken == filesRead[k] \cup filesLost[k]
        untaken == {i \in DOMAIN request.tree :
                      /\ MatchesPath(role, request.tree[i].path.name)
                      /\ ~LeftOut(role, request.tree[i])
                      /\ request.tree[i].path \notin taken}
    IN /\ \A path \in taken : \E i \in DOMAIN request.tree :
            /\ request.tree[i].path = path
            /\ MatchesPath(role, path.name) /\ ~LeftOut(role, request.tree[i])
       /\ untaken # {} => Cardinality(taken) = MAX_FILES_PER_AGENT
       /\ (untaken # {}) <=> "truncated" \in ToSet(agent_reviews[k].summary)
       /\ agent_reviews[k].findings # <<>> => filesRead[k] # {}
=============================================================================
