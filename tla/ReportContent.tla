---------------------------- MODULE ReportContent ----------------------------
(***************************************************************************)
(* What a reviewer's answer becomes: the AgentReview of base_reviewer.py, the *)
(* Markdown report of report_renderer.py as its sequence of lines, the TL;DR    *)
(* that report_formatter.py splices into it, and the row and findings that       *)
(* review_store.py saves.  Each of them reads the findings for itself, with a     *)
(* table of severities of its own.                                                *)
(***************************************************************************)
EXTENDS Naturals, Sequences, SequencesExt, FiniteSetsExt, SequenceFilter

None == ""     \* a key the model left out

\* A finding as a reviewer's model wrote it: its line may be a number or not
\* (exact), and its severity may be spelled in any way or missing.
Finding(file, line, exact, severity, text) ==
  [file |-> file, line |-> line, exact |-> exact, severity |-> severity, text |-> text]

FindingType ==
  [file : STRING, line : STRING, exact : BOOLEAN, severity : STRING, text : STRING]

\* What a model may answer; its summary is not the note of a pass that was cut.
AnswerType ==
  [kind : {"json", "prose"}, findings : Seq(FindingType), sound : BOOLEAN,
   summary : Seq(STRING \ {"truncated"}), severity : STRING]

-----------------------------------------------------------------------------
(* Severities.                                                              *)

Ladder == <<"info", "minor", "major", "critical">>

Severities == ToSet(Ladder)

\* _SEVERITY_RANK.get(severity, 0)
Rank(severity) == IF severity \in Severities
                  THEN SelectInSeq(Ladder, LAMBDA s : s = severity) - 1 ELSE 0

Label(rank) == Ladder[rank + 1]

\* str.strip().lower() of the spellings that occur.
LowerStrip(raw) == CASE raw = "Critical" -> "critical"
                     [] raw = "HIGH"     -> "high"
                     [] OTHER            -> raw

\* normalize_severity of base_reviewer.py, for a whole review.
NormalizeSeverity(raw) ==
  LET s == LowerStrip(raw)
  IN CASE s \in Severities            -> s
       [] s \in {"error", "blocker"}  -> "critical"
       [] s = "high"                  -> "major"
       [] s \in {"warning", "low"}    -> "minor"
       [] OTHER                       -> "info"

\* _normalize_severity of review_store.py, for a finding.
StoredSeverity(raw) == IF LowerStrip(raw) \in Severities THEN LowerStrip(raw) ELSE "info"

\* The renderer takes a finding's severity as it is written.
Bucket(raw) == IF raw \in Severities THEN raw ELSE "info"

-----------------------------------------------------------------------------
(* Reviews.                                                                 *)

\* _parse_response: a text that is not JSON is one finding and its own summary.
\* A list that is not one of objects (not sound) is found out only when read.
Parsed(answer) ==
  IF answer.kind = "prose"
  THEN [findings |-> <<Finding(None, None, FALSE, None, "raw")>>, sound |-> TRUE,
        summary |-> answer.summary, severity |-> "info"]
  ELSE [findings |-> answer.findings, sound |-> answer.sound,
        summary |-> answer.summary, severity |-> NormalizeSeverity(answer.severity)]

AgentReview(role, parsed) ==
  [role |-> role, findings |-> parsed.findings, sound |-> parsed.sound,
   summary |-> parsed.summary, severity |-> parsed.severity,
   passed |-> parsed.severity \notin {"critical", "major"}]

Tagged(findings, path) ==
  [i \in DOMAIN findings |->
     IF findings[i].file = None THEN [findings[i] EXCEPT !.file = path.name.text]
     ELSE findings[i]]

\* _run_repo: the files in order, those with no outcome (failed, empty or with a
\* list that cannot be tagged) left out; parsed[i] is of file i.
RepoReview(role, paths, parsed, truncated) ==
  LET processed == Keep([i \in DOMAIN paths |-> i],
                        {i \in DOMAIN parsed : parsed[i].sound})
      tagged == [k \in DOMAIN processed |->
                   Tagged(parsed[processed[k]].findings, paths[processed[k]])]
      noted == FlattenSeq([k \in DOMAIN processed |->
                 IF tagged[k] = <<>> THEN <<>> ELSE parsed[processed[k]].summary])
  IN AgentReview(role,
       [findings |-> FlattenSeq(tagged),
        sound    |-> TRUE,
        summary  |-> (IF truncated > 0 THEN <<"truncated">> ELSE <<>>)
                       \o (IF noted = <<>> THEN <<"no findings">> ELSE noted),
        severity |-> Label(Max({0} \cup {Rank(parsed[i].severity) : i \in ToSet(processed)}))])

Ambiguous(review) == ~review.passed /\ review.sound /\ review.findings = <<>>

FirstByRole(reviews) ==
  SelectSeq(reviews, LAMBDA r : r = SelectSeq(reviews, LAMBDA q : q.role = r.role)[1])

\* A role keeps the place of its first review and shows its last.
LatestByRole(reviews) ==
  LET first == Keep([i \in DOMAIN reviews |-> i],
                    {i \in DOMAIN reviews :
                       \A j \in 1 .. i - 1 : reviews[j].role # reviews[i].role})
      last(role) == SelectLastInSeq(reviews, LAMBDA review : review.role = role)
  IN [k \in DOMAIN first |-> reviews[last(reviews[first[k]].role)]]

HighestRank(reviews) == Max({0} \cup {Rank(reviews[i].severity) : i \in DOMAIN reviews})

-----------------------------------------------------------------------------
(* The report.                                                              *)

Line(kind) ==
  [kind |-> kind, role |-> None, severity |-> None, file |-> None, line |-> None,
   text |-> None, count |-> 0]

\* _format_finding
FindingLine(kind, role, finding) ==
  [Line(kind) EXCEPT !.role = role, !.file = finding.file, !.line = finding.line,
                     !.text = finding.text,
                     !.severity = IF finding.severity = None THEN "info" ELSE finding.severity]

Headings == {"breakdown", "callout", "section", "### TL;DR"}

OfSeverity(review, severity) ==
  Keep(review.findings, {f \in ToSet(review.findings) : Bucket(f.severity) = severity})

\* _render_severity_breakdown: one count per severity and reviewer that ran.
SeverityBreakdown(reviews) ==
  LET cells(review) == [k \in DOMAIN Ladder |->
        [Line("count") EXCEPT !.role = review.role, !.severity = Ladder[k],
                              !.count = Len(OfSeverity(review, Ladder[k]))]]
  IN IF \A i \in DOMAIN reviews : reviews[i].findings = <<>> THEN <<>>
     ELSE <<Line("breakdown")>> \o FlattenSeq([i \in DOMAIN reviews |-> cells(reviews[i])])

\* _render_critical_callout: only what is spelled "critical".
CriticalCallout(reviews) ==
  LET items == FlattenSeq([i \in DOMAIN reviews |->
        LET critical == Keep(reviews[i].findings,
                             {f \in ToSet(reviews[i].findings) : f.severity = "critical"})
        IN [k \in DOMAIN critical |-> FindingLine("critical", reviews[i].role, critical[k])]])
  IN IF items = <<>> THEN <<>>
     ELSE <<[Line("callout") EXCEPT !.count = Len(items)]>> \o items

\* The stable sort by descending rank: one severity after the other.
SortedFindings(review) ==
  OfSeverity(review, "critical") \o OfSeverity(review, "major")
    \o OfSeverity(review, "minor") \o OfSeverity(review, "info")

\* A summary is the model's own text, which may bring a heading of its own.
Section(review) ==
  LET sorted == SortedFindings(review)
  IN <<[Line("section") EXCEPT !.role = review.role, !.severity = review.severity]>>
       \o [k \in DOMAIN review.summary |->
             [Line(IF review.summary[k] = "### TL;DR" THEN "### TL;DR" ELSE "summary")
                EXCEPT !.role = review.role, !.text = review.summary[k]]]
       \o [k \in DOMAIN sorted |-> FindingLine("finding", review.role, sorted[k])]

\* render_review can read every finding of the reviews it shows.
Renders(reviews) ==
  LET latest == LatestByRole(reviews) IN \A i \in DOMAIN latest : latest[i].sound

RenderReview(reviews) ==
  LET latest == LatestByRole(reviews)
  IN IF reviews = <<>> THEN <<Line("title"), Line("no reviewers ran")>>
     ELSE <<Line("title"), [Line("overall") EXCEPT !.severity = Label(HighestRank(latest))]>>
            \o SeverityBreakdown(latest) \o CriticalCallout(latest)
            \o FlattenSeq([i \in DOMAIN latest |-> Section(latest[i])])

\* render_rejection: a template of the category, or the generic one.
RenderRejection(category) ==
  <<[Line("rejection") EXCEPT !.text =
       IF category \in {"empty_diff", "docs_only", "autogenerated", "out_of_scope", "trolling",
                        "empty_repo", "oversized_repo"} THEN category ELSE "generic"]>>

StripToTheEnd(body) ==
  LET start == SelectInSeq(body, LAMBDA l : l.kind = "### TL;DR")
  IN IF start = 0 THEN body ELSE SubSeq(body, 1, start - 1)

\* _strip_existing_tldr: from the first such heading up to the next heading.  The
\* code looks for the text anywhere in the body; here it occurs as a summary's line.
StripExistingTldr(body) ==
  LET start == SelectInSeq(body, LAMBDA l : l.kind = "### TL;DR")
      next  == SelectInSubSeq(body, start + 1, Len(body), LAMBDA l : l.kind \in Headings)
  IN CASE start = 0             -> body
       [] start > 0 /\ next = 0 -> SubSeq(body, 1, start - 1)
       [] start > 0 /\ next > 0 -> SubSeq(body, 1, start - 1) \o SubSeq(body, next, Len(body))

TldrBlock == <<Line("### TL;DR"), Line("tldr")>>

\* splice_tldr, after the line with the overall severity.
SpliceTldr(body) ==
  LET kept == StripExistingTldr(body)
      at   == SelectInSeq(kept, LAMBDA l : l.kind = "overall")
  IN SubSeq(kept, 1, at) \o TldrBlock \o SubSeq(kept, at + 1, Len(kept))

\* _build_prompt and _build_judge_doc: the findings of all reviews, of every pass.
Grounds(reviews) ==
  UNION {{FindingLine("finding", reviews[i].role, f) : f \in ToSet(reviews[i].findings)} :
           i \in DOMAIN reviews}

-----------------------------------------------------------------------------
(* The store.                                                               *)

\* _finding_rows: a line that is not a number is not kept.
FindingRow(role, finding) ==
  [role |-> role, file |-> finding.file,
   line |-> IF finding.exact THEN finding.line ELSE None,
   severity |-> StoredSeverity(finding.severity), text |-> finding.text]

\* _all_findings keeps the last review of each role, as the renderer does.
ReviewsOfRow(reviews) == LatestByRole(reviews)

FindingRows(reviews) ==
  LET kept == ReviewsOfRow(reviews)
  IN FlattenSeq([i \in DOMAIN kept |->
       [k \in DOMAIN kept[i].findings |-> FindingRow(kept[i].role, kept[i].findings[k])]])

\* _review_row
ReviewRow(verdict, reviews, report) ==
  [accepted |-> verdict.accepted, category |-> verdict.category,
   overall |-> Label(HighestRank(ReviewsOfRow(reviews))), markdown |-> report,
   finding_count |-> Len(FindingRows(reviews)), findings |-> FindingRows(reviews),
   exploit_proposals |-> <<>>]
=============================================================================
