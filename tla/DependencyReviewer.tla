-------------------------- MODULE DependencyReviewer --------------------------
(***************************************************************************)
(* One repo-mode pass of the dependency reviewer: agents/dependency.py drives *)
(* scanners/dependency_scanner.py, which parses the manifests of the snapshot   *)
(* and asks OSV.dev through integrations/osv_client.py: batches of packages      *)
(* first, then one detail lookup per advisory.  A lookup that fails is dropped,   *)
(* any other failure turns into a note; at most one LLM call writes the summary.   *)
(***************************************************************************)
EXTENDS Naturals, FiniteSets, SequencesExt

CONSTANTS
  Packages,      \* the Deps that may be pinned: (name, ecosystem, version)
  Advisories,    \* ids of OSV advisories
  Score,         \* [Advisories -> base score times ten, or NoScore]
  NoScore,       \* no numeric token in the CVSS string
  MaxManifests,  \* bound on files that match PATH_PATTERNS
  Contents,      \* the sequences of Deps a lockfile may parse to
  Answers,       \* the sequences of advisories OSV may list for a package
  BatchSize      \* _BATCH_SIZE

ASSUME ScoreAssumption == Score \in [Advisories -> Nat \cup {NoScore}] /\ NoScore \notin Nat
ASSUME BatchSizeAssumption == BatchSize \in Nat \ {0}
ASSUME InputsAssumption ==
  /\ MaxManifests \in Nat
  /\ Contents \subseteq Seq(Packages)
  /\ Answers \subseteq Seq(Advisories)

\* A file that matches has a parser, is listed as unsupported, or neither.
Kinds == {"parser", "unsupported", "unlisted"}

Unreadable == <<"parser error">>

VARIABLES
  database,    \* OSV: the advisories it lists for each package
  snapshot,    \* snapshot_dir is set and exists
  matched,     \* the kinds of the files that match, in tree order
  pc,
  parsed,      \* what each file parsed to, Unreadable, or <<>> without a parser
  deps,        \* the Deps to ask for, without duplicates
  dep_to_file, \* the manifest a Dep was seen in first
  unsupported, \* indices of the files recorded in unsupported_files
  notes,       \* indices of the files with a parser error, 0 for an outage
  asked,       \* number of deps whose batch has been answered
  dep_to_ids,  \* [Packages -> the advisories answered for it]
  details,     \* advisories whose record was fetched
  dropped,     \* advisories whose lookup failed
  unanswered,  \* history: packages of a batch that the response was too short for
  findings,    \* the findings rendered, each <<package, advisory, file>>
  review       \* NoReview, or the AgentReview

world == <<database, snapshot, matched>>
scan == <<parsed, deps, dep_to_file, unsupported, notes>>
lookups == <<asked, dep_to_ids, details, dropped, unanswered>>
vars == <<world, pc, scan, lookups, findings, review>>

\* The elements of s that are wanted, in the order of their first appearance.
Distinct(s, wanted) ==
  LET kept[n \in 0 .. Len(s)] ==
        IF n = 0 THEN <<>>
        ELSE IF s[n] \in wanted /\ ~Contains(kept[n - 1], s[n])
             THEN Append(kept[n - 1], s[n]) ELSE kept[n - 1]
  IN kept[Len(s)]

\* The update {}: no AgentReview.
NoReview == [findings |-> <<>>, summary |-> "no review", severity |-> "info", passed |-> FALSE]

AgentReview(summary, severity) ==
  [findings |-> findings, summary |-> summary, severity |-> severity,
   passed |-> severity \notin {"critical", "major"}]

Init ==
  /\ database \in [Packages -> Answers]
  /\ snapshot \in BOOLEAN
  /\ matched \in UNION {[1 .. n -> Kinds] : n \in 0 .. MaxManifests}
  /\ pc = "start"
  /\ parsed = <<>>
  /\ deps = <<>>
  /\ dep_to_file = [p \in {} |-> 0]
  /\ unsupported = {}
  /\ notes = {}
  /\ asked = 0
  /\ dep_to_ids = [p \in Packages |-> <<>>]
  /\ details = {}
  /\ dropped = {}
  /\ unanswered = {}
  /\ findings = <<>>
  /\ review = NoReview

-----------------------------------------------------------------------------
(* The scan of the manifests, without an await.                             *)

\* _run_repo before the scan: no snapshot, no review; no manifest, a fixed one.
NothingToScan ==
  /\ pc = "start"
  /\ ~snapshot \/ matched = <<>>
  /\ review' = IF snapshot THEN AgentReview("no manifests", "info") ELSE NoReview
  /\ pc' = "returned"
  /\ UNCHANGED <<world, scan, lookups, findings>>

\* An exception the scanner does not catch (a lockfile that is no JSON object).
ParserRaises ==
  /\ pc = "start" /\ snapshot
  /\ \E i \in DOMAIN matched : matched[i] = "parser"
  /\ pc' = "raised"
  /\ UNCHANGED <<world, scan, lookups, findings, review>>

Readable(outcome) ==
  {i \in DOMAIN outcome : matched[i] = "parser" /\ outcome[i] # Unreadable}

\* The manifest a finding cites.
FirstSource(outcome, p) ==
  CHOOSE i \in Readable(outcome) :
    /\ Contains(outcome[i], p)
    /\ \A j \in Readable(outcome) : Contains(outcome[j], p) => i <= j

Outcomes(kind) == IF kind = "parser" THEN Contents \cup {Unreadable} ELSE {<<>>}

\* The deps of the readable manifests, in order.
Found(outcome) ==
  Distinct(FlattenSeq([i \in DOMAIN outcome |->
                         IF i \in Readable(outcome) THEN outcome[i] ELSE <<>>]), Packages)

ScanManifests ==
  /\ pc = "start" /\ snapshot /\ matched # <<>>
  /\ \E outcome \in [DOMAIN matched -> Contents \cup {Unreadable, <<>>}] :
       /\ \A i \in DOMAIN matched : outcome[i] \in Outcomes(matched[i])
       /\ parsed' = outcome
       /\ deps' = Found(outcome)
       /\ dep_to_file' = [p \in ToSet(Found(outcome)) |-> FirstSource(outcome, p)]
       /\ unsupported' = {i \in DOMAIN matched : matched[i] = "unsupported"}
       /\ notes' = {i \in DOMAIN matched : outcome[i] = Unreadable}
       /\ pc' = IF Found(outcome) = <<>> THEN "summarise" ELSE "query"
  /\ UNCHANGED <<world, lookups, findings, review>>

-----------------------------------------------------------------------------
(* OSVClient.query.                                                         *)

LastChunk == asked + BatchSize > Len(deps)

\* All chunks have been sent.
AllAsked == asked >= Len(deps)

Batch ==
  SubSeq(deps, asked + 1, IF LastChunk THEN Len(deps) ELSE asked + BatchSize)

ShiftedIdsAfter(n) ==
  [p \in Packages |->
     IF \E i \in 1 .. n : Batch[i] = p /\ i < Len(Batch)
     THEN database[Batch[(CHOOSE i \in 1 .. n : Batch[i] = p) + 1]]
     ELSE dep_to_ids[p]]

\* A response of n entries: entry i answers query i of the batch, and zip
\* ignores the queries that the response does not reach.
IdsAfter(n) ==
  [p \in Packages |->
     IF \E i \in 1 .. n : Batch[i] = p THEN database[p] ELSE dep_to_ids[p]]

\* POST /v1/querybatch for one chunk.
QueryBatch ==
  /\ pc = "query" /\ ~AllAsked
  /\ \E n \in 0 .. Len(Batch) :
       /\ dep_to_ids' = IdsAfter(n)
       /\ unanswered' = unanswered \cup {Batch[i] : i \in n + 1 .. Len(Batch)}
  /\ asked' = asked + Len(Batch)
  /\ UNCHANGED <<world, pc, scan, details, dropped, findings, review>>

UniqueIds == UNION {ToSet(dep_to_ids[p]) : p \in Packages}

AllLookedUpWell == AllAsked /\ UniqueIds \subseteq details

AllLookedUp == AllAsked /\ UniqueIds \subseteq details \cup dropped

\* GET /v1/vulns/{id}, in the order of a set; a bad answer drops this id only.
FetchDetail(v) ==
  /\ pc = "query" /\ AllAsked
  /\ v \in UniqueIds \ (details \cup dropped)
  /\ \/ details' = details \cup {v} /\ UNCHANGED dropped
     \/ dropped' = dropped \cup {v} /\ UNCHANGED details
  /\ UNCHANGED <<world, pc, scan, asked, dep_to_ids, unanswered, findings, review>>

\* Any other exception of query() ends the scan with a note.
Outage ==
  /\ pc = "query" /\ ~AllLookedUp
  /\ notes' = notes \cup {0}
  /\ pc' = "summarise"
  /\ UNCHANGED <<world, parsed, deps, dep_to_file, unsupported, lookups, findings, review>>

VulnsAsFetched(p) == SetToSeq(ToSet(dep_to_ids[p]) \cap details)

\* The advisories of a package, in OSV's order without duplicates, whose record
\* was fetched.
Vulns(p) == Distinct(dep_to_ids[p], details)

\* _render_findings: in the order of the deps.
Rendered ==
  FlattenSeq([i \in DOMAIN deps |->
    [j \in DOMAIN Vulns(deps[i]) |->
      <<deps[i], Vulns(deps[i])[j], dep_to_file[deps[i]]>>]])

RenderFindings ==
  /\ pc = "query" /\ AllLookedUp
  /\ findings' = Rendered
  /\ pc' = "summarise"
  /\ UNCHANGED <<world, scan, lookups, review>>

-----------------------------------------------------------------------------
(* Severity and summary.                                                    *)

\* _severity_from_cvss.
SeverityFromCvss(v) ==
  CASE Score[v] = NoScore -> "minor"
    [] Score[v] \in 90 .. 100 -> "critical"
    [] Score[v] \in 70 .. 89 -> "major"
    [] Score[v] \in 0 .. 39 -> "info"
    [] OTHER -> "minor"

Ranked == <<"info", "minor", "major", "critical">>

SeverityOfLast ==
  IF findings = <<>> THEN "info" ELSE SeverityFromCvss(Last(findings)[2])

\* _overall_severity: the highest one.
OverallSeverity ==
  LET buckets == {SeverityFromCvss(findings[i][2]) : i \in DOMAIN findings} \cup {"info"}
  IN Ranked[CHOOSE r \in DOMAIN Ranked :
       /\ Ranked[r] \in buckets
       /\ \A s \in DOMAIN Ranked : Ranked[s] \in buckets => s <= r]

DisclosesOnlyFiles == unsupported # {} \/ notes \ {0} # {}

\* _format_disclosures is not blank.
HasDisclosures == unsupported # {} \/ notes # {}

\* With findings the LLM writes the summary, or says nothing and a line that has
\* no disclosures takes its place; without findings it is composed.
Summaries ==
  IF findings # <<>> THEN {"prose", "fallback"}
  ELSE IF HasDisclosures THEN {"disclosures"} ELSE {"clean"}

Summarise ==
  /\ pc = "summarise"
  /\ \E summary \in Summaries : review' = AgentReview(summary, OverallSeverity)
  /\ pc' = "returned"
  /\ UNCHANGED <<world, scan, lookups, findings>>

\* Stop at one of the awaits, or the LLM call fails.
PassRaises ==
  /\ \/ pc = "query" /\ ~AllLookedUp
     \/ pc = "summarise" /\ findings # <<>>
  /\ pc' = "raised"
  /\ UNCHANGED <<world, scan, lookups, findings, review>>

Progress ==
  \/ NothingToScan \/ ScanManifests \/ QueryBatch \/ RenderFindings \/ Summarise
  \/ \E v \in Advisories : FetchDetail(v)

Next == Progress \/ ParserRaises \/ Outage \/ PassRaises

Spec == Init /\ [][Next]_vars

\* The pass is one coroutine; HTTP and LLM calls end with a result or a timeout.
FairSpec == Spec /\ WF_vars(Progress)

-----------------------------------------------------------------------------

Severities == ToSet(Ranked)

\* The type of every variable.
TypeOK ==
  /\ database \in [Packages -> Answers]
  /\ snapshot \in BOOLEAN
  /\ matched \in Seq(Kinds) /\ Len(matched) <= MaxManifests
  /\ pc \in {"start", "query", "summarise", "returned", "raised"}
  /\ parsed = <<>> \/ parsed \in [DOMAIN matched -> Contents \cup {Unreadable, <<>>}]
  /\ deps \in Seq(Packages)
  /\ dep_to_file \in [ToSet(deps) -> DOMAIN matched]
  /\ unsupported \subseteq DOMAIN matched
  /\ notes \subseteq DOMAIN matched \cup {0}
  /\ asked \in 0 .. Len(deps)
  /\ dep_to_ids \in [Packages -> Answers \cup {<<>>}]
  /\ details \in SUBSET Advisories
  /\ dropped \in SUBSET Advisories
  /\ unanswered \in SUBSET Packages
  /\ findings \in Seq(Packages \X Advisories \X DOMAIN matched)
  /\ review.findings \in {findings, <<>>}
  /\ review.severity \in Severities
  /\ review.passed \in BOOLEAN

\* The manifests a package was read from.
Sources(p) == {i \in DOMAIN parsed : parsed[i] # Unreadable /\ p \in ToSet(parsed[i])}

\* Every finding is an advisory OSV lists for that package, and cites a manifest
\* that pins the package and that no earlier one does.
FindingsAreSound ==
  \A i \in DOMAIN findings :
    LET p == findings[i][1] IN
    /\ findings[i][2] \in ToSet(database[p])
    /\ findings[i][3] \in Sources(p)
    /\ \A f \in Sources(p) : findings[i][3] <= f

\* A review that saw no outage reports every advisory of every package of every
\* readable manifest exactly once, except packages OSV's response stopped short
\* of and advisories whose lookup failed: one bad advisory never hides another.
FindingsAreComplete ==
  (pc = "returned" /\ 0 \notin notes) =>
    \A p \in Packages \ unanswered : \A v \in ToSet(database[p]) \ dropped :
      Sources(p) # {} =>
        Cardinality({i \in DOMAIN findings : findings[i][1] = p /\ findings[i][2] = v}) = 1

\* The first place of e in s.
Place(s, e) == CHOOSE i \in DOMAIN s : s[i] = e /\ \A j \in 1 .. i - 1 : s[j] # e

\* "Two consecutive scans produce byte-identical findings": the order of findings
\* depends on the manifests and on OSV's lists only, never on the chunks or on
\* the order in which the details came.
FindingsKeepOrder ==
  \A i, j \in DOMAIN findings : i < j =>
    LET p == findings[i][1]
        q == findings[j][1]
    IN \/ findings[i][3] < findings[j][3]
       \/ /\ findings[i][3] = findings[j][3] /\ p # q
          /\ Place(parsed[findings[i][3]], p) < Place(parsed[findings[i][3]], q)
       \/ /\ p = q
          /\ Place(database[p], findings[i][2]) < Place(database[p], findings[j][2])

\* The findings are sound, complete for what was answered, and in order.
FindingsAreExact == FindingsAreSound /\ FindingsAreComplete /\ FindingsKeepOrder

\* "No known vulnerabilities" without a caveat is said only when every manifest was
\* read or is of a kind that the scanner does not list (of which nothing is said,
\* although dependency.py promises them under unsupported_files), every package was
\* asked for, and each of them has no advisory but those whose lookup failed, unless
\* OSV's answer stopped short of it.  It is no promise that there is no vulnerability.
CleanMeansClean ==
  review.summary = "clean" =>
    /\ \A i \in DOMAIN matched :
         matched[i] = "unlisted" \/ (matched[i] = "parser" /\ parsed[i] # Unreadable)
    /\ \A p \in Packages : Sources(p) # {} =>
         p \in unanswered \/ ToSet(database[p]) \subseteq dropped
    /\ asked = Len(deps)

\* A review passes only if no advisory it reports scores 7.0 or more.
PassedMeansHarmless ==
  review.passed =>
    \A i \in DOMAIN findings :
      LET score == Score[findings[i][2]]
      IN score = NoScore \/ score < 70 \/ score > 100

\* Neither a clean bill nor a pass says more than that.
VerdictIsEarned == CleanMeansClean /\ PassedMeansHarmless

\* Whatever OSV and the LLM do, the pass returns or raises.
PassEnds == <>(pc \in {"returned", "raised"})
=============================================================================
