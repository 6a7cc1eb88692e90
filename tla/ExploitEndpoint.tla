--------------------------- MODULE ExploitEndpoint ---------------------------
(***************************************************************************)
(* POST /reviews/{thread_id}/exploits/{finding_id} of main.py: requests for   *)
(* one review, served concurrently.  Each reads the review row, decides on     *)
(* what it read, spends its LLM calls and only then writes: the proposal, the   *)
(* token bucket, the artifact file.  Every database or LLM call is an await, so *)
(* other requests, and the upsert of a resumed review, run in between.         *)
(***************************************************************************)
EXTENDS Naturals, Sequences, FiniteSets, SequencesExt

CONSTANTS
  Requests,               \* concurrent request handlers (each is reused)
  Findings,               \* finding_ids of the review with severity critical
  Others,                 \* finding_ids that exist and are not critical
  MAX_EXPLOIT_PROPOSALS,  \* exploit_proposal.MAX_EXPLOIT_PROPOSALS
  MaxPosts,               \* bound on requests sent
  MaxSaves                \* bound on save_review upserts while they run

ASSUME RequestsAssumption == IsFiniteSet(Requests)
ASSUME FindingsAssumption == Findings \cap Others = {}
ASSUME CapAssumption == MAX_EXPLOIT_PROPOSALS \in Nat \ {0}
ASSUME BoundsAssumption == MaxPosts \in Nat /\ MaxSaves \in Nat

Unknown == "unknown"    \* a finding_id of no finding
Targets == Findings \cup Others \cup {Unknown}

VARIABLES
  present,    \* the review row exists
  proposals,  \* its exploit_proposals
  buckets,    \* [Findings -> LLM calls in token_usage["exploit:<id>"]]
  files,      \* findings with a <thread_id>.exploit.<id>.md
  pc,         \* [Requests -> where the handler is suspended]
  target,     \* [Requests -> the finding_id asked for]
  seen,       \* [Requests -> the proposals get_review returned to it]
  drafted,    \* [Requests -> the ExploitProposal the agent returned]
  response,   \* [Requests -> the status code of the last answer; 0 before]
  overlapped, \* history: a request came in while another was being served
  posts,      \* requests sent so far
  saves       \* upserts so far

row == <<present, proposals, buckets>>
handlers == <<pc, target, seen, drafted, response>>
vars == <<row, files, handlers, overlapped, posts, saves>>

Pcs == {"idle", "read", "draft", "artifact", "persist", "merge"}

\* status, whether the artifact is non-empty, and the LLM calls that answered
Drafts == [status : {"approved", "skipped_low_confidence"},
           artifact : BOOLEAN, calls : 0 .. 2]

NoDraft == [status |-> "skipped_low_confidence", artifact |-> FALSE, calls |-> 0]

Proposals == [finding : Findings, status : {"approved", "skipped_low_confidence"},
              artifact : BOOLEAN]

Init ==
  /\ present \in BOOLEAN
  /\ proposals = <<>>
  /\ buckets = [f \in Findings |-> 0]
  /\ files = {}
  /\ pc = [r \in Requests |-> "idle"]
  /\ target = [r \in Requests |-> Unknown]
  /\ seen = [r \in Requests |-> <<>>]
  /\ drafted = [r \in Requests |-> NoDraft]
  /\ response = [r \in Requests |-> 0]
  /\ overlapped = FALSE
  /\ posts = 0
  /\ saves = 0

-----------------------------------------------------------------------------

At(r, place) == pc[r] = place

Suspend(r, place) == pc' = [pc EXCEPT ![r] = place]

Answer(r, code) == Suspend(r, "idle") /\ response' = [response EXCEPT ![r] = code]

\* LLM calls of request r that answered, in the handler it made for itself.
Spend(r, n) ==
  drafted' = [drafted EXCEPT ![r] =
                [status |-> @.status, artifact |-> @.artifact, calls |-> @.calls + n]]

ApprovedAlready(list, f) ==
  \E i \in DOMAIN list : list[i].finding = f /\ list[i].status = "approved"

\* A record of any status makes the request idempotent.
AlreadyCreated(list, f) == \E i \in DOMAIN list : list[i].finding = f

AtCapOffByOne(list) == Len(list) > MAX_EXPLOIT_PROPOSALS

NeverAtCap(list) == FALSE

AtCap(list) == Len(list) >= MAX_EXPLOIT_PROPOSALS

\* The endpoint makes a TokenUsageHandler for this request alone.
FreshHandler(r) == [drafted EXCEPT ![r] = NoDraft]

\* The request comes in.
Post(r) ==
  /\ At(r, "idle")
  /\ posts < MaxPosts
  /\ posts' = posts + 1
  /\ overlapped' = (overlapped \/ \E q \in Requests : ~At(q, "idle"))
  /\ target' \in {[target EXCEPT ![r] = f] : f \in Targets}
  /\ Suspend(r, "read")
  /\ drafted' = FreshHandler(r)
  /\ response' = [response EXCEPT ![r] = 0]
  /\ UNCHANGED <<row, files, seen, saves>>

\* get_review, and every check up to the agent, on the row it returned.
ReadReview(r) ==
  /\ At(r, "read")
  /\ seen' = [seen EXCEPT ![r] = proposals]
  /\ \/ ~present /\ Answer(r, 404)
     \/ present /\ AlreadyCreated(proposals, target[r]) /\ Answer(r, 200)
     \/ /\ present /\ ~AlreadyCreated(proposals, target[r])
        /\ \/ AtCap(proposals) /\ Answer(r, 409)
           \/ ~AtCap(proposals) /\ target[r] = Unknown /\ Answer(r, 404)
           \/ ~AtCap(proposals) /\ target[r] \in Others /\ Answer(r, 400)
           \/ /\ ~AtCap(proposals) /\ target[r] \in Findings
              /\ Suspend(r, "draft") /\ UNCHANGED response
  /\ UNCHANGED <<row, files, target, drafted, overlapped, posts, saves>>

\* generate_exploit, first call: it fails (confidence 0), rates low, rates
\* high, or its answer makes the parser raise (the request ends with 500).
Draft(r) ==
  /\ At(r, "draft")
  /\ \/ Spend(r, 0) /\ Suspend(r, "persist") /\ UNCHANGED response
     \/ Spend(r, 1) /\ Suspend(r, "persist") /\ UNCHANGED response
     \/ Spend(r, 1) /\ Suspend(r, "artifact") /\ UNCHANGED response
     \/ Spend(r, 1) /\ Answer(r, 500)
  /\ UNCHANGED <<row, files, target, seen, overlapped, posts, saves>>

\* Second call: a failure gives an empty artifact, the status is approved.
GenerateArtifact(r) ==
  /\ At(r, "artifact")
  /\ \E ok \in BOOLEAN :
       drafted' = [drafted EXCEPT ![r] =
                     [status |-> "approved", artifact |-> ok,
                      calls |-> IF ok THEN @.calls + 1 ELSE @.calls]]
  /\ Suspend(r, "persist")
  /\ UNCHANGED <<row, files, target, seen, response, overlapped, posts, saves>>

Payload(r) == [finding |-> target[r], status |-> drafted[r].status,
               artifact |-> drafted[r].artifact]

AppendedToSeen(r) == Append(seen[r], Payload(r))

\* _APPEND_EXPLOIT_SQL: the column as it is now, || the new element.
Appended(r) == Append(proposals, Payload(r))

\* The token bucket is written only if some call answered.
Merges(r) == drafted[r].calls > 0

\* add_exploit_proposal; its errors are logged.  Without tokens and artifact
\* the answer follows at once.
Persist(r) ==
  /\ At(r, "persist")
  /\ proposals' \in {Appended(r), proposals}
  /\ IF Merges(r) THEN Suspend(r, "merge") /\ UNCHANGED response ELSE Answer(r, 201)
  /\ UNCHANGED <<present, buckets, files, target, seen, drafted, overlapped, posts, saves>>

\* merge_token_usage_bucket sets the finding's bucket, or its error is logged;
\* then the artifact file, whose errors are logged too, and the answer.
MergeAndWrite(r) ==
  /\ At(r, "merge")
  /\ buckets' \in {[buckets EXCEPT ![target[r]] = drafted[r].calls], buckets}
  /\ files' \in IF drafted[r].artifact THEN {files \cup {target[r]}, files} ELSE {files}
  /\ Answer(r, 201)
  /\ UNCHANGED <<present, proposals, target, seen, drafted, overlapped, posts, saves>>

\* save_review by the run or a resume task: the upsert replaces both columns,
\* and the state it writes holds no exploit.
SaveReview ==
  /\ saves < MaxSaves
  /\ saves' = saves + 1
  /\ present' = TRUE
  /\ proposals' = <<>>
  /\ buckets' = [f \in Findings |-> 0]
  /\ UNCHANGED <<files, handlers, overlapped, posts>>

HandlerStep(r) ==
  ReadReview(r) \/ Draft(r) \/ GenerateArtifact(r) \/ Persist(r) \/ MergeAndWrite(r)

Next ==
  \/ \E r \in Requests : Post(r) \/ HandlerStep(r)
  \/ SaveReview

Spec == Init /\ [][Next]_vars

-----------------------------------------------------------------------------

\* The type of every variable.
TypeOK ==
  /\ present \in BOOLEAN
  /\ proposals \in Seq(Proposals)
  /\ buckets \in [Findings -> Nat]
  /\ files \in SUBSET Findings
  /\ pc \in [Requests -> Pcs]
  /\ target \in [Requests -> Targets]
  /\ seen \in [Requests -> Seq(Proposals)]
  /\ drafted \in [Requests -> Drafts]
  /\ response \in [Requests -> {0, 200, 201, 400, 404, 409, 500}]
  /\ overlapped \in BOOLEAN
  /\ posts \in Nat
  /\ saves \in Nat

Distinct(list) ==
  \A i, j \in DOMAIN list : list[i].finding = list[j].finding => i = j

\* A client that waits for each answer is served within the rules whatever fails
\* on the way (an LLM call, the append, the bucket, the file) and whatever a
\* resumed review upserts meanwhile: the row stays within the cap ...
CapHoldsInSequence == ~overlapped => Len(proposals) <= MAX_EXPLOIT_PROPOSALS

\* ... and asking twice for a finding creates one record.
OneRecordInSequence == ~overlapped => Distinct(proposals)

\* Both, for requests that do not overlap.
ServedInSequence == CapHoldsInSequence /\ OneRecordInSequence

Admitted == {r \in Requests : pc[r] \in {"draft", "artifact", "persist"}}

\* However many handlers pass the cap check before the first of them writes,
\* the row overshoots the cap by less than the number of concurrent handlers.
OverrunIsBounded ==
  Len(proposals) + Cardinality(Admitted) < MAX_EXPLOIT_PROPOSALS + Cardinality(Requests)

\* No handler undoes what another one persisted: short of a new save_review,
\* the proposals only grow at the end.
NoLostUpdate == [][saves' = saves => IsPrefix(proposals, proposals')]_vars
=============================================================================
