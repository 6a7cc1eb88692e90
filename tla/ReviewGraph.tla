----------------------------- MODULE ReviewGraph -----------------------------
(***************************************************************************)
(* One chain of invocations of the review graph (the initial astream and the *)
(* ainvoke(Command(resume)) calls that follow, one after the other), with    *)
(* the parallel reviewer superstep reviewer by reviewer: each reviewer task  *)
(* finishes on its own, its update is buffered, and the buffered updates are *)
(* folded into the state (the `add` reducer) only when the last is in.       *)
(***************************************************************************)
EXTENDS ReviewSteps, Sequences, FiniteSets, SequencesExt, FiniteSetsExt

CONSTANT Roles    \* ALLOWED_SCOPE_ROLES, one reviewer node each

ASSUME RolesAssumption == IsFiniteSet(Roles) /\ Roles # {}

VARIABLES
  mode,           \* request.mode: "pr" or "repo"
  scope,          \* request.scope; empty means every role
  snapshot,       \* repo mode: request.snapshot_dir still exists on disk
  at,             \* the node of the current superstep
  writes,         \* [Roles -> update of the reviewer task in this superstep]
  agent_reviews,  \* [Roles -> the reviews of that role, oldest first]
  cycle_count,
  extra_context,
  report,         \* [Roles -> the review in final_report]; <<>> before aggregate
  passes,         \* history: reviewer supersteps completed
  reviewed,       \* history: those that produced a review
  asked,          \* history: the passes a question was asked after
  published       \* history: publish_report ran

vars == <<mode, scope, snapshot, at, writes, agent_reviews, cycle_count,
          extra_context, report, passes, reviewed, asked, published>>

request == <<mode, scope>>
reviewState == <<agent_reviews, passes, reviewed>>
decision == <<cycle_count, extra_context, asked>>
output == <<report, published>>

Reviews == [pass : Nat, ambiguous : BOOLEAN]

\* What a reviewer task has put into the superstep so far: nothing yet, {} or
\* one AgentReview, ambiguous when passed=False comes with no findings.
Updates == {"pending", "empty", "clean", "ambiguous"}

NoWrites == [r \in Roles |-> "pending"]

InScope == IF scope = {} THEN Roles ELSE scope

AmbiguousOnlyIfAll(reviews) ==
  \A r \in Roles : \E i \in DOMAIN reviews[r] : reviews[r][i].ambiguous

\* _needs_clarification: any accumulated review, of whatever pass.
Ambiguous(reviews) ==
  \E r \in Roles : \E i \in DOMAIN reviews[r] : reviews[r][i].ambiguous

MayAskOffByOne ==
  cycle_count < MAX_CYCLES /\ Ambiguous(agent_reviews) /\ Checkpointer

\* ReviewDecisionAgent.run returns before interrupt() unless all three hold.
MayAsk ==
  cycle_count + 1 < MAX_CYCLES /\ Ambiguous(agent_reviews) /\ Checkpointer

KeptContext == extra_context

\* base_update: the context a return without an answer writes, which is none,
\* because the rerun that produced these reviews has consumed it.
ContextWithoutAnswer == FALSE

\* _parse_resume: an answer that does not approve carries no context, and an
\* approval only what follows the keyword, which may be nothing.
ContextOf(answer) == answer = "rerun_context"

\* route_after_decision sees the context only.  So a bare `rerun`, an approval
\* according to _parse_resume and architecture.md:123, goes on to the report.
RouteAfterDecision(context) ==
  IF context THEN "reviewers" ELSE "aggregate_results"

SomeReturned == \E r \in Roles : writes[r] # "pending"

AllReviewed == \A r \in Roles : writes[r] \notin {"pending", "empty"}

\* The fan-in edge waits for the four reviewer tasks.
AllReturned == \A r \in Roles : writes[r] # "pending"

\* The `add` reducer of agent_reviews over the updates of one superstep.
Folded(reviews, update, pass) ==
  [r \in Roles |-> IF update[r] \in {"pending", "empty"} THEN reviews[r]
                   ELSE Append(reviews[r], [pass |-> pass,
                                            ambiguous |-> update[r] = "ambiguous"])]

Init ==
  /\ mode \in {"pr", "repo"}
  /\ scope \in SUBSET Roles
  /\ snapshot = (mode = "repo")
  /\ at = "validate_request"
  /\ writes = NoWrites
  /\ agent_reviews = [r \in Roles |-> <<>>]
  /\ cycle_count = 0
  /\ extra_context = FALSE
  /\ report = <<>>
  /\ passes = 0
  /\ reviewed = 0
  /\ asked = {}
  /\ published = FALSE

-----------------------------------------------------------------------------

\* validate_request: the verdict routes the run, or the LLM judge raises (the
\* structural checks of repo mode do not call it).
ValidateRequest ==
  /\ at = "validate_request"
  /\ at' \in {"notify_rejection", "retrieve_past_context"}
               \cup (IF mode = "pr" THEN {"failed"} ELSE {})
  /\ UNCHANGED <<request, snapshot, writes, reviewState, decision, output>>

NotifyRejection ==
  /\ at = "notify_rejection"
  /\ at' = "END"
  /\ UNCHANGED <<request, snapshot, writes, reviewState, decision, output>>

RetrievePastContext ==
  /\ at = "retrieve_past_context"
  /\ at' = "reviewers"
  /\ writes' = NoWrites
  /\ UNCHANGED <<request, snapshot, reviewState, decision, output>>

\* BaseReviewer.run of one role, up to the update it returns: {} when scope
\* leaves it out or the snapshot is gone, else one review.
ReviewerReturns(r) ==
  /\ at = "reviewers"
  /\ writes[r] = "pending"
  /\ LET unread == r \notin InScope \/ (mode = "repo" /\ ~snapshot)
     IN writes' \in {[writes EXCEPT ![r] = u] :
                       u \in IF unread THEN {"empty"} ELSE {"clean", "ambiguous"}}
  /\ UNCHANGED <<request, snapshot, at, reviewState, decision, output>>

\* An exception out of a reviewer (a failed LLM call in PR mode) cancels its
\* siblings and is raised out of the invocation; their updates are dropped.
ReviewerRaises(r) ==
  /\ at = "reviewers"
  /\ writes[r] = "pending"
  /\ r \in InScope
  /\ mode = "repo" => snapshot
  /\ at' = "failed"
  /\ writes' = NoWrites
  /\ UNCHANGED <<request, snapshot, reviewState, decision, output>>

\* All four are in: the reducer appends each update, then the fan-in node.
ReviewersJoin ==
  /\ at = "reviewers"
  /\ AllReturned
  /\ agent_reviews' = Folded(agent_reviews, writes, passes + 1)
  /\ passes' = passes + 1
  /\ reviewed' = IF agent_reviews' = agent_reviews THEN reviewed ELSE reviewed + 1
  /\ writes' = NoWrites
  /\ at' = "review_decision"
  /\ UNCHANGED <<request, snapshot, decision, output>>

\* ReviewDecisionAgent.run: proceed, or interrupt() with a question.
ReviewDecision ==
  /\ at = "review_decision"
  /\ IF MayAsk
     THEN /\ at' = "interrupt"
          /\ asked' = asked \cup {passes}
          /\ UNCHANGED extra_context
     ELSE /\ extra_context' = ContextWithoutAnswer
          /\ at' = RouteAfterDecision(ContextWithoutAnswer)
          /\ UNCHANGED asked
  /\ UNCHANGED <<request, snapshot, writes, reviewState, cycle_count, output>>

\* Command(resume=answer): the node runs again from its start, interrupt()
\* returns the answer, and route_after_decision looks at extra_context.
ResumeWith(answer) ==
  /\ at = "interrupt"
  /\ cycle_count' = IF Approves(answer) THEN cycle_count + 1 ELSE cycle_count
  /\ extra_context' = ContextOf(answer)
  /\ at' = RouteAfterDecision(ContextOf(answer))
  /\ writes' = NoWrites
  /\ UNCHANGED <<request, snapshot, reviewState, asked, output>>

\* _run_repo_review's finally removes the snapshot once the initial stream is
\* over: that is, at any time after the first suspension.
SnapshotRemoved ==
  /\ snapshot
  /\ asked # {}
  /\ snapshot' = FALSE
  /\ UNCHANGED <<request, at, writes, reviewState, decision, output>>

\* render_review keeps the last entry of each role.
AggregateResults ==
  /\ at = "aggregate_results"
  /\ report' = [r \in {s \in Roles : agent_reviews[s] # <<>>} |-> Last(agent_reviews[r])]
  /\ at' = "format_report"
  /\ UNCHANGED <<request, snapshot, writes, reviewState, decision, published>>

FormatReport ==
  /\ at = "format_report"
  /\ at' = "publish_report"
  /\ UNCHANGED <<request, snapshot, writes, reviewState, decision, output>>

\* In PR mode nothing has looked into the findings of an answer before these two
\* nodes do: a list of anything but objects makes them raise.
RenderingRaises ==
  /\ at \in {"aggregate_results", "format_report"}
  /\ mode = "pr"
  /\ at' = "failed"
  /\ UNCHANGED <<request, snapshot, writes, reviewState, decision, output>>

PublishReport ==
  /\ at = "publish_report"
  /\ published' = TRUE
  /\ at' = "END"
  /\ UNCHANGED <<request, snapshot, writes, reviewState, decision, report>>

Next ==
  \/ ValidateRequest
  \/ NotifyRejection
  \/ RetrievePastContext
  \/ \E r \in Roles : ReviewerReturns(r) \/ ReviewerRaises(r)
  \/ ReviewersJoin
  \/ ReviewDecision
  \/ \E answer \in Answers : ResumeWith(answer)
  \/ SnapshotRemoved
  \/ AggregateResults
  \/ FormatReport
  \/ RenderingRaises
  \/ PublishReport

Spec == Init /\ [][Next]_vars

\* LangGraph runs every scheduled task to its end, and the awaited calls return.
\* The human is not fair: a question may stay unanswered for ever.
GraphFairness ==
  /\ WF_vars(ValidateRequest \/ NotifyRejection \/ RetrievePastContext
               \/ ReviewersJoin \/ ReviewDecision
               \/ AggregateResults \/ FormatReport \/ PublishReport)
  /\ \A r \in Roles : WF_vars(ReviewerReturns(r))

FairSpec == Spec /\ GraphFairness
-----------------------------------------------------------------------------

\* The type of every variable.
TypeOK ==
  /\ mode \in {"pr", "repo"}
  /\ scope \in SUBSET Roles
  /\ snapshot \in BOOLEAN
  /\ at \in Nodes
  /\ writes \in [Roles -> Updates]
  /\ agent_reviews \in [Roles -> Seq(Reviews)]
  /\ cycle_count \in Nat
  /\ extra_context \in BOOLEAN
  /\ passes \in Nat
  /\ reviewed \in Nat
  /\ asked \in SUBSET Nat
  /\ published \in BOOLEAN

\* The loop through review_decision is bounded by MAX_CYCLES however the human
\* answers: at most MAX_CYCLES reviewer passes and MAX_CYCLES - 1 questions
\* (review_decision.MAX_CYCLES, and the early return that tests it).
LoopIsBounded ==
  /\ passes <= MAX_CYCLES
  /\ asked \subseteq 1 .. (MAX_CYCLES - 1)
  /\ cycle_count <= MAX_CYCLES - 1

\* No pass is run unasked.  The reviewers run again only as the outcome of a
\* question asked after the last pass; a context in the state comes from the
\* answer to a question and outlives the rerun it was given for by no more than
\* the decision that follows (ReviewDecisionAgent clears it, or it "would keep
\* routing back to reviewers forever", review_decision.py:71-73); and none is
\* left when the report is made.
RerunsAreAskedFor ==
  /\ at = "reviewers" /\ passes > 0 => passes \in asked
  /\ extra_context => passes \in asked \/ passes - 1 \in asked
  /\ at \in {"aggregate_results", "format_report", "publish_report"} => ~extra_context

\* Fan-in is a barrier: no report is aggregated before every role in scope has
\* contributed, no role outside the scope has, and each role's entry in the
\* report is its newest review even after reruns that only some roles answered.
ReportCoversScope ==
  report # <<>> =>
    /\ DOMAIN report = InScope
    /\ \A r \in InScope :
         \A i \in DOMAIN agent_reviews[r] : agent_reviews[r][i].pass <= report[r].pass

\* A published report with an unresolved concern had its human: if a reviewer's
\* newest review is ambiguous then a question was asked after the last pass, or
\* none could be (the cap is reached, or there is no checkpointer to suspend on).
AmbiguityWasAsked ==
  (published /\ \E r \in DOMAIN report : report[r].ambiguous)
    => passes \in asked \/ passes = MAX_CYCLES \/ ~Checkpointer

\* Every invocation comes to rest: a started review ends, fails, or is waiting
\* for the human at a question (no superstep waits for a reviewer for ever).
ComesToRest == []<>(at \in {"END", "failed", "interrupt"})

\* The graph state of GraphContract: the reviews reduced to their ambiguity.
gbar ==
  [at |-> at, cycle_count |-> cycle_count, extra_context |-> extra_context,
   ambiguous |-> Ambiguous(agent_reviews), passes |-> passes, reviewed |-> reviewed]

Contract == INSTANCE GraphContract WITH g <- gbar

\* Reviewer-by-reviewer execution implements the atomic supersteps of
\* GraphContract: buffering the updates until the join hides the interleaving.
ImplementsContract == Contract!ContractSpec
======================================================================
