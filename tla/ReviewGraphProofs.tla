-------------------------- MODULE ReviewGraphProofs --------------------------
(***************************************************************************)
(* Theorems of ReviewGraph, for any set of reviewers and any MAX_CYCLES.      *)
(***************************************************************************)
EXTENDS ReviewGraph, TLAPS

-----------------------------------------------------------------------------
(* Types.                                                                   *)

\* The initial states are well typed.
LEMMA InitTypeOK == Init => TypeOK
  <1> SUFFICES ASSUME Init PROVE TypeOK
      OBVIOUS
  <1>1. snapshot \in BOOLEAN /\ extra_context \in BOOLEAN /\ published \in BOOLEAN
      BY Zenon DEF Init
  <1>2. agent_reviews \in [Roles -> Seq(Reviews)]
      BY DEF Init
  <1>3. writes \in [Roles -> Updates]
      BY DEF Init, NoWrites, Updates
  <1>4. at \in Nodes
      BY DEF Init, Nodes
  <1> QED BY <1>1, <1>2, <1>3, <1>4 DEF Init, TypeOK

\* Folding one superstep's updates into the reviews keeps their type.
LEMMA FoldedType ==
  ASSUME NEW reviews \in [Roles -> Seq(Reviews)],
         NEW update \in [Roles -> Updates],
         NEW pass \in Nat
  PROVE  Folded(reviews, update, pass) \in [Roles -> Seq(Reviews)]
  <1> SUFFICES ASSUME NEW r \in Roles
               PROVE  Folded(reviews, update, pass)[r] \in Seq(Reviews)
      BY DEF Folded
  <1>1. [pass |-> pass, ambiguous |-> update[r] = "ambiguous"] \in Reviews
      BY DEF Reviews
  <1>2. reviews[r] \in Seq(Reviews)
      OBVIOUS
  <1> QED BY <1>1, <1>2 DEF Folded

\* Every step preserves the types.
LEMMA StepTypeOK == TypeOK /\ [Next]_vars => TypeOK'
  <1> SUFFICES ASSUME TypeOK, [Next]_vars PROVE TypeOK'
      OBVIOUS
  <1> USE DEF TypeOK, request, reviewState, decision, output
  <1>1. CASE ValidateRequest
      BY <1>1 DEF ValidateRequest, Nodes
  <1>2. CASE NotifyRejection
      BY <1>2 DEF NotifyRejection, Nodes
  <1>3. CASE RetrievePastContext
      BY <1>3 DEF RetrievePastContext, Nodes, NoWrites, Updates
  <1>4. ASSUME NEW r \in Roles, ReviewerReturns(r) PROVE TypeOK'
    <2>1. writes' \in [Roles -> Updates]
        BY <1>4 DEF ReviewerReturns, Updates
    <2> QED BY <1>4, <2>1 DEF ReviewerReturns
  <1>5. ASSUME NEW r \in Roles, ReviewerRaises(r) PROVE TypeOK'
      BY <1>5 DEF ReviewerRaises, Nodes, NoWrites, Updates
  <1>6. CASE ReviewersJoin
    <2>1. agent_reviews' \in [Roles -> Seq(Reviews)]
        BY <1>6, FoldedType DEF ReviewersJoin
    <2> QED BY <1>6, <2>1 DEF ReviewersJoin, Nodes, NoWrites, Updates
  <1>7. CASE ReviewDecision
      BY <1>7 DEF ReviewDecision, RouteAfterDecision, ContextWithoutAnswer, Nodes
  <1>8. ASSUME NEW answer \in Answers, ResumeWith(answer) PROVE TypeOK'
      BY <1>8 DEF ResumeWith, RouteAfterDecision, ContextOf, Nodes, NoWrites, Updates
  <1>9. CASE SnapshotRemoved
      BY <1>9 DEF SnapshotRemoved
  <1>10. CASE AggregateResults
      BY <1>10 DEF AggregateResults, Nodes
  <1>11. CASE FormatReport
      BY <1>11 DEF FormatReport, Nodes
  <1>12. CASE PublishReport
      BY <1>12 DEF PublishReport, Nodes
  <1>13. CASE UNCHANGED vars
      BY <1>13 DEF vars
  <1>14. CASE RenderingRaises
      BY <1>14 DEF RenderingRaises, Nodes
  <1> QED BY <1>1, <1>2, <1>3, <1>4, <1>5, <1>6, <1>7, <1>8, <1>9, <1>10,
             <1>11, <1>12, <1>13, <1>14 DEF Next

\* Every variable of the graph keeps its type, whatever the reviewers return
\* and the human answers.
THEOREM TypeCorrect == Spec => []TypeOK
  BY InitTypeOK, StepTypeOK, PTL DEF Spec

-----------------------------------------------------------------------------
(* The loop.  LoopIsBounded and RerunsAreAskedFor are not inductive:          *)
(* what bounds the passes is how many approvals precede each node, which is    *)
(* what LoopInv adds, node by node.                                           *)

BeforeReview == {"validate_request", "notify_rejection", "retrieve_past_context"}

AfterDecision == {"aggregate_results", "format_report", "publish_report"}

LoopInv ==
  /\ cycle_count < MAX_CYCLES
  /\ passes <= MAX_CYCLES
  /\ asked \subseteq 1 .. (MAX_CYCLES - 1)
  /\ at \in BeforeReview => passes = 0 /\ cycle_count = 0 /\ extra_context = FALSE
  /\ at = "reviewers" => passes = cycle_count /\ (passes # 0 => passes \in asked)
  /\ extra_context = TRUE => passes \in asked \/ passes - 1 \in asked
  /\ at = "review_decision" => passes = cycle_count + 1
  /\ at = "interrupt" => passes = cycle_count + 1 /\ passes < MAX_CYCLES
                            /\ passes \in asked
  /\ at \in AfterDecision => extra_context = FALSE

\* The initial states satisfy LoopInv.
LEMMA InitLoopInv == Init => LoopInv
  BY MaxCyclesAssumption DEF Init, LoopInv, BeforeReview, AfterDecision

\* A decision to ask leaves the next pass within the cap; a decision to go on
\* clears the context.
LEMMA DecisionLoopInv == TypeOK /\ LoopInv /\ ReviewDecision => LoopInv'
  <1> SUFFICES ASSUME TypeOK, LoopInv, ReviewDecision PROVE LoopInv'
      OBVIOUS
  <1> USE MaxCyclesAssumption
      DEF ReviewDecision, RouteAfterDecision, ContextWithoutAnswer, request, reviewState, output
  <1>1. passes = cycle_count + 1 /\ cycle_count \in Nat /\ passes \in Nat
      BY DEF LoopInv, TypeOK
  <1>2. CASE MayAsk
    <2>1. passes < MAX_CYCLES
        BY <1>1, <1>2 DEF MayAsk
    <2>2. at' = "interrupt" /\ passes \in asked' /\ asked' = asked \cup {passes}
        BY <1>2
    <2>3. asked' \subseteq 1 .. (MAX_CYCLES - 1)
        BY <1>1, <2>1, <2>2 DEF LoopInv
    <2> QED BY <1>1, <2>1, <2>2, <2>3 DEF LoopInv, BeforeReview, AfterDecision
  <1>3. CASE ~MayAsk
      BY <1>1, <1>3 DEF LoopInv, BeforeReview, AfterDecision
  <1> QED BY <1>2, <1>3

\* An answer either starts pass cycle_count + 1 with its context or leaves the
\* loop with none.
LEMMA ResumeLoopInv ==
  ASSUME TypeOK, LoopInv, NEW answer \in Answers, ResumeWith(answer)
  PROVE  LoopInv'
  <1> USE MaxCyclesAssumption DEF ResumeWith, request, reviewState, output
  <1>1. passes = cycle_count + 1 /\ passes < MAX_CYCLES
          /\ cycle_count \in Nat /\ passes \in Nat
      BY DEF LoopInv, TypeOK
  <1>2. asked' = asked /\ passes' = passes
      OBVIOUS
  <1>3. CASE answer = "rerun_context"
    <2>1. cycle_count' = cycle_count + 1 /\ extra_context' = TRUE /\ at' = "reviewers"
        BY <1>3 DEF Approves, ContextOf, RouteAfterDecision
    <2> QED BY <1>1, <1>2, <2>1 DEF LoopInv, BeforeReview, AfterDecision
  <1>4. CASE answer # "rerun_context"
    <2>1. cycle_count' \in {cycle_count, cycle_count + 1}
        OBVIOUS
    <2>2. extra_context' = FALSE /\ at' = "aggregate_results"
        BY <1>4 DEF ContextOf, RouteAfterDecision
    <2> QED BY <1>1, <1>2, <2>1, <2>2 DEF LoopInv, BeforeReview, AfterDecision
  <1> QED BY <1>3, <1>4

\* Every step preserves LoopInv.
LEMMA StepLoopInv == TypeOK /\ LoopInv /\ [Next]_vars => LoopInv'
  <1> SUFFICES ASSUME TypeOK, LoopInv, [Next]_vars PROVE LoopInv'
      OBVIOUS
  <1> USE DEF LoopInv, BeforeReview, AfterDecision, request, reviewState, decision, output
  <1>1. CASE ValidateRequest
      BY <1>1 DEF ValidateRequest
  <1>2. CASE NotifyRejection
      BY <1>2 DEF NotifyRejection
  <1>3. CASE RetrievePastContext
      BY <1>3, MaxCyclesAssumption DEF RetrievePastContext
  <1>4. ASSUME NEW r \in Roles, ReviewerReturns(r) PROVE LoopInv'
      BY <1>4 DEF ReviewerReturns
  <1>5. ASSUME NEW r \in Roles, ReviewerRaises(r) PROVE LoopInv'
      BY <1>5 DEF ReviewerRaises
  <1>6. CASE ReviewersJoin
      BY <1>6, MaxCyclesAssumption DEF ReviewersJoin, TypeOK
  <1>7. CASE ReviewDecision
      BY <1>7, DecisionLoopInv
  <1>8. ASSUME NEW answer \in Answers, ResumeWith(answer) PROVE LoopInv'
      BY <1>8, ResumeLoopInv
  <1>9. CASE SnapshotRemoved
      BY <1>9 DEF SnapshotRemoved
  <1>10. CASE AggregateResults
      BY <1>10 DEF AggregateResults
  <1>11. CASE FormatReport
      BY <1>11 DEF FormatReport
  <1>12. CASE PublishReport
      BY <1>12 DEF PublishReport
  <1>13. CASE UNCHANGED vars
      BY <1>13 DEF vars
  <1>14. CASE RenderingRaises
      BY <1>14 DEF RenderingRaises
  <1> QED BY <1>1, <1>2, <1>3, <1>4, <1>5, <1>6, <1>7, <1>8, <1>9, <1>10,
             <1>11, <1>12, <1>13, <1>14 DEF Next

\* LoopInv is an invariant.
LEMMA LoopInvariant == Spec => []LoopInv
  BY InitTypeOK, StepTypeOK, InitLoopInv, StepLoopInv, PTL DEF Spec

\* For every MAX_CYCLES and whatever the human answers, the reviewers run at
\* most MAX_CYCLES times and at most MAX_CYCLES - 1 questions are asked.
THEOREM LoopBound == Spec => []LoopIsBounded
  <1>1. TypeOK /\ LoopInv => LoopIsBounded
      BY MaxCyclesAssumption DEF TypeOK, LoopInv, LoopIsBounded
  <1> QED BY <1>1, TypeCorrect, LoopInvariant, PTL

\* Whatever the human answers, the reviewers run again only after a question,
\* and the context of an answer is gone before the report is made.
THEOREM RerunsAreAsked == Spec => []RerunsAreAskedFor
  <1>1. TypeOK /\ LoopInv => RerunsAreAskedFor
      BY DEF TypeOK, LoopInv, RerunsAreAskedFor, AfterDecision
  <1> QED BY <1>1, TypeCorrect, LoopInvariant, PTL

-----------------------------------------------------------------------------
(* Nothing ambiguous is published unasked.  AskInv carries the answer from the *)
(* decision to the report: the reviews no longer change after the decision, and *)
(* the report holds one of the reviews of each role.                           *)

Excused ==
  Ambiguous(agent_reviews) => passes \in asked \/ passes = MAX_CYCLES \/ ~Checkpointer

AskInv ==
  /\ at \in AfterDecision \/ published = TRUE => Excused
  /\ published = TRUE => at = "END"
  /\ report # <<>> => at \in {"format_report", "publish_report", "END", "failed"}
  /\ \A r \in DOMAIN report : report[r].ambiguous => Ambiguous(agent_reviews)

\* The initial states satisfy AskInv.
LEMMA InitAskInv == Init => AskInv
  BY DEF Init, AskInv, AfterDecision

\* Aggregation picks one review of each role.
LEMMA AggregateAskInv == TypeOK /\ AskInv /\ AggregateResults => AskInv'
  <1> SUFFICES ASSUME TypeOK, AskInv, AggregateResults PROVE AskInv'
      OBVIOUS
  <1> USE DEF AggregateResults, request, reviewState, decision
  <1>1. Excused' /\ published' = published /\ published = FALSE
      BY DEF AskInv, Excused, AfterDecision, TypeOK, Ambiguous
  <1>2. ASSUME NEW r \in DOMAIN report', report'[r].ambiguous
        PROVE  Ambiguous(agent_reviews)
    <2>1. r \in Roles /\ agent_reviews[r] # <<>> /\ agent_reviews[r] \in Seq(Reviews)
        BY <1>2 DEF TypeOK
    <2>2. Len(agent_reviews[r]) \in DOMAIN agent_reviews[r]
        BY <2>1
    <2>3. report'[r] = agent_reviews[r][Len(agent_reviews[r])]
        BY <2>1 DEF Last
    <2> QED BY <1>2, <2>1, <2>2, <2>3 DEF Ambiguous
  <1>3. Ambiguous(agent_reviews)' <=> Ambiguous(agent_reviews)
      BY DEF Ambiguous
  <1> QED BY <1>1, <1>2, <1>3 DEF AskInv, AfterDecision

\* The decision goes on only with the reviews unambiguous, the last pass done
\* or no checkpointer.
LEMMA DecisionAskInv == TypeOK /\ LoopInv /\ AskInv /\ ReviewDecision => AskInv'
  <1> SUFFICES ASSUME TypeOK, LoopInv, AskInv, ReviewDecision PROVE AskInv'
      OBVIOUS
  <1> USE DEF ReviewDecision, RouteAfterDecision, ContextWithoutAnswer, request, reviewState, output
  <1>1. report = <<>> /\ published = FALSE /\ report' = report /\ published' = published
      BY DEF AskInv, TypeOK
  <1>2. CASE MayAsk
      BY <1>1, <1>2 DEF AskInv, AfterDecision
  <1>3. CASE ~MayAsk
    <2>1. Excused
        BY <1>3, MaxCyclesAssumption DEF MayAsk, Excused, LoopInv, TypeOK
    <2>2. Excused'
        BY <2>1, <1>3 DEF Excused, Ambiguous
    <2> QED BY <1>1, <2>2 DEF AskInv
  <1> QED BY <1>2, <1>3

\* Every step preserves AskInv.
LEMMA StepAskInv == TypeOK /\ LoopInv /\ AskInv /\ [Next]_vars => AskInv'
  <1> SUFFICES ASSUME TypeOK, LoopInv, AskInv, [Next]_vars PROVE AskInv'
      OBVIOUS
  <1> USE DEF request, reviewState, decision, output
  <1>1. CASE UNCHANGED <<agent_reviews, passes, reviewed>> /\ UNCHANGED <<report, published>>
             /\ UNCHANGED asked /\ at \in BeforeReview \cup {"reviewers", "interrupt"}
             /\ (at' \in AfterDecision => at = "interrupt")
    <2>1. published = FALSE /\ report = <<>>
        BY <1>1 DEF AskInv, TypeOK, BeforeReview
    <2>2. at' \in AfterDecision => Excused'
        BY <1>1 DEF LoopInv, Excused
    <2> QED BY <1>1, <2>1, <2>2 DEF AskInv
  <1>2. CASE ValidateRequest
      BY <1>1, <1>2 DEF ValidateRequest, BeforeReview, AfterDecision
  <1>3. CASE NotifyRejection
      BY <1>1, <1>3 DEF NotifyRejection, BeforeReview, AfterDecision
  <1>4. CASE RetrievePastContext
      BY <1>1, <1>4 DEF RetrievePastContext, BeforeReview, AfterDecision
  <1>5. ASSUME NEW r \in Roles, ReviewerReturns(r) PROVE AskInv'
      BY <1>1, <1>5 DEF ReviewerReturns, AfterDecision
  <1>6. ASSUME NEW r \in Roles, ReviewerRaises(r) PROVE AskInv'
      BY <1>1, <1>6 DEF ReviewerRaises, AfterDecision
  <1>7. CASE ReviewersJoin
      BY <1>7 DEF ReviewersJoin, AskInv, AfterDecision, TypeOK
  <1>8. CASE ReviewDecision
      BY <1>8, DecisionAskInv
  <1>9. ASSUME NEW answer \in Answers, ResumeWith(answer) PROVE AskInv'
      BY <1>1, <1>9 DEF ResumeWith
  <1>10. CASE SnapshotRemoved
      BY <1>10 DEF SnapshotRemoved, AskInv, Excused, Ambiguous
  <1>11. CASE AggregateResults
      BY <1>11, AggregateAskInv
  <1>12. CASE FormatReport
      BY <1>12 DEF FormatReport, AskInv, Excused, Ambiguous, AfterDecision
  <1>13. CASE PublishReport
      BY <1>13 DEF PublishReport, AskInv, Excused, Ambiguous, AfterDecision
  <1>14. CASE UNCHANGED vars
      BY <1>14 DEF vars, AskInv, Excused, Ambiguous
  <1>15. CASE RenderingRaises
      BY <1>15 DEF RenderingRaises, AskInv, Excused, Ambiguous, AfterDecision
  <1> QED BY <1>2, <1>3, <1>4, <1>5, <1>6, <1>7, <1>8, <1>9, <1>10, <1>11,
             <1>12, <1>13, <1>14, <1>15 DEF Next

\* A report with an unresolved concern is published only after the human was
\* asked about it, or when no question could be asked.
THEOREM ConcernsAreAsked == Spec => []AmbiguityWasAsked
  <1>1. Spec => []AskInv
      BY InitTypeOK, StepTypeOK, InitLoopInv, StepLoopInv, InitAskInv, StepAskInv,
         PTL DEF Spec
  <1>2. TypeOK /\ AskInv => AmbiguityWasAsked
      BY DEF TypeOK, AskInv, Excused, AmbiguityWasAsked
  <1> QED BY <1>1, <1>2, TypeCorrect, PTL

-----------------------------------------------------------------------------
(* Refinement.  Under gbar a step of one reviewer is a stutter and the join is *)
(* the atomic superstep Review of GraphContract.                               *)

\* The reducer adds an ambiguous review exactly if an update is ambiguous.
LEMMA FoldedAmbiguous ==
  ASSUME NEW reviews \in [Roles -> Seq(Reviews)],
         NEW update \in [Roles -> Updates],
         NEW pass \in Nat
  PROVE  Ambiguous(Folded(reviews, update, pass))
           <=> Ambiguous(reviews) \/ \E r \in Roles : update[r] = "ambiguous"
  <1> DEFINE F == Folded(reviews, update, pass)
             new(r) == [pass |-> pass, ambiguous |-> update[r] = "ambiguous"]
  <1>1. ASSUME NEW r \in Roles, update[r] \in {"pending", "empty"}
        PROVE  F[r] = reviews[r] /\ update[r] # "ambiguous"
      BY <1>1 DEF Folded
  <1>2. ASSUME NEW r \in Roles, update[r] \notin {"pending", "empty"}
        PROVE  /\ DOMAIN F[r] = 1 .. (Len(reviews[r]) + 1)
               /\ DOMAIN reviews[r] = 1 .. Len(reviews[r])
               /\ Len(reviews[r]) \in Nat
               /\ \A i \in 1 .. Len(reviews[r]) : F[r][i] = reviews[r][i]
               /\ F[r][Len(reviews[r]) + 1] = new(r)
    <2>1. F[r] = Append(reviews[r], new(r))
        BY <1>2 DEF Folded
    <2>2. reviews[r] \in Seq(Reviews) /\ new(r) \in Reviews
        BY DEF Reviews
    <2> HIDE DEF F, new
    <2> QED BY <2>1, <2>2
  <1>3. ASSUME NEW r \in Roles
        PROVE  (\E i \in DOMAIN F[r] : F[r][i].ambiguous)
                 <=> (\E i \in DOMAIN reviews[r] : reviews[r][i].ambiguous)
                       \/ update[r] = "ambiguous"
    <2>1. CASE update[r] \in {"pending", "empty"}
        BY <2>1, <1>1
    <2>2. CASE update[r] \notin {"pending", "empty"}
      <3>1. new(r).ambiguous <=> update[r] = "ambiguous"
          OBVIOUS
      <3> HIDE DEF F, new
      <3>2. \A i \in DOMAIN F[r] : i \in DOMAIN reviews[r] \/ i = Len(reviews[r]) + 1
          BY <2>2, <1>2
      <3>3. Len(reviews[r]) + 1 \in DOMAIN F[r] /\ DOMAIN reviews[r] \subseteq DOMAIN F[r]
          BY <2>2, <1>2
      <3> QED BY <2>2, <1>2, <3>1, <3>2, <3>3
    <2> QED BY <2>1, <2>2
  <1> HIDE DEF F
  <1>4. Ambiguous(F) <=> Ambiguous(reviews) \/ \E r \in Roles : update[r] = "ambiguous"
      BY <1>3 DEF Ambiguous
  <1> QED BY <1>4 DEF F

\* A graph state, field by field.
State(node, cycles, context, amb, done, read) ==
  [at |-> node, cycle_count |-> cycles, extra_context |-> context,
   ambiguous |-> amb, passes |-> done, reviewed |-> read]

\* gbar before and after a step, with the ambiguity as a value.
LEMMA GbarFields ==
  \E a, b : /\ a <=> Ambiguous(agent_reviews)
            /\ b <=> Ambiguous(agent_reviews')
            /\ a \in BOOLEAN /\ b \in BOOLEAN
            /\ agent_reviews' = agent_reviews => a = b
            /\ gbar = State(at, cycle_count, extra_context, a, passes, reviewed)
            /\ gbar' = State(at', cycle_count', extra_context', b, passes', reviewed')
  <1> WITNESS Ambiguous(agent_reviews), Ambiguous(agent_reviews')
  <1>1. gbar = State(at, cycle_count, extra_context, Ambiguous(agent_reviews),
                     passes, reviewed)
      BY Zenon DEF gbar, State
  <1>2. gbar' = State(at', cycle_count', extra_context', Ambiguous(agent_reviews'),
                      passes', reviewed')
      BY Zenon DEF gbar, State, Ambiguous
  <1>3. Ambiguous(agent_reviews) \in BOOLEAN /\ Ambiguous(agent_reviews') \in BOOLEAN
      BY Zenon DEF Ambiguous
  <1>4. agent_reviews' = agent_reviews => Ambiguous(agent_reviews) = Ambiguous(agent_reviews')
      BY Zenon
  <1> QED BY <1>1, <1>2, <1>3, <1>4, Zenon

\* The supersteps of the contract that only go to another node.
LEMMA Moves ==
  ASSUME NEW c, NEW x, NEW a, NEW p, NEW r
  PROVE
  /\ \A n \in {"notify_rejection", "retrieve_past_context", "failed"} :
       State(n, c, x, a, p, r)
         \in Contract!Successors(State("validate_request", c, x, a, p, r), TRUE)
  /\ State("END", c, x, a, p, r)
       \in Contract!Successors(State("notify_rejection", c, x, a, p, r), TRUE)
  /\ State("reviewers", c, x, a, p, r)
       \in Contract!Successors(State("retrieve_past_context", c, x, a, p, r), TRUE)
  /\ State("failed", c, x, a, p, r)
       \in Contract!Successors(State("reviewers", c, x, a, p, r), TRUE)
  /\ \A n \in {"format_report", "failed"} :
       State(n, c, x, a, p, r)
         \in Contract!Successors(State("aggregate_results", c, x, a, p, r), TRUE)
  /\ \A n \in {"publish_report", "failed"} :
       State(n, c, x, a, p, r)
         \in Contract!Successors(State("format_report", c, x, a, p, r), TRUE)
  /\ State("END", c, x, a, p, r)
       \in Contract!Successors(State("publish_report", c, x, a, p, r), TRUE)
  <1> USE DEF State, Contract!Successors, Contract!Goto
  <1>1. \A n \in {"notify_rejection", "retrieve_past_context", "failed"} :
          State(n, c, x, a, p, r)
            \in Contract!Successors(State("validate_request", c, x, a, p, r), TRUE)
      BY DEF Contract!Validate
  <1>2. State("END", c, x, a, p, r)
          \in Contract!Successors(State("notify_rejection", c, x, a, p, r), TRUE)
      BY DEF Contract!Reject
  <1>3. State("reviewers", c, x, a, p, r)
          \in Contract!Successors(State("retrieve_past_context", c, x, a, p, r), TRUE)
      BY DEF Contract!Retrieve
  <1>4. State("failed", c, x, a, p, r)
          \in Contract!Successors(State("reviewers", c, x, a, p, r), TRUE)
    <2> DEFINE g == State("reviewers", c, x, a, p, r)
    <2>1. Contract!Successors(g, TRUE) = Contract!Review(g, TRUE)
        OBVIOUS
    <2>2. Contract!Goto(g, "failed") = State("failed", c, x, a, p, r)
        OBVIOUS
    <2> HIDE DEF State, Contract!Successors, Contract!Goto, g
    <2>3. Contract!Goto(g, "failed") \in Contract!Review(g, TRUE)
        BY Zenon DEF Contract!Review
    <2> QED BY <2>1, <2>2, <2>3 DEF g
  <1>5. \A n \in {"format_report", "failed"} :
          State(n, c, x, a, p, r)
            \in Contract!Successors(State("aggregate_results", c, x, a, p, r), TRUE)
      BY DEF Contract!Aggregate
  <1>6. \A n \in {"publish_report", "failed"} :
          State(n, c, x, a, p, r)
            \in Contract!Successors(State("format_report", c, x, a, p, r), TRUE)
      BY DEF Contract!Format
  <1>7. State("END", c, x, a, p, r)
          \in Contract!Successors(State("publish_report", c, x, a, p, r), TRUE)
      BY DEF Contract!Publish
  <1> HIDE DEF State, Contract!Successors
  <1> QED BY <1>1, <1>2, <1>3, <1>4, <1>5, <1>6, <1>7

\* The reviewer superstep: a pass is counted, as read if there was code, and
\* the ambiguity can only grow.
LEMMA ReviewPass ==
  ASSUME NEW c, NEW x, NEW a \in BOOLEAN, NEW b \in BOOLEAN, NEW p, NEW r,
         NEW readable \in BOOLEAN,
         a => b, ~readable => a = b
  PROVE  State("review_decision", c, x, b, p + 1, IF readable THEN r + 1 ELSE r)
           \in Contract!Successors(State("reviewers", c, x, a, p, r), readable)
  <1>1. b \in (IF readable THEN BOOLEAN ELSE {FALSE}) \/ a
      OBVIOUS
  <1>2. PICK d \in (IF readable THEN BOOLEAN ELSE {FALSE}) : (a \/ d) = b
      OBVIOUS
  <1> DEFINE g == State("reviewers", c, x, a, p, r)
             after(amb) == [g EXCEPT !.at = "review_decision",
                                     !.ambiguous = @ \/ amb,
                                     !.passes = @ + 1,
                                     !.reviewed = IF readable THEN @ + 1 ELSE @]
  <1>3. Contract!Successors(g, readable) = Contract!Review(g, readable)
      BY DEF State, Contract!Successors
  <1>4. after(d) \in Contract!Review(g, readable)
    <2> HIDE DEF g
    <2> QED BY <1>2, Zenon DEF Contract!Review
  <1>5. after(d) = [g EXCEPT !.at = "review_decision", !.ambiguous = b,
                             !.passes = @ + 1,
                             !.reviewed = IF readable THEN @ + 1 ELSE @]
    <2>1. (g.ambiguous \/ d) = b
        BY <1>2 DEF State
    <2> HIDE DEF g
    <2> QED BY <2>1, Zenon
  <1>6. after(d) = State("review_decision", c, x, b, p + 1,
                         IF readable THEN r + 1 ELSE r)
    <2> HIDE DEF after
    <2> QED BY <1>5 DEF State
  <1> QED BY <1>3, <1>4, <1>6

\* The decision: ask, or go on without context.
LEMMA DecideStep ==
  ASSUME NEW c, NEW x, NEW a \in BOOLEAN, NEW p, NEW r,
         NEW asks \in BOOLEAN, asks <=> c + 1 < MAX_CYCLES /\ a /\ Checkpointer
  PROVE  /\ asks => State("interrupt", c, x, a, p, r)
                      \in Contract!Successors(State("review_decision", c, x, a, p, r), TRUE)
         /\ ~asks => State("aggregate_results", c, FALSE, a, p, r)
                       \in Contract!Successors(State("review_decision", c, x, a, p, r), TRUE)
  <1> DEFINE g == State("review_decision", c, x, a, p, r)
  <1>1. Contract!Successors(g, TRUE) = Contract!Decide(g)
      BY DEF State, Contract!Successors
  <1>2. Contract!Asks(g) <=> asks
    <2>1. g.ambiguous = a /\ g.cycle_count = c
        BY DEF State
    <2> HIDE DEF g
    <2> QED BY <2>1, Zenon DEF Contract!Asks
  <1>3. Contract!Goto(g, "interrupt") = State("interrupt", c, x, a, p, r)
      BY DEF State, Contract!Goto
  <1>6. [g EXCEPT !.at = "aggregate_results", !.extra_context = FALSE]
          = State("aggregate_results", c, FALSE, a, p, r)
    <2>1. [g EXCEPT !.at = "aggregate_results"] = State("aggregate_results", c, x, a, p, r)
        BY DEF State
    <2>2. ASSUME NEW f
          PROVE  [State("aggregate_results", c, x, a, p, r) EXCEPT !.extra_context = f]
                   = State("aggregate_results", c, f, a, p, r)
        BY DEF State
    <2> HIDE DEF g
    <2> QED BY <2>1, <2>2, Zenon
  <1> HIDE DEF g
  <1>4. asks => Contract!Goto(g, "interrupt") \in Contract!Decide(g)
      BY <1>2, Zenon DEF Contract!Decide
  <1>5. ~asks => [g EXCEPT !.at = "aggregate_results", !.extra_context = FALSE]
                   \in Contract!Decide(g)
      BY <1>2, Zenon DEF Contract!Decide
  <1> QED BY <1>1, <1>3, <1>4, <1>5, <1>6 DEF g

\* An answered question.
LEMMA AnswerStep ==
  ASSUME NEW c, NEW x, NEW a, NEW p, NEW r, NEW answer
  PROVE  Contract!Resume(State("interrupt", c, x, a, p, r), answer)
           = State(RouteAfterDecision(ContextOf(answer)),
                   IF Approves(answer) THEN c + 1 ELSE c,
                   answer = "rerun_context", a, p, r)
  <1>1. ASSUME NEW n, NEW f, NEW k
        PROVE  [State("interrupt", c, x, a, p, r) EXCEPT
                  !.at = n, !.extra_context = f, !.cycle_count = k]
                 = State(n, k, f, a, p, r)
    <2>1. [State("interrupt", c, x, a, p, r) EXCEPT !.at = n] = State(n, c, x, a, p, r)
        BY DEF State
    <2>2. [State(n, c, x, a, p, r) EXCEPT !.extra_context = f] = State(n, c, f, a, p, r)
        BY DEF State
    <2>3. [State(n, c, f, a, p, r) EXCEPT !.cycle_count = k] = State(n, k, f, a, p, r)
        BY DEF State
    <2> HIDE DEF State
    <2> QED BY <2>1, <2>2, <2>3, Zenon
  <1>2. State("interrupt", c, x, a, p, r).cycle_count = c
      BY DEF State
  <1>3. Contract!Approves(answer) <=> Approves(answer)
      BY DEF Contract!Approves, Approves
  <1> DEFINE g == State("interrupt", c, x, a, p, r)
  <1>4. /\ (IF Contract!Approves(answer) THEN g.cycle_count + 1 ELSE g.cycle_count)
             = (IF Approves(answer) THEN c + 1 ELSE c)
        /\ (IF answer = "rerun_context" THEN "reviewers" ELSE "aggregate_results")
             = RouteAfterDecision(ContextOf(answer))
      BY <1>2, <1>3 DEF RouteAfterDecision, ContextOf
  <1> HIDE DEF State, g
  <1>5. Contract!Resume(g, answer)
          = [g EXCEPT !.at = RouteAfterDecision(ContextOf(answer)),
                      !.extra_context = (answer = "rerun_context"),
                      !.cycle_count = IF Approves(answer) THEN c + 1 ELSE c]
      BY <1>4, Zenon DEF Contract!Resume
  <1> DEFINE n == RouteAfterDecision(ContextOf(answer))
             f == (answer = "rerun_context")
             k == IF Approves(answer) THEN c + 1 ELSE c
  <1>6. Contract!Resume(g, answer)
          = [g EXCEPT !.at = n, !.extra_context = f, !.cycle_count = k]
      BY <1>5, Zenon
  <1>7. Contract!Resume(State("interrupt", c, x, a, p, r), answer) = State(n, k, f, a, p, r)
    <2> HIDE DEF n, f, k
    <2> QED BY <1>1, <1>6, Zenon DEF g
  <1> QED BY <1>7, Zenon

\* Contract states are initial for initial states.
LEMMA InitContract == Init => Contract!ContractInit
  <1> SUFFICES ASSUME Init PROVE Contract!ContractInit
      OBVIOUS
  <1>1. ~Ambiguous(agent_reviews)
      BY DEF Init, Ambiguous
  <1>2. PICK a : a = FALSE /\ gbar = State(at, cycle_count, extra_context, a, passes, reviewed)
      BY <1>1, GbarFields, Zenon
  <1> QED BY <1>2 DEF Init, Contract!ContractInit, Contract!GraphStart, State

\* Every step is a step of the contract or leaves its state alone.
LEMMA StepContract ==
  TypeOK /\ LoopInv /\ [Next]_vars => [Contract!ContractNext]_gbar
  <1> SUFFICES ASSUME TypeOK, LoopInv, [Next]_vars
               PROVE  Contract!ContractNext \/ gbar' = gbar
      OBVIOUS
  <1> USE DEF request, reviewState, decision, output
  <1>a. PICK a, b :
          /\ a <=> Ambiguous(agent_reviews)
          /\ b <=> Ambiguous(agent_reviews')
          /\ a \in BOOLEAN /\ b \in BOOLEAN
          /\ agent_reviews' = agent_reviews => a = b
          /\ gbar = State(at, cycle_count, extra_context, a, passes, reviewed)
          /\ gbar' = State(at', cycle_count', extra_context', b, passes', reviewed')
      BY GbarFields, Zenon
  <1>b. a \in BOOLEAN /\ b \in BOOLEAN
      BY <1>a
  <1>1. ASSUME NEW readable \in BOOLEAN, gbar' \in Contract!Successors(gbar, readable)
        PROVE  Contract!ContractNext
      BY <1>1 DEF Contract!ContractNext, Contract!Superstep
  <1>2. CASE ValidateRequest
    <2>1. /\ gbar = State("validate_request", cycle_count, extra_context, a, passes, reviewed)
          /\ gbar' = State(at', cycle_count, extra_context, a, passes, reviewed)
          /\ at' \in {"notify_rejection", "retrieve_past_context", "failed"}
        BY <1>2, <1>a DEF ValidateRequest
    <2> QED BY <2>1, <1>1, Moves
  <1>3. CASE NotifyRejection
    <2>1. /\ gbar = State("notify_rejection", cycle_count, extra_context, a, passes, reviewed)
          /\ gbar' = State("END", cycle_count, extra_context, a, passes, reviewed)
        BY <1>3, <1>a DEF NotifyRejection
    <2> QED BY <2>1, <1>1, Moves
  <1>4. CASE RetrievePastContext
    <2>1. /\ gbar = State("retrieve_past_context", cycle_count, extra_context, a, passes, reviewed)
          /\ gbar' = State("reviewers", cycle_count, extra_context, a, passes, reviewed)
        BY <1>4, <1>a DEF RetrievePastContext
    <2> QED BY <2>1, <1>1, Moves
  <1>5. ASSUME NEW r \in Roles, ReviewerReturns(r) PROVE gbar' = gbar
      BY <1>5, <1>a DEF ReviewerReturns
  <1>6. ASSUME NEW r \in Roles, ReviewerRaises(r) PROVE Contract!ContractNext
    <2>1. /\ gbar = State("reviewers", cycle_count, extra_context, a, passes, reviewed)
          /\ gbar' = State("failed", cycle_count, extra_context, a, passes, reviewed)
        BY <1>6, <1>a DEF ReviewerRaises
    <2> QED BY <2>1, <1>1, Moves
  <1>7. CASE ReviewersJoin
    <2> DEFINE readable == agent_reviews' # agent_reviews
    <2>1. readable \in BOOLEAN /\ passes \in Nat
        BY DEF TypeOK
    <2>2. Ambiguous(agent_reviews') <=>
            Ambiguous(agent_reviews) \/ \E r \in Roles : writes[r] = "ambiguous"
      <3>1. agent_reviews' = Folded(agent_reviews, writes, passes + 1)
          BY <1>7 DEF ReviewersJoin
      <3>2. agent_reviews \in [Roles -> Seq(Reviews)] /\ writes \in [Roles -> Updates]
            /\ passes + 1 \in Nat
          BY DEF TypeOK
      <3>3. Ambiguous(Folded(agent_reviews, writes, passes + 1)) <=>
              Ambiguous(agent_reviews) \/ \E r \in Roles : writes[r] = "ambiguous"
          BY <3>2, FoldedAmbiguous, Zenon
      <3> QED BY <3>1, <3>3, Zenon
    <2>3. (a => b) /\ (~readable => a = b)
        BY <2>2, <1>a, Zenon
    <2>4. /\ gbar = State("reviewers", cycle_count, extra_context, a, passes, reviewed)
          /\ gbar' = State("review_decision", cycle_count, extra_context, b, passes + 1,
                           IF readable THEN reviewed + 1 ELSE reviewed)
        BY <1>7, <1>a DEF ReviewersJoin
    <2> HIDE DEF readable
    <2>5. gbar' \in Contract!Successors(gbar, readable)
        BY <2>1, <2>3, <2>4, <1>b, ReviewPass
    <2> QED BY <2>1, <2>5, <1>1
  <1>8. CASE ReviewDecision
    <2>1. gbar = State("review_decision", cycle_count, extra_context, a, passes, reviewed)
        BY <1>8, <1>a DEF ReviewDecision
    <2>2. PICK asks \in BOOLEAN : asks <=> MayAsk
        BY Zenon DEF MayAsk
    <2>3. asks <=> cycle_count + 1 < MAX_CYCLES /\ a /\ Checkpointer
        BY <2>2, <1>a, Zenon DEF MayAsk
    <2>4. asks => gbar' = State("interrupt", cycle_count, extra_context, a, passes, reviewed)
        BY <1>8, <1>a, <2>2 DEF ReviewDecision, RouteAfterDecision, ContextWithoutAnswer
    <2>5. ~asks => gbar' = State("aggregate_results", cycle_count, FALSE, a, passes, reviewed)
        BY <1>8, <1>a, <2>2 DEF ReviewDecision, RouteAfterDecision, ContextWithoutAnswer
    <2>6. gbar' \in Contract!Successors(gbar, TRUE)
        BY <2>1, <2>3, <2>4, <2>5, <1>b, DecideStep, Zenon
    <2> QED BY <2>6, <1>1
  <1>9. ASSUME NEW answer \in Answers, ResumeWith(answer) PROVE Contract!ContractNext
    <2>1. gbar = State("interrupt", cycle_count, extra_context, a, passes, reviewed)
        BY <1>9, <1>a DEF ResumeWith
    <2>2. gbar' = State(RouteAfterDecision(ContextOf(answer)),
                        IF Approves(answer) THEN cycle_count + 1 ELSE cycle_count,
                        answer = "rerun_context", a, passes, reviewed)
      <3>1. /\ cycle_count' = IF Approves(answer) THEN cycle_count + 1 ELSE cycle_count
            /\ extra_context' = (answer = "rerun_context")
            /\ at' = RouteAfterDecision(ContextOf(answer))
            /\ passes' = passes /\ reviewed' = reviewed /\ b = a
          BY <1>9, <1>a, Zenon DEF ResumeWith, ContextOf
      <3> QED BY <3>1, <1>a, Zenon
    <2>3. Contract!Resume(State("interrupt", cycle_count, extra_context, a, passes,
                                reviewed), answer) = gbar'
        BY <2>2, AnswerStep
    <2>4. gbar.at = "interrupt"
        BY <2>1 DEF State
    <2>5. answer \in Contract!Answers
        BY DEF Answers, Contract!Answers
    <2> QED BY <2>1, <2>3, <2>4, <2>5, Zenon
            DEF Contract!ContractNext, Contract!Answer, Contract!Paused
  <1>10. CASE SnapshotRemoved
      BY <1>10, <1>a DEF SnapshotRemoved
  <1>11. CASE AggregateResults
    <2>1. /\ gbar = State("aggregate_results", cycle_count, extra_context, a, passes, reviewed)
          /\ gbar' = State("format_report", cycle_count, extra_context, a, passes, reviewed)
        BY <1>11, <1>a DEF AggregateResults
    <2> QED BY <2>1, <1>1, Moves
  <1>12. CASE FormatReport
    <2>1. /\ gbar = State("format_report", cycle_count, extra_context, a, passes, reviewed)
          /\ gbar' = State("publish_report", cycle_count, extra_context, a, passes, reviewed)
        BY <1>12, <1>a DEF FormatReport
    <2> QED BY <2>1, <1>1, Moves
  <1>13. CASE PublishReport
    <2>1. /\ gbar = State("publish_report", cycle_count, extra_context, a, passes, reviewed)
          /\ gbar' = State("END", cycle_count, extra_context, a, passes, reviewed)
        BY <1>13, <1>a DEF PublishReport
    <2> QED BY <2>1, <1>1, Moves
  <1>14. CASE UNCHANGED vars
      BY <1>14, <1>a DEF vars
  <1>15. CASE RenderingRaises
    <2>1. /\ gbar = State(at, cycle_count, extra_context, a, passes, reviewed)
          /\ at \in {"aggregate_results", "format_report"}
          /\ gbar' = State("failed", cycle_count, extra_context, a, passes, reviewed)
        BY <1>15, <1>a DEF RenderingRaises
    <2> QED BY <2>1, <1>1, Moves
  <1> QED BY <1>2, <1>3, <1>4, <1>5, <1>6, <1>7, <1>8, <1>9, <1>10, <1>11,
             <1>12, <1>13, <1>14, <1>15 DEF Next

\* For every set of reviewers, running them one by one implements the contract
\* in which their pass is a single step (ImplementsContract).
THEOREM GraphImplementsContract == Spec => ImplementsContract
  BY InitTypeOK, StepTypeOK, InitLoopInv, StepLoopInv, InitContract, StepContract,
     PTL DEF Spec, ImplementsContract, Contract!ContractSpec

-----------------------------------------------------------------------------
(* The report covers the scope.  ReportCoversScope is not inductive: that every  *)
(* role in scope has a review when the report is made goes back to the first      *)
(* pass, in which no reviewer in scope can come back empty-handed because the      *)
(* snapshot outlives it, and that the last review of a role is its newest to the    *)
(* order in which the passes were appended.                                        *)

\* Whose reviews there are.
ScopeInv ==
  /\ asked # {} => passes # 0
  /\ asked = {} /\ mode = "repo" => snapshot = TRUE
  /\ passes # 0 => \A r \in InScope : agent_reviews[r] # <<>>
  /\ \A r \in Roles \ InScope : agent_reviews[r] = <<>>
  /\ at = "reviewers" =>
       /\ \A r \in Roles \ InScope : writes[r] \in {"pending", "empty"}
       /\ passes = 0 => \A r \in InScope : writes[r] # "empty"
  /\ at \in AfterDecision => passes # 0

\* In which order they are.
OrderInv ==
  \A r \in Roles : \A i \in DOMAIN agent_reviews[r] :
    /\ agent_reviews[r][i].pass <= passes
    /\ agent_reviews[r][i].pass <= agent_reviews[r][Len(agent_reviews[r])].pass

\* The report is of the reviews there are, which do not change any more.
ReportInv ==
  report # <<>> =>
    /\ DOMAIN report = InScope
    /\ \A r \in InScope : report[r] = agent_reviews[r][Len(agent_reviews[r])]

LEMMA ScopeOfRoles == TypeOK => InScope \subseteq Roles
  BY DEF TypeOK, InScope

LEMMA InitCover == Init => ScopeInv /\ OrderInv /\ ReportInv
  <1> SUFFICES ASSUME Init PROVE ScopeInv /\ OrderInv /\ ReportInv
      OBVIOUS
  <1>1. InScope \subseteq Roles
      BY DEF Init, InScope
  <1>2. ScopeInv
    <2>1. mode = "repo" => snapshot = TRUE
        BY Zenon DEF Init
    <2> QED BY <1>1, <2>1 DEF Init, ScopeInv, AfterDecision
  <1>3. OrderInv
      BY DEF Init, OrderInv
  <1> QED BY <1>2, <1>3 DEF Init, ReportInv

\* The join of a superstep is where reviews are added.
LEMMA JoinScope == TypeOK /\ ScopeInv /\ ReviewersJoin => ScopeInv'
  <1> SUFFICES ASSUME TypeOK, ScopeInv, ReviewersJoin PROVE ScopeInv'
      OBVIOUS
  <1> USE DEF ReviewersJoin, request, decision, output
  <1>1. /\ passes \in Nat /\ passes' = passes + 1 /\ passes' # 0
        /\ at' = "review_decision" /\ at = "reviewers"
        /\ UNCHANGED <<mode, scope, snapshot, asked>>
      BY DEF TypeOK
  <1>2. InScope' = InScope /\ InScope \subseteq Roles
      BY <1>1, ScopeOfRoles DEF InScope
  <1>3. ASSUME NEW r \in InScope PROVE agent_reviews'[r] # <<>>
    <2>1. /\ agent_reviews[r] \in Seq(Reviews)
          /\ agent_reviews'[r] = IF writes[r] \in {"pending", "empty"} THEN agent_reviews[r]
                                 ELSE Append(agent_reviews[r], [pass |-> passes + 1,
                                                  ambiguous |-> writes[r] = "ambiguous"])
        BY <1>2 DEF TypeOK, Folded
    <2>2. writes[r] # "pending"
        BY <1>2 DEF AllReturned
    <2>3. CASE writes[r] = "empty"
        BY <1>1, <2>1, <2>3 DEF ScopeInv
    <2>4. CASE writes[r] # "empty"
      <3> DEFINE rev == [pass |-> passes + 1, ambiguous |-> writes[r] = "ambiguous"]
      <3>1. agent_reviews'[r] = Append(agent_reviews[r], rev)
          BY <2>1, <2>2, <2>4
      <3> HIDE DEF rev
      <3> QED BY <2>1, <3>1
    <2> QED BY <2>3, <2>4
  <1>4. ASSUME NEW r \in Roles \ InScope PROVE agent_reviews'[r] = <<>>
    <2>1. writes[r] \in {"pending", "empty"} /\ agent_reviews[r] = <<>>
        BY <1>1 DEF ScopeInv
    <2> QED BY <2>1 DEF Folded
  <1> QED BY <1>1, <1>2, <1>3, <1>4 DEF ScopeInv, AfterDecision

\* Every step.
LEMMA StepScope == TypeOK /\ LoopInv /\ ScopeInv /\ [Next]_vars => ScopeInv'
  <1> SUFFICES ASSUME TypeOK, LoopInv, ScopeInv, [Next]_vars PROVE ScopeInv'
      OBVIOUS
  <1> USE DEF request, reviewState, decision, output
  <1>0. InScope \subseteq Roles
      BY ScopeOfRoles
  <1>1. CASE ValidateRequest
      BY <1>1 DEF ValidateRequest, ScopeInv, InScope, AfterDecision
  <1>2. CASE NotifyRejection
      BY <1>2 DEF NotifyRejection, ScopeInv, InScope, AfterDecision
  <1>3. CASE RetrievePastContext
      BY <1>0, <1>3 DEF RetrievePastContext, ScopeInv, InScope, AfterDecision, NoWrites
  <1>4. ASSUME NEW r \in Roles, ReviewerReturns(r) PROVE ScopeInv'
    <2>1. PICK u \in IF r \notin InScope \/ (mode = "repo" /\ ~snapshot) THEN {"empty"}
                     ELSE {"clean", "ambiguous"} : writes' = [writes EXCEPT ![r] = u]
        BY <1>4 DEF ReviewerReturns
    <2>2. /\ at = "reviewers"
          /\ UNCHANGED <<mode, scope, snapshot, at, agent_reviews, passes, asked>>
        BY <1>4 DEF ReviewerReturns
    <2>3. r \notin InScope => u = "empty"
        BY <2>1
    <2>4. passes = 0 /\ r \in InScope => u # "empty"
        BY <2>1 DEF ScopeInv, TypeOK
    <2>5. \A s \in Roles : writes'[s] = IF s = r THEN u ELSE writes[s]
        BY <2>1 DEF TypeOK
    <2>6. InScope' = InScope
        BY <2>2 DEF InScope
    <2> QED BY <1>0, <2>2, <2>3, <2>4, <2>5, <2>6 DEF ScopeInv, AfterDecision
  <1>5. ASSUME NEW r \in Roles, ReviewerRaises(r) PROVE ScopeInv'
      BY <1>5 DEF ReviewerRaises, ScopeInv, InScope, AfterDecision
  <1>6. CASE ReviewersJoin
      BY <1>6, JoinScope
  <1>7. CASE ReviewDecision
    <2>1. passes # 0
        BY <1>7 DEF ReviewDecision, LoopInv, TypeOK
    <2> QED BY <1>7, <2>1 DEF ReviewDecision, RouteAfterDecision, ContextWithoutAnswer,
                              ScopeInv, InScope
  <1>8. ASSUME NEW answer \in Answers, ResumeWith(answer) PROVE ScopeInv'
    <2>1. passes # 0
        BY <1>8 DEF ResumeWith, LoopInv, TypeOK
    <2> QED BY <1>0, <1>8, <2>1 DEF ResumeWith, ScopeInv, InScope, NoWrites
  <1>9. CASE SnapshotRemoved
      BY <1>9 DEF SnapshotRemoved, ScopeInv, InScope
  <1>10. CASE AggregateResults
      BY <1>10 DEF AggregateResults, ScopeInv, InScope, AfterDecision
  <1>11. CASE FormatReport
      BY <1>11 DEF FormatReport, ScopeInv, InScope, AfterDecision
  <1>12. CASE PublishReport
      BY <1>12 DEF PublishReport, ScopeInv, InScope, AfterDecision
  <1>13. CASE UNCHANGED vars
      BY <1>13 DEF vars, ScopeInv, InScope
  <1>14. CASE RenderingRaises
      BY <1>14 DEF RenderingRaises, ScopeInv, InScope, AfterDecision
  <1> QED BY <1>1, <1>2, <1>3, <1>4, <1>5, <1>6, <1>7, <1>8, <1>9, <1>10,
             <1>11, <1>12, <1>13, <1>14 DEF Next

\* Only the join adds reviews, and it adds them after those of earlier passes.
LEMMA StepOrder == TypeOK /\ OrderInv /\ [Next]_vars => OrderInv'
  <1> SUFFICES ASSUME TypeOK, OrderInv, [Next]_vars PROVE OrderInv'
      OBVIOUS
  <1>1. CASE ReviewersJoin
    <2> SUFFICES ASSUME NEW r \in Roles, NEW i \in DOMAIN agent_reviews'[r]
                 PROVE  /\ agent_reviews'[r][i].pass <= passes'
                        /\ agent_reviews'[r][i].pass
                             <= agent_reviews'[r][Len(agent_reviews'[r])].pass
        BY DEF OrderInv
    <2> DEFINE rev == [pass |-> passes + 1, ambiguous |-> writes[r] = "ambiguous"]
               old == agent_reviews[r]
    <2>1. old \in Seq(Reviews) /\ passes \in Nat /\ passes' = passes + 1
        BY <1>1 DEF ReviewersJoin, TypeOK
    <2>2. agent_reviews'[r] = IF writes[r] \in {"pending", "empty"} THEN old ELSE Append(old, rev)
        BY <1>1 DEF ReviewersJoin, Folded
    <2>3. \A j \in DOMAIN old : /\ old[j].pass \in Nat /\ old[j].pass <= passes
                                /\ old[j].pass <= old[Len(old)].pass
      <3>1. \A j \in DOMAIN old : old[j] \in Reviews
          BY <2>1
      <3>2. \A j \in DOMAIN old : old[j].pass <= passes /\ old[j].pass <= old[Len(old)].pass
          BY DEF OrderInv
      <3> QED BY <3>1, <3>2 DEF Reviews
    <2>4. rev.pass = passes + 1
        OBVIOUS
    <2> HIDE DEF rev, old
    <2>5. CASE agent_reviews'[r] = old
        BY <2>1, <2>3, <2>5
    <2>6. CASE agent_reviews'[r] = Append(old, rev)
      <3>1. /\ Len(agent_reviews'[r]) = Len(old) + 1
            /\ DOMAIN agent_reviews'[r] = 1 .. (Len(old) + 1)
            /\ agent_reviews'[r][Len(old) + 1] = rev
            /\ i # Len(old) + 1 => i \in DOMAIN old /\ agent_reviews'[r][i] = old[i]
          BY <2>1, <2>6
      <3> QED BY <2>1, <2>3, <2>4, <3>1
    <2> QED BY <2>2, <2>5, <2>6
  <1>2. CASE UNCHANGED <<agent_reviews, passes>>
      BY <1>2 DEF OrderInv
  <1>3. [Next]_vars => ReviewersJoin \/ UNCHANGED <<agent_reviews, passes>>
      BY DEF Next, vars, request, reviewState, decision, output, ValidateRequest, NotifyRejection,
             RetrievePastContext, ReviewerReturns, ReviewerRaises, ReviewDecision, ResumeWith,
             SnapshotRemoved, AggregateResults, FormatReport, RenderingRaises, PublishReport
  <1> QED BY <1>1, <1>2, <1>3

\* Aggregation makes the report of what the scope has; nothing is reviewed after.
LEMMA StepReport ==
  TypeOK /\ AskInv /\ ScopeInv /\ ReportInv /\ [Next]_vars => ReportInv'
  <1> SUFFICES ASSUME TypeOK, AskInv, ScopeInv, ReportInv, [Next]_vars PROVE ReportInv'
      OBVIOUS
  <1> USE DEF request, reviewState, decision, output
  <1>0. InScope \subseteq Roles /\ InScope' = InScope
    <2>1. scope' = scope
        BY DEF Next, vars, ValidateRequest, NotifyRejection,
               RetrievePastContext, ReviewerReturns, ReviewerRaises, ReviewersJoin, ReviewDecision,
               ResumeWith, SnapshotRemoved, AggregateResults, FormatReport, RenderingRaises,
               PublishReport
    <2> QED BY <2>1, ScopeOfRoles DEF InScope
  <1>1. CASE AggregateResults
    <2>1. passes # 0 /\ agent_reviews' = agent_reviews
        BY <1>1 DEF AggregateResults, ScopeInv, AfterDecision
    <2>2. {s \in Roles : agent_reviews[s] # <<>>} = InScope
        BY <1>0, <2>1 DEF ScopeInv
    <2>3. report' = [r \in InScope |-> Last(agent_reviews[r])]
        BY <1>1, <2>2 DEF AggregateResults
    <2> QED BY <1>0, <2>1, <2>3 DEF ReportInv, Last
  <1>2. CASE ReviewersJoin
      BY <1>2 DEF ReviewersJoin, AskInv, ReportInv
  <1>3. CASE UNCHANGED <<agent_reviews, report>>
      BY <1>0, <1>3 DEF ReportInv
  <1>4. [Next]_vars => AggregateResults \/ ReviewersJoin \/ UNCHANGED <<agent_reviews, report>>
      BY DEF Next, vars, ValidateRequest, NotifyRejection,
             RetrievePastContext, ReviewerReturns, ReviewerRaises, ReviewDecision, ResumeWith,
             SnapshotRemoved, FormatReport, RenderingRaises, PublishReport
  <1> QED BY <1>1, <1>2, <1>3, <1>4

\* Whatever the scope, and however many passes some of the roles came back empty
\* from, the report has an entry for exactly the roles in scope, their newest.
THEOREM ReportIsComplete == Spec => []ReportCoversScope
  <1>1. Spec => []AskInv
      BY InitTypeOK, StepTypeOK, InitLoopInv, StepLoopInv, InitAskInv, StepAskInv,
         PTL DEF Spec
  <1>2. Spec => [](ScopeInv /\ OrderInv /\ ReportInv)
      BY <1>1, TypeCorrect, LoopInvariant, InitCover, StepScope, StepOrder, StepReport, PTL DEF Spec
  <1>3. TypeOK /\ OrderInv /\ ReportInv => ReportCoversScope
      BY ScopeOfRoles DEF OrderInv, ReportInv, ReportCoversScope
  <1> QED BY <1>2, <1>3, TypeCorrect, PTL
=============================================================================
