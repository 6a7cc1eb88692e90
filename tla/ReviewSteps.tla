----------------------------- MODULE ReviewSteps -----------------------------
(***************************************************************************)
(* The security-review graph of src/src/graph/coordinator.py, one LangGraph  *)
(* superstep at a time.  A graph state is the part of ReviewState (and of   *)
(* the checkpoint LangGraph keeps of it) that control flow depends on; the  *)
(* operators give, for each node, the set of graph states it may leave.     *)
(*                                                                          *)
(* This module has no variables: ReviewGraph executes the graph reviewer by *)
(* reviewer, GraphContract executes it superstep by superstep and           *)
(* ReviewLifecycle lets several asyncio tasks execute it at the same time.  *)
(***************************************************************************)
EXTENDS Naturals

CONSTANTS
  MAX_CYCLES,     \* review_decision.MAX_CYCLES: initial pass plus reruns
  Checkpointer    \* TRUE iff DATABASE_URL wires a checkpointer (interrupts work)

ASSUME MaxCyclesAssumption == MAX_CYCLES \in Nat \ {0}
ASSUME CheckpointerAssumption == Checkpointer \in BOOLEAN

Nodes == {"validate_request", "notify_rejection", "retrieve_past_context",
          "reviewers", "review_decision", "interrupt", "aggregate_results",
          "format_report", "publish_report", "END", "failed"}

(***************************************************************************)
(*  at            the node the next superstep runs; "interrupt" is          *)
(*                review_decision suspended in interrupt(), "END" and        *)
(*                "failed" (a node raised) stop the invocation               *)
(*  cycle_count   reruns the human approved                                  *)
(*  extra_context whether the clarification string is non-empty              *)
(*  ambiguous     some accumulated review has passed=False and no findings   *)
(*  passes        history: reviewer supersteps executed                      *)
(*  reviewed      history: those in which the code was there to be read      *)
(***************************************************************************)
GraphStates ==
  [at : Nodes, cycle_count : Nat, extra_context : BOOLEAN,
   ambiguous : BOOLEAN, passes : Nat, reviewed : Nat]

GraphStart ==
  [at |-> "validate_request", cycle_count |-> 0, extra_context |-> FALSE,
   ambiguous |-> FALSE, passes |-> 0, reviewed |-> 0]

\* What the human's message parses to (_parse_resume): a rerun with context,
\* the bare word "rerun", or anything else.
Answers == {"rerun_context", "rerun_bare", "proceed"}

Approves(answer) == answer \in {"rerun_context", "rerun_bare"}

Goto(g, node) == [g EXCEPT !.at = node]

Paused(g) == g.at = "interrupt"

-----------------------------------------------------------------------------
(* The nodes.                                                               *)

\* validate_request and route_after_validation; the LLM judge may raise.
Validate(g) ==
  {Goto(g, n) : n \in {"notify_rejection", "retrieve_past_context", "failed"}}

\* notify_rejection reports its own errors in the state: it never raises.
Reject(g) == {Goto(g, "END")}

\* retrieve_past_context is fail-soft; its static edges fan out to all reviewers.
Retrieve(g) == {Goto(g, "reviewers")}

\* The fan-out and fan-in of the four reviewers as one superstep.  In repo mode
\* a missing snapshot makes each of them return {}.  One that raises fails all.
Review(g, readable) ==
  LET after(amb) == [g EXCEPT !.at = "review_decision",
                              !.ambiguous = @ \/ amb,
                              !.passes = @ + 1,
                              !.reviewed = IF readable THEN @ + 1 ELSE @]
  IN {after(amb) : amb \in IF readable THEN BOOLEAN ELSE {FALSE}}
       \cup {Goto(g, "failed")}

\* ReviewDecisionAgent.run up to interrupt(): the cap first, then ambiguity,
\* then whether the graph can be suspended at all.
Asks(g) == /\ g.cycle_count + 1 < MAX_CYCLES
           /\ g.ambiguous
           /\ Checkpointer

Decide(g) ==
  IF Asks(g) THEN {Goto(g, "interrupt")}
             ELSE {[g EXCEPT !.at = "aggregate_results", !.extra_context = FALSE]}

\* ReviewDecisionAgent.run from interrupt() on, and route_after_decision.
Resume(g, answer) ==
  LET context == answer = "rerun_context"
  IN [g EXCEPT !.at = IF context THEN "reviewers" ELSE "aggregate_results",
               !.extra_context = context,
               !.cycle_count = IF Approves(answer) THEN @ + 1 ELSE @]

\* A review whose findings are not objects makes render_review raise ...
Aggregate(g) == {Goto(g, "format_report"), Goto(g, "failed")}

\* ... and the prompt of format_report, which is fail-soft only from there on.
Format(g) == {Goto(g, "publish_report"), Goto(g, "failed")}

\* publish_report reports its own errors in the state: it never raises.
Publish(g) == {Goto(g, "END")}

\* One superstep of an invocation that is neither suspended nor over.
Successors(g, readable) ==
  CASE g.at = "validate_request"      -> Validate(g)
    [] g.at = "notify_rejection"      -> Reject(g)
    [] g.at = "retrieve_past_context" -> Retrieve(g)
    [] g.at = "reviewers"             -> Review(g, readable)
    [] g.at = "review_decision"       -> Decide(g)
    [] g.at = "aggregate_results"     -> Aggregate(g)
    [] g.at = "format_report"         -> Format(g)
    [] g.at = "publish_report"        -> Publish(g)
    [] OTHER                          -> {}
=============================================================================
