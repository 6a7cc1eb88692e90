------------------------------ MODULE WorkflowView ------------------------------
(***************************************************************************)
(* What a browser tab draws from the events that ChatStream delivers: the     *)
(* reducer of useReviewStream.ts and the dots of WorkflowDiagram.tsx.  The      *)
(* view of a tab is a function of what it has received, so the module adds no    *)
(* state to ChatStream; it says what the events are.  In ChatStream an event is   *)
(* its index in ProgressStore; a log says which envelope has that index, and      *)
(* the properties hold of every log in Logs at once.                              *)
(***************************************************************************)
EXTENDS ChatStream, SequencesExt

CONSTANT
  Logs          \* logs of one run, each of at least MaxEvents envelopes

Specialists ==
  {"dependency_review", "injection_review", "owasp_review", "configuration_review"}

\* The rows of the diagram that belong to a branch (the others belong to both).
AcceptBranch ==
  Specialists \cup {"security_reviewers", "review_decision", "aggregate_results",
                    "publish_report"}

Rows == {"clone_repo", "validate_request", "notify_rejection"} \cup AcceptBranch

Absent == "absent"

Statuses == {"active", "fired", "empty", "rejected"}

-----------------------------------------------------------------------------
(* The envelopes of main.py.                                                *)

\* _emit_progress, and what _stream_graph_with_progress makes of one chunk.
Progress(node, status) ==
  [type |-> "progress", node |-> node, status |-> status, accepted |-> Absent]

\* The verdict goes with validate_request and with no other node.
Verdict(accepted) == [Progress("validate_request", "fired") EXCEPT !.accepted = accepted]

\* __done__ and __cancelled__ carry no status.
Terminal(node) == Progress(node, Absent)

FileProgress(role, state) == [type |-> "file_progress", role |-> role, state |-> state]

ChatMessage(i) == [type |-> "chat", text |-> i]

\* The envelope an item of the socket carries.
Envelope(log, item) == IF item[1] = "progress" THEN log[item[2]] ELSE ChatMessage(item[2])

-----------------------------------------------------------------------------
(* The reducer of useReviewStream.ts.                                       *)

NoVerdict == "null"

InitialView ==
  [nodeStatuses |-> [n \in Rows |-> "pending"],
   validationAccepted |-> NoVerdict,
   fileProgress |-> [r \in Specialists |-> Absent],
   messages |-> <<>>,
   isDone |-> FALSE,
   isCancelled |-> FALSE]

IsTerminal(status) == status \in {"fired", "empty", "rejected"}

\* A log is that of one run, which reports to its stream once: "active" is sent for
\* the clone alone and before anything else; astream is called once, a question
\* ends it and the answer goes to ainvoke, so each node reports once, and only
\* validate_request says more than its status.
ASSUME LogsAssumption ==
  \A log \in Logs :
    /\ 1 .. MaxEvents \subseteq DOMAIN log
    /\ \A i \in DOMAIN log : log[i].type \in {"progress", "file_progress"}
    /\ \A i \in DOMAIN log : log[i].type = "progress" =>
         /\ log[i].status \in Statuses \cup {Absent}
         /\ log[i].status = "active" => i = 1
         /\ log[i].accepted \in {"yes", "no", Absent}
         /\ log[i].accepted # Absent => log[i] = Verdict(log[i].accepted)
    /\ \A i, j \in DOMAIN log :
         (/\ log[i].type = "progress" /\ IsTerminal(log[i].status)
          /\ log[j].type = "progress" /\ IsTerminal(log[j].status)
          /\ log[i].node = log[j].node) => i = j

\* CASCADE_ACTIVE: the rows that start when a node has completed.
Cascade(node) ==
  CASE node = "clone_repo"        -> {"validate_request"}
    [] node \in Specialists       -> {"review_decision"}
    [] node = "review_decision"   -> {"aggregate_results"}
    [] node = "aggregate_results" -> {"publish_report"}
    [] OTHER                      -> {}

\* ACCEPT_FANOUT: the rows that start when the validator accepts.
Fanout == Specialists \cup {"security_reviewers"}

\* The rows an envelope starts.
Starts(env) ==
  (IF IsTerminal(env.status) THEN Cascade(env.node) ELSE {})
    \cup (IF env.node = "validate_request" /\ env.accepted = "yes" THEN Fanout ELSE {})

ApplyActiveAnyway(statuses, nodes) ==
  [n \in Rows |-> IF n \in nodes THEN "active" ELSE statuses[n]]

\* applyActive: terminal beats active, so a late upstream completion does not
\* downgrade a row that has finished.
ApplyActive(statuses, nodes) ==
  [n \in Rows |-> IF n \in nodes /\ ~IsTerminal(statuses[n]) THEN "active" ELSE statuses[n]]

\* A status of a row that is not drawn is kept by the code and seen by nobody.
OwnStatus(statuses, env) ==
  [n \in Rows |-> IF n = env.node /\ env.status # Absent THEN env.status ELSE statuses[n]]

VerdictOfLast(verdict, env) == IF env.accepted # Absent THEN env.accepted ELSE NoVerdict

\* Only an envelope of validate_request with a verdict changes the verdict.
VerdictAfter(verdict, env) ==
  IF env.node = "validate_request" /\ env.accepted # Absent THEN env.accepted ELSE verdict

ReduceProgress(view, env) ==
  CASE env.node = "__done__" -> [view EXCEPT !.isDone = TRUE]
    [] env.node = "__cancelled__" -> [view EXCEPT !.isDone = TRUE, !.isCancelled = TRUE]
    [] OTHER ->
         [view EXCEPT !.nodeStatuses = ApplyActive(OwnStatus(@, env), Starts(env)),
                      !.validationAccepted = VerdictAfter(@, env)]

Reduce(view, env) ==
  CASE env.type = "progress"      -> ReduceProgress(view, env)
    [] env.type = "file_progress" -> [view EXCEPT !.fileProgress[env.role] = env.state]
    [] env.type = "chat"          -> [view EXCEPT !.messages = Append(@, env.text)]

\* The view of a tab that has received the items in this order.
ViewOf(log, items) ==
  LET view[k \in 0 .. Len(items)] ==
        IF k = 0 THEN InitialView ELSE Reduce(view[k - 1], Envelope(log, items[k]))
  IN view[Len(items)]

-----------------------------------------------------------------------------
(* WorkflowDiagram.tsx.                                                     *)

\* deriveDerivedStatuses: the parent row is done when its four children are.
Derived(statuses) ==
  IF \A n \in Specialists : IsTerminal(statuses[n])
  THEN [statuses EXCEPT !["security_reviewers"] = IF IsTerminal(@) THEN @ ELSE "fired"]
  ELSE statuses

\* In PR mode nothing is cloned, and the row says so from the start.
WithMode(statuses, mode) ==
  IF mode = "pr" /\ ~IsTerminal(statuses["clone_repo"])
  THEN [statuses EXCEPT !["clone_repo"] = "empty"]
  ELSE statuses

\* coerceTerminal: no row is left pulsing after the end.
CoerceTerminal(statuses) ==
  [n \in Rows |-> IF IsTerminal(statuses[n]) THEN statuses[n] ELSE "empty"]

EffectiveStatuses(view, mode) ==
  LET withMode == WithMode(Derived(view.nodeStatuses), mode)
  IN IF view.isDone THEN CoerceTerminal(withMode) ELSE withMode

\* branchState: the rows of the branch that was not taken are dimmed.
Skipped(verdict) ==
  CASE verdict = NoVerdict -> {}
    [] verdict = "yes"    -> {"notify_rejection"}
    [] verdict = "no"     -> AcceptBranch

Drawn(view, mode) ==
  [statuses |-> EffectiveStatuses(view, mode), skipped |-> Skipped(view.validationAccepted)]

-----------------------------------------------------------------------------

\* The envelopes of the graph come from one task, which awaits each broadcast;
\* only those about files have several producers.
OneGraphLoop(log) ==
  \A i, j \in 1 .. stored :
    (log[i].type = "progress" /\ log[j].type = "progress") => author[i] = author[j]

Possible == {log \in Logs : OneGraphLoop(log)}

\* A row that has finished never starts again, although events are replayed
\* after live ones that came later and each completion starts its successors:
\* the item just received settles rows and unsettles none.
SettledStays ==
  \A s \in Sockets : received[s] # <<>> => \A log \in Possible :
    LET before == ViewOf(log, Front(received[s])).nodeStatuses
        after  == Reduce(ViewOf(log, Front(received[s])),
                         Envelope(log, Last(received[s]))).nodeStatuses
    IN \A n \in Rows : IsTerminal(before[n]) => IsTerminal(after[n])

HasAll(s) == \A i \in 1 .. stored : Caught(s, Event(i))

\* A tab that has every event draws what a tab opened afterwards will draw,
\* whatever mixture of replay and broadcast brought them, in both modes (unless
\* an eviction has taken the past from the tab that comes afterwards).
CaughtUpDrawsTheLog ==
  \A s \in Sockets : (received[s] # <<>> /\ HasAll(s) /\ evicted["progress"] = 0) =>
    \A log \in Possible :
      LET live   == ViewOf(log, received[s])
          afresh == ViewOf(log, [i \in 1 .. stored |-> Event(i)])
      IN \A mode \in {"pr", "repo"} : Drawn(live, mode) = Drawn(afresh, mode)
=============================================================================
