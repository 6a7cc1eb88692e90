--------------------------- MODULE ReviewLifecycle ---------------------------
(***************************************************************************)
(* The life of one review thread in main.py: the asyncio task that runs it   *)
(* (_run_review, _run_repo_review), the tasks the chat WebSocket spawns to    *)
(* resume it (_resume_review), the Stop button, the registry of active        *)
(* reviews, the snapshot on disk, the token-usage handlers, the checkpoint,   *)
(* the database row and what the user is told.                                *)
(*                                                                            *)
(* One action is one stretch of a coroutine between two awaits.  Every task    *)
(* drives the graph of ReviewSteps from the state it loaded and writes the     *)
(* shared checkpoint after each superstep, so two tasks may interleave.        *)
(***************************************************************************)
EXTENDS ReviewSteps, Sequences

CONSTANTS
  Resumes,      \* the tasks that create_task(_resume_review(...)) may start
  OneAtATime,   \* TRUE: the user writes only while no task of the thread runs
  MaxCrashes,   \* bound on process restarts
  NoTask        \* the absence of a token handler

Run == "run"    \* the task that POST /review starts
Tasks == {Run} \cup Resumes

ASSUME ResumesAssumption == Run \notin Resumes
ASSUME OneAtATimeAssumption == OneAtATime \in BOOLEAN
ASSUME MaxCrashesAssumption == MaxCrashes \in Nat
ASSUME NoTaskAssumption == NoTask \notin Tasks

VARIABLES
  mode,        \* "pr" or "repo"
  pc,          \* [Tasks -> where the coroutine is suspended]
  graph,       \* [Tasks -> graph state of its invocation, then what it persists]
  answering,   \* [Tasks -> the invocation still carries an unused resume value]
  cancelling,  \* task.cancel() was called and CancelledError is not raised yet
  registered,  \* ActiveReviewsRegistry has the entry (and its task)
  checkpoint,  \* the newest checkpoint of the thread
  clone,       \* the worker thread of clone_repo: "idle", "running", "ok", "failed"
  on_disk,     \* the snapshot directory exists
  snapshot_dir,\* the coroutine's local: it knows the directory
  logging,     \* progress_log_task was created
  handlers,    \* app.state.token_handlers[thread_id]: the task that made it
  handler,     \* [Tasks -> the handler in the invocation's callbacks]
  usage,       \* [Tasks -> the tasks whose LLM calls that handler counted]
  tokens,      \* [Tasks -> state.token_usage it will persist]
  row,         \* the review row
  terminal,    \* ProgressStore: the terminal envelopes, in order
  chat,        \* ChatStore: set of the agent's notices
  published,   \* history: how often publish_report delivered
  spent,       \* history: tasks that made LLM calls
  failed,      \* history: the tasks some step of which raised
  crashes      \* history: restarts so far

control == <<pc, graph, answering, checkpoint>>
registry == <<cancelling, registered>>
disk == <<clone, on_disk, snapshot_dir, logging>>
accounting == <<handlers, handler, usage, tokens, spent>>
outcome == <<terminal, chat, published>>
ghost == <<failed, crashes>>

vars == <<mode, control, registry, disk, accounting, row, outcome, ghost>>

Pcs == {"idle", "fetch", "announce", "clone", "cloned", "stream", "settle",
        "complete", "persist", "backfill", "cancel_chat", "cancel_event",
        "finally", "created", "reload", "done"}

Rows == [present : BOOLEAN, state : GraphStates, tokens : SUBSET Tasks]

NoRow == [present |-> FALSE, state |-> GraphStart, tokens |-> {}]

\* What the agent says in the chat; a question with the pass it follows.
Notices == {"cancelled", "complete", "question"} \X Nat
CancelledNotice == <<"cancelled", 0>>
CompleteNotice == <<"complete", 0>>
QuestionAfter(pass) == <<"question", pass>>

Active(t) == pc[t] \notin {"idle", "done"}

Init ==
  /\ mode \in {"pr", "repo"}
  /\ pc = [t \in Tasks |-> "idle"]
  /\ graph = [t \in Tasks |-> GraphStart]
  /\ answering = [t \in Tasks |-> FALSE]
  /\ checkpoint = GraphStart
  /\ cancelling = FALSE
  /\ registered = FALSE
  /\ clone = "idle"
  /\ on_disk = FALSE
  /\ snapshot_dir = FALSE
  /\ logging = FALSE
  /\ handlers = NoTask
  /\ handler = [t \in Tasks |-> NoTask]
  /\ usage = [t \in Tasks |-> {}]
  /\ tokens = [t \in Tasks |-> {}]
  /\ spent = {}
  /\ row = NoRow
  /\ terminal = <<>>
  /\ chat = {}
  /\ published = 0
  /\ failed = {}
  /\ crashes = 0

-----------------------------------------------------------------------------
(* Pieces of steps.                                                         *)

At(t, place) == pc[t] = place

Suspend(t, place) == pc' = [pc EXCEPT ![t] = place]

\* The run task takes no step of its own between task.cancel() and the
\* CancelledError; nobody cancels a resume task.
Runs(t) == t = Run => ~cancelling

\* _trace_config: reuse the thread's handler or put a fresh one in place.
TakeHandler(t) ==
  LET h == IF handlers = NoTask THEN t ELSE handlers
  IN /\ handlers' = h
     /\ handler' = [handler EXCEPT ![t] = h]

DrainWithoutPop(t) ==
  /\ tokens' = [tokens EXCEPT ![t] = IF handlers = NoTask THEN {} ELSE usage[handlers]]
  /\ UNCHANGED <<handlers, handler, usage, spent>>

\* _drain_token_usage: pop the thread's handler into the state to be persisted.
DrainTokens(t) ==
  /\ tokens' = [tokens EXCEPT ![t] = IF handlers = NoTask THEN {} ELSE usage[handlers]]
  /\ handlers' = NoTask
  /\ UNCHANGED <<handler, usage, spent>>

\* LLM calls made by task t, seen by the handler in its callbacks: those of its
\* reviewers stand for all that a run makes.
CountUsage(t) ==
  /\ usage' = [usage EXCEPT ![handler[t]] = @ \cup {t}]
  /\ spent' = spent \cup {t}

\* A repo-mode reviewer reads the files under request.snapshot_dir.
Readable == mode = "pr" \/ on_disk

UnwindKeepingSnapshot ==
  /\ Suspend(Run, "done")
  /\ registered' = FALSE
  /\ on_disk' = on_disk

UnwindRegistered ==
  /\ Suspend(Run, "done")
  /\ registered' = registered
  /\ on_disk' = (on_disk /\ ~snapshot_dir)

\* The finally block of the run task.  With a log task to drain it suspends
\* first; then it removes the snapshot it knows of and unregisters.
Unwind ==
  /\ Suspend(Run, "done")
  /\ registered' = FALSE
  /\ on_disk' = (on_disk /\ ~snapshot_dir)

LeaveRun ==
  IF logging THEN Suspend(Run, "finally") /\ UNCHANGED <<registered, on_disk>>
             ELSE Unwind

\* The end of a task, and its end through an exception that is only logged.
Leave(t) ==
  /\ IF t = Run THEN LeaveRun
                ELSE Suspend(t, "done") /\ UNCHANGED <<registered, on_disk>>
  /\ UNCHANGED <<cancelling, clone, snapshot_dir, logging>>

Raise(t) == Leave(t) /\ failed' = failed \cup {t}

-----------------------------------------------------------------------------
(* The run task up to the graph.                                             *)

\* POST /review registers, creates the task and attaches it without an await,
\* so the task has made its first step before any request can cancel it.
TriggerReview ==
  /\ At(Run, "idle")
  /\ Suspend(Run, IF mode = "pr" THEN "fetch" ELSE "announce")
  /\ registered' = TRUE
  /\ UNCHANGED <<mode, graph, answering, checkpoint, cancelling, disk,
                 accounting, row, outcome, ghost>>

\* Awaiting github.fetch_pr.
FetchPr ==
  /\ At(Run, "fetch") /\ Runs(Run)
  /\ \/ /\ Suspend(Run, "stream")
        /\ TakeHandler(Run)
        /\ UNCHANGED <<registry, disk, failed>>
     \/ Raise(Run) /\ UNCHANGED <<handlers, handler>>
  /\ UNCHANGED <<mode, graph, answering, checkpoint, usage, tokens, spent,
                 row, outcome, crashes>>

\* The "clone_repo active" envelope is out: clone_repo starts in a worker
\* thread, and its first act is to create the directory.
StartClone ==
  /\ At(Run, "announce") /\ Runs(Run)
  /\ Suspend(Run, "clone")
  /\ clone' = "running"
  /\ on_disk' = TRUE
  /\ UNCHANGED <<mode, graph, answering, checkpoint, registry, snapshot_dir,
                 logging, accounting, row, outcome, ghost>>

\* The worker thread is not interrupted by a cancellation of the task.
CloneThreadEnds ==
  /\ clone = "running"
  /\ \/ clone' = "ok" /\ UNCHANGED on_disk
     \/ clone' = "failed" /\ on_disk' = FALSE
  /\ UNCHANGED <<mode, control, registry, snapshot_dir, logging, accounting,
                 row, outcome, ghost>>

\* Awaiting asyncio.to_thread(clone_repo): only now is snapshot_dir assigned.
CloneReturns ==
  /\ At(Run, "clone") /\ Runs(Run)
  /\ \/ /\ clone = "ok"
        /\ snapshot_dir' = TRUE
        /\ Suspend(Run, "cloned")
        /\ UNCHANGED <<registry, clone, on_disk, logging, failed>>
     \/ clone = "failed" /\ Raise(Run)
  /\ UNCHANGED <<mode, graph, answering, checkpoint, accounting, row, outcome, crashes>>

\* The "clone_repo fired" envelope is out: list the files, start the log task.
PrepareRepo ==
  /\ At(Run, "cloned") /\ Runs(Run)
  /\ \/ /\ Suspend(Run, "stream")
        /\ TakeHandler(Run)
        /\ logging' = TRUE
        /\ UNCHANGED <<registry, clone, on_disk, snapshot_dir, failed>>
     \/ Raise(Run) /\ UNCHANGED <<handlers, handler>>
  /\ UNCHANGED <<mode, graph, answering, checkpoint, usage, tokens, spent,
                 row, outcome, crashes>>

-----------------------------------------------------------------------------
(* The graph, as either kind of task drives it.                             *)

\* A superstep commits its state to the checkpoint.  LLM calls are counted for
\* the reviewers; publish_report posts the comment or writes the report.
Superstep(t) ==
  /\ At(t, "stream") /\ Runs(t)
  /\ \E h \in Successors(graph[t], Readable) :
       /\ h.at # "failed"
       /\ graph' = [graph EXCEPT ![t] = h]
       /\ checkpoint' = IF Checkpointer THEN h ELSE checkpoint
  /\ IF graph[t].at = "reviewers" /\ Readable
     THEN CountUsage(t) ELSE UNCHANGED <<usage, spent>>
  /\ published' = IF graph[t].at = "publish_report" THEN published + 1 ELSE published
  /\ answering' = [answering EXCEPT ![t] = FALSE]
  /\ UNCHANGED <<mode, pc, registry, disk, handlers, handler, tokens, row,
                 terminal, chat, ghost>>

\* A node raises, or the checkpointer cannot write the superstep: either way
\* the checkpoint keeps the last superstep that was committed.
SuperstepRaises(t) ==
  /\ At(t, "stream") /\ Runs(t)
  /\ \/ \E h \in Successors(graph[t], Readable) : h.at = "failed"
     \/ Checkpointer /\ (Successors(graph[t], Readable) # {} \/ answering[t])
  /\ graph' = [graph EXCEPT ![t].at = "failed"]
  /\ answering' = [answering EXCEPT ![t] = FALSE]
  /\ IF graph[t].at = "reviewers" /\ Readable
     THEN CountUsage(t) ELSE UNCHANGED <<usage, spent>>
  /\ published' = IF graph[t].at = "publish_report" THEN published + 1 ELSE published
  /\ Raise(t)
  /\ UNCHANGED <<mode, checkpoint, handlers, handler, tokens, row,
                 terminal, chat, crashes>>

\* review_decision takes the resume value the invocation came with.
TakeAnswer(t) ==
  /\ At(t, "stream") /\ Runs(t)
  /\ Paused(graph[t]) /\ answering[t]
  /\ \E answer \in Answers :
       /\ graph' = [graph EXCEPT ![t] = Resume(graph[t], answer)]
       /\ checkpoint' = Resume(graph[t], answer)
  /\ answering' = [answering EXCEPT ![t] = FALSE]
  /\ UNCHANGED <<mode, pc, registry, disk, accounting, row, outcome, ghost>>

DoneAlsoAfterResume(t) == Append(terminal, "__done__")

\* Only _stream_graph_with_progress ends with a terminal envelope.
DoneEnvelope(t) == IF t = Run THEN Append(terminal, "__done__") ELSE terminal

\* The invocation is over or suspended.
StreamEnds(t) ==
  /\ At(t, "stream") /\ Runs(t)
  /\ graph[t].at = "END" \/ (Paused(graph[t]) /\ ~answering[t])
  /\ terminal' = DoneEnvelope(t)
  /\ Suspend(t, "settle")
  /\ UNCHANGED <<mode, graph, answering, checkpoint, registry, disk, accounting,
                 row, chat, published, ghost>>

-----------------------------------------------------------------------------
(* After the graph.                                                         *)

AskOnlyInTheRun(t) ==
  IF Paused(checkpoint) /\ t = Run THEN chat \cup {QuestionAfter(checkpoint.passes)} ELSE chat

\* _broadcast_pending_interrupts: the question of the newest checkpoint.
PendingQuestion(t) ==
  IF Paused(checkpoint) THEN chat \cup {QuestionAfter(checkpoint.passes)} ELSE chat

Settle(t) ==
  /\ At(t, "settle") /\ Runs(t)
  /\ chat' = PendingQuestion(t)
  /\ CASE t # Run -> Suspend(t, "reload") /\ UNCHANGED accounting
       [] t = Run /\ mode = "repo" -> Suspend(t, "complete") /\ UNCHANGED accounting
       [] t = Run /\ mode = "pr" -> Suspend(t, "persist") /\ DrainTokens(t)
  /\ UNCHANGED <<mode, graph, answering, checkpoint, registry, disk, row,
                 terminal, published, ghost>>

CompletionAtOnce == chat \cup {CompleteNotice}

\* Skipped while a question is open.
CompletionNotice ==
  IF Paused(checkpoint) THEN chat ELSE chat \cup {CompleteNotice}

\* _broadcast_repo_completion.
AnnounceCompletion ==
  /\ At(Run, "complete") /\ Runs(Run)
  /\ chat' = CompletionNotice
  /\ Suspend(Run, "persist")
  /\ DrainTokens(Run)
  /\ UNCHANGED <<mode, graph, answering, checkpoint, registry, disk, row,
                 terminal, published, ghost>>

\* _persist_state_from_checkpointer rebuilds the state from the checkpoint.
ReloadState(t) ==
  /\ At(t, "reload")
  /\ graph' = [graph EXCEPT ![t] = checkpoint]
  /\ Suspend(t, "persist")
  /\ DrainTokens(t)
  /\ UNCHANGED <<mode, answering, checkpoint, registry, disk, row, outcome, ghost>>

\* aget_state fails with a database error.
ReadFails(t) ==
  /\ pc[t] \in {"settle", "complete", "reload"} /\ Runs(t)
  /\ Checkpointer
  /\ Raise(t)
  /\ UNCHANGED <<mode, graph, answering, checkpoint, accounting, row, outcome, crashes>>

InsertOrKeep(t) ==
  IF row.present THEN row
  ELSE [present |-> TRUE, state |-> graph[t], tokens |-> tokens[t]]

\* What save_review writes: the upsert replaces every column (what becomes of
\* the exploit proposals in it is ExploitEndpoint's concern).
SavedRow(t) ==
  [present |-> TRUE, state |-> graph[t], tokens |-> tokens[t]]

\* _persist_review: without a store it returns; an error is logged and the
\* backfill is skipped.
SaveReview(t) ==
  /\ At(t, "persist") /\ Runs(t)
  /\ \/ /\ Checkpointer
        /\ row' = SavedRow(t)
        /\ Suspend(t, "backfill")
        /\ UNCHANGED <<registry, disk, failed>>
     \/ Checkpointer /\ Raise(t) /\ UNCHANGED row
     \/ ~Checkpointer /\ Leave(t) /\ UNCHANGED <<row, failed>>
  /\ UNCHANGED <<mode, graph, answering, checkpoint, accounting, outcome, crashes>>

\* embed_pending returned or failed; either way the task is finished.
BackfillEnds(t) ==
  /\ At(t, "backfill") /\ Runs(t)
  /\ Leave(t)
  /\ UNCHANGED <<mode, graph, answering, checkpoint, accounting, row, outcome, ghost>>

LogTaskNotCancelled == At(Run, "finally") /\ ~logging

\* progress_log_task.cancel() came before the await, so the endless loop ends.
LogTaskEnds == At(Run, "finally") /\ logging

\* The log task is drained, its own cancellation or a second one of the run
\* task suppressed; the rest of the finally block follows.
FinallyEnds ==
  /\ LogTaskEnds
  /\ Unwind
  /\ cancelling' = FALSE
  /\ UNCHANGED <<mode, graph, answering, checkpoint, clone, snapshot_dir, logging,
                 accounting, row, outcome, ghost>>

-----------------------------------------------------------------------------
(* The Stop button.                                                         *)

\* POST /reviews/{thread_id}/cancel: the entry is there and its task not done.
Cancel ==
  /\ registered /\ Active(Run)
  /\ ~cancelling
  /\ cancelling' = TRUE
  /\ UNCHANGED <<mode, control, registered, disk, accounting, row, outcome, ghost>>

\* CancelledError is raised at the await and _broadcast_cancellation begins.
\* The call in flight may have taken effect: the comment, or the commit.
CancelArrives ==
  /\ cancelling
  /\ pc[Run] \in {"fetch", "announce", "clone", "cloned", "stream",
                  "settle", "complete", "persist", "backfill"}
  /\ published' \in IF At(Run, "stream") /\ graph[Run].at = "publish_report"
                    THEN {published, published + 1} ELSE {published}
  /\ row' \in IF At(Run, "persist") /\ Checkpointer THEN {row, SavedRow(Run)} ELSE {row}
  /\ chat' = chat \cup {CancelledNotice}
  /\ cancelling' = FALSE
  /\ Suspend(Run, "cancel_chat")
  /\ UNCHANGED <<mode, graph, answering, checkpoint, registered, disk, accounting,
                 terminal, ghost>>

CancelNoticeSent ==
  /\ At(Run, "cancel_chat") /\ Runs(Run)
  /\ terminal' = Append(terminal, "__cancelled__")
  /\ Suspend(Run, "cancel_event")
  /\ UNCHANGED <<mode, graph, answering, checkpoint, registry, disk, accounting,
                 row, chat, published, ghost>>

CancelEventSent ==
  /\ At(Run, "cancel_event") /\ Runs(Run)
  /\ Leave(Run)
  /\ UNCHANGED <<mode, graph, answering, checkpoint, accounting, row, outcome, ghost>>

\* A second Stop while the first is being announced: CancelledError is not an
\* Exception, so it leaves the handler and only the finally block runs.
CancelledAgain ==
  /\ cancelling
  /\ pc[Run] \in {"cancel_chat", "cancel_event"}
  /\ LeaveRun
  /\ cancelling' = FALSE
  /\ UNCHANGED <<mode, graph, answering, checkpoint, clone, snapshot_dir, logging,
                 accounting, row, outcome, ghost>>

-----------------------------------------------------------------------------
(* The chat and the process.                                                *)

MayResumeUnfinished == checkpoint.at \notin {"validate_request", "END"}

\* _has_pending_interrupt: a task of the newest checkpoint holds an interrupt.
MayResume == Paused(checkpoint)

\* chat_ws: a message that finds the graph suspended creates a resume task.
UserMessage(t) ==
  /\ At(t, "idle") /\ t # Run
  /\ OneAtATime => \A u \in Tasks : ~Active(u)
  /\ MayResume
  /\ Suspend(t, "created")
  /\ UNCHANGED <<mode, graph, answering, checkpoint, registry, disk, accounting,
                 row, outcome, ghost>>

LoadedAfresh == GraphStart

\* What Command(resume=...) on the thread's config continues from.
Loaded == checkpoint

\* _resume_review: ainvoke loads the newest checkpoint, whatever the one was
\* that the message was meant for; the resume value is for its first superstep.
StartResume(t) ==
  /\ At(t, "created")
  /\ TakeHandler(t)
  /\ graph' = [graph EXCEPT ![t] = Loaded]
  /\ answering' = [answering EXCEPT ![t] = Paused(Loaded)]
  /\ Suspend(t, "stream")
  /\ UNCHANGED <<mode, checkpoint, registry, disk, usage, tokens, spent, row,
                 outcome, ghost>>

\* The process stops and starts again: tasks, registry, handlers and the
\* in-memory stores are gone; checkpoint, row, report and snapshots remain.
Crash ==
  /\ crashes < MaxCrashes
  /\ \E t \in Tasks : Active(t)
  /\ crashes' = crashes + 1
  /\ pc' = [t \in Tasks |-> IF Active(t) THEN "done" ELSE pc[t]]
  /\ registered' = FALSE
  /\ cancelling' = FALSE
  /\ clone' = "idle"
  /\ snapshot_dir' = FALSE
  /\ logging' = FALSE
  /\ handlers' = NoTask
  /\ terminal' = <<>>
  /\ chat' = {}
  /\ UNCHANGED <<mode, graph, answering, checkpoint, on_disk, handler, usage,
                 tokens, spent, row, published, failed>>

-----------------------------------------------------------------------------

RunStep ==
  \/ FetchPr \/ StartClone \/ CloneReturns \/ PrepareRepo
  \/ AnnounceCompletion \/ FinallyEnds
  \/ CancelArrives \/ CancelNoticeSent \/ CancelEventSent \/ CancelledAgain

TaskStep(t) ==
  \/ Superstep(t) \/ SuperstepRaises(t) \/ TakeAnswer(t) \/ StreamEnds(t)
  \/ Settle(t) \/ ReadFails(t) \/ SaveReview(t) \/ BackfillEnds(t)

ResumeStep(t) == StartResume(t) \/ ReloadState(t)

Next ==
  \/ TriggerReview \/ CloneThreadEnds \/ RunStep
  \/ \E t \in Tasks : TaskStep(t)
  \/ \E t \in Resumes : UserMessage(t) \/ ResumeStep(t)
  \/ Cancel
  \/ Crash

Spec == Init /\ [][Next]_vars

\* The event loop resumes a coroutine whose awaited call is over, and every
\* awaited call ends (git, HTTP and LLM calls have timeouts).  Nobody has to
\* press Stop, write a message or crash the process.
Fairness ==
  /\ WF_vars(CloneThreadEnds)
  /\ WF_vars(RunStep \/ TaskStep(Run))
  /\ \A t \in Resumes : WF_vars(TaskStep(t) \/ ResumeStep(t))

FairSpec == Spec /\ Fairness

-----------------------------------------------------------------------------

\* The type of every variable.
TypeOK ==
  /\ mode \in {"pr", "repo"}
  /\ pc \in [Tasks -> Pcs]
  /\ graph \in [Tasks -> GraphStates]
  /\ answering \in [Tasks -> BOOLEAN]
  /\ checkpoint \in GraphStates
  /\ cancelling \in BOOLEAN
  /\ registered \in BOOLEAN
  /\ clone \in {"idle", "running", "ok", "failed"}
  /\ on_disk \in BOOLEAN
  /\ snapshot_dir \in BOOLEAN
  /\ logging \in BOOLEAN
  /\ handlers \in Tasks \cup {NoTask}
  /\ handler \in [Tasks -> Tasks \cup {NoTask}]
  /\ usage \in [Tasks -> SUBSET Tasks]
  /\ tokens \in [Tasks -> SUBSET Tasks]
  /\ spent \in SUBSET Tasks
  /\ row \in Rows
  /\ terminal \in Seq({"__done__", "__cancelled__"})
  /\ chat \in SUBSET Notices
  /\ published \in Nat
  /\ failed \in SUBSET Tasks
  /\ crashes \in Nat

Quiet == \A t \in Tasks : ~Active(t)

\* Nothing went wrong so far and nobody pressed Stop.
Undisturbed == failed = {} /\ CancelledNotice \notin chat /\ crashes = 0

\* The active-reviews list shows a review exactly while its task is alive: on
\* every way out of the task (end, error, Stop, Stop twice) it unregisters, and
\* never before its cleanup is over, so Stop can reach it until then.
RegistryTracksTask == registered <=> Active(Run)

\* The snapshot is there for every reviewer of the initial stream, and once the
\* task is over a directory it knew of is gone.
SnapshotLifetime ==
  /\ (mode = "repo" /\ At(Run, "stream")) => on_disk
  /\ (At(Run, "done") /\ snapshot_dir) => ~on_disk

\* The UI gets at most one __done__, at most one __cancelled__, never __done__
\* after __cancelled__, and a review that was not disturbed ends with __done__.
TerminalEnvelopes ==
  /\ terminal \in {<<>>, <<"__done__">>, <<"__cancelled__">>,
                   <<"__done__", "__cancelled__">>}
  /\ (At(Run, "done") /\ Undisturbed) => terminal = <<"__done__">>

\* The report of a review is delivered once.
PublishedOnce == published <= 1

\* When everything has settled and nothing went wrong, the row of a published
\* review is that of the finished graph, not of a pause before it.
PublishedIsPersisted ==
  (Quiet /\ Undisturbed /\ Checkpointer /\ published > 0)
    => row.present /\ row.state.at = "END"

\* The report reaches its readers once, and the database keeps that review.
ReportIsDelivered == PublishedOnce /\ PublishedIsPersisted

\* A graph left waiting for the human has asked: the question that belongs to
\* the pass it is waiting after is in the chat.
OpenQuestionIsAsked ==
  (Quiet /\ Undisturbed /\ Paused(checkpoint))
    => QuestionAfter(checkpoint.passes) \in chat

\* "Review complete" is never said while a question is open or the graph has
\* more to do, and a repo review that no resume took part in has said it.
CompletionIsTrue ==
  /\ CompleteNotice \in chat => checkpoint.at = "END" \/ ~Checkpointer
  /\ (/\ At(Run, "done") /\ Undisturbed /\ mode = "repo" /\ checkpoint.at = "END"
      /\ \A t \in Resumes : At(t, "idle")) => CompleteNotice \in chat

\* What the chat says of the state of the review is so.
NoticesAreTrue == OpenQuestionIsAsked /\ CompletionIsTrue

\* Every way out of a task is accounted for in app.state.token_handlers, which
\* should not "accumulate orphaned handlers" (main.py:911-912): a handler in it
\* belongs to an invocation still under way, or to one that left without draining
\* it, because a step of it raised or because its run was stopped.  Those two
\* exits leak the handler until the next restart; no other does.
HandlersAreDropped ==
  handlers # NoTask =>
    \/ Active(handlers)
    \/ handlers \in failed
    \/ handlers = Run /\ CancelledNotice \in chat

\* However many tasks drive the thread, no invocation, checkpoint or row has
\* been through the reviewers more than MAX_CYCLES times.
PassesAreBounded ==
  /\ \A t \in Tasks : graph[t].passes <= MAX_CYCLES
  /\ checkpoint.passes <= MAX_CYCLES
  /\ row.state.passes <= MAX_CYCLES

\* The graph state of the thread, which GraphContract speaks of: the newest
\* checkpoint, or without a checkpointer what the run task holds.
ThreadState == IF Checkpointer THEN checkpoint ELSE graph[Run]

Contract == INSTANCE GraphContract WITH g <- ThreadState

\* However a thread is stopped, resumed and restarted, its tasks together take it
\* through one chain of invocations as GraphContract describes it: no superstep is
\* skipped or committed twice, and each answer is to an open question.
ThreadImplementsContract == Contract!ContractSpec

\* Every task comes to its end, and with it the review leaves the registry.
EveryTaskEnds == \A t \in Tasks : Active(t) ~> ~Active(t)

-----------------------------------------------------------------------------
(* What a doc or a comment says and the code does not do.                   *)

\* _persist_state_from_checkpointer: the persisted token totals are "cumulative,
\* not per-pass", so a settled row should count every task that spent tokens.
TokensAreCumulative ==
  (Quiet /\ Undisturbed /\ row.present) => row.tokens = spent

\* One graph state is behind another of the same thread.
Behind(a, b) ==
  \/ a.passes < b.passes
  \/ a.passes = b.passes /\ a.at = "interrupt" /\ b.at = "END"

\* _resume_review saves what the resume accumulated, as "without this the DB row
\* stays at the snapshot" of the run: once all is quiet and a resume has come to
\* its end, the row should not be behind the checkpoint.
ResumeIsPersisted ==
  (Quiet /\ Undisturbed /\ row.present /\ \E t \in Resumes : At(t, "done"))
    => ~Behind(row.state, checkpoint)

\* docs/repo-mode.md: every re-review pass runs while the snapshot exists.  A
\* reviewer superstep should therefore always have had code to read.
EveryPassReadsCode == checkpoint.passes = checkpoint.reviewed
=============================================================================
