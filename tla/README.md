# Verification of ia-reviewer

ia-reviewer is a FastAPI service that reviews a GitHub pull request or a whole
repository for security problems. A LangGraph state machine drives four LLM
reviewers; a chat lets a human answer questions of the graph; progress and chat
reach the browser over a WebSocket; reports and exploit proposals go to
Postgres. This directory holds TLA+ models of its control flow, the TLC runs
that check them and proofs that TLAPS checks. Paths are relative to the
directory that holds `src/` and `tla/`, as in `PROJECT.json`.

Everything runs in **one asyncio event loop**: a coroutine is interrupted only
at an `await`, so one action of the models is one stretch between two awaits.
The exceptions are the worker thread of `clone_repo` and the database.

## Inventory

| Component | Source | State | Operations | Model |
|---|---|---|---|---|
| Review graph | `src/graph/coordinator.py`, `graph/state.py`, `agents/review_decision.py` | `ReviewState`, LangGraph checkpoint | nodes, routers, fan-out/fan-in, `interrupt()`, `Command(resume)` | `ReviewSteps`, `ReviewGraph`, `GraphContract` |
| Review lifecycle | `main.py`, `chat/active_reviews.py`, `utils/token_tracking.py`, `utils/checkpointer.py` | asyncio tasks, registry, snapshot, token handlers, checkpoint, row, terminal envelopes, notices | trigger, run, clone, stream, settle, persist, Stop, resume, restart | `ReviewLifecycle` |
| Per-file reviewer | `agents/base_reviewer.py`, `chat/progress_log.py` | semaphore, index counter, outcomes, envelopes | one pass over a snapshot | `PerFileReviewer` |
| Exploit endpoint | `main.py`, `agents/exploit_proposal.py`, `storage/review_store.py` | `exploit_proposals`, token buckets, artifact files | `POST /reviews/{t}/exploits/{f}`, concurrent `save_review` | `ExploitEndpoint` |
| Chat and progress stream | `chat/hub.py`, `chat/store.py`, `chat/progress_store.py`, `main.py` `chat_ws` | logs, registered sockets, broadcasts under way | append and broadcast, connect and replay, disconnect | `ChatStream` |
| Report store, RAG | `storage/review_store.py`, `integrations/embedder.py`, `agents/past_context.py` | `reviews`, `review_findings`, connection pool | save, embed, read; append and merge; search | `ReviewStore`, `StoreContract`; append and merge in `ExploitEndpoint`; search only reads |
| Validator | `agents/validator.py` | none | prefilters, LLM judge | `RequestValidator`; a free verdict in `ReviewSteps` |
| Specialists | `agents/*.py`, `scanners/file_classifier.py` | none | path patterns, skipped categories, cap; prompts | `FileSelection`; strategy in `PerFileReviewer` |
| Dependency reviewer | `agents/dependency.py`, `scanners/dependency_scanner.py`, `integrations/osv_client.py`, `integrations/manifests/` | package list, sources, ids, advisories of a pass | parse, deduplicate, query in batches, look up, render, judge | `DependencyReviewer` |
| Renderer and formatter | `agents/report_renderer.py`, `report_formatter.py` | none | last review of each role, severities, counts, callout, sections, TL;DR | `ReportContent` |
| Panel and endpoints on a row | `main.py` `list_critical_findings`, `create_exploit` | the row | list, create by finding id | `FindingTrail` (one click at a time), `ExploitEndpoint` (overlapping) |
| Repository fetcher, GitHub client | `integrations/` | snapshot directory | clone, list, read, cleanup, post a comment | clone and cleanup in `ReviewLifecycle`, the tree in `FileSelection` |
| Web UI: page | `web/src/App.tsx`, `lib/useReview.ts`, `lib/useCriticalFindings.ts` | shown data, retry timer, requests under way | open a review, fetch with retries, refresh, create an exploit | `ReviewPage` |
| Web UI: progress | `lib/useReviewStream.ts`, `components/WorkflowDiagram.tsx` | view reduced from the socket | reduce, draw | `WorkflowView` |
| Model factory, settings, logging, evals | `models/`, `utils/`, `evals/` | none | configuration, I/O, offline scoring | not modelled |

**Interactions.** `POST /review` registers the thread and creates the run task,
which drives the graph and sends what each superstep reports into
`ProgressStore` and `ChatHub`. When the graph suspends in `interrupt()` the run
task finishes normally; a later chat message sees the pending interrupt and
creates a *resume task*, which drives the same thread from the newest
checkpoint. Both kinds of task end by writing the same database row. Stop
cancels the run task only. The exploit endpoint reads and appends to that row
at any time in between. Tabs connect, replay the stores and then live on
broadcasts; the page that shows the report polls over HTTP when the stream says
that the review is over.

**What is hard.** Two tasks on one thread; decisions on state read before an
await (the cap, the idempotency check, the pending interrupt, the accumulator
of a finished stream); Stop at every await, twice, during the clone thread and
during cleanup; one of four parallel reviewers raising; failures after money
was spent; a process restart with a durable checkpoint and volatile everything
else; replay racing live sends; a read of two queries and a backfill of vectors
against a save that replaces both tables; a small connection pool; partial
answers of a batch API; retry timers, refreshes and late answers on one page;
and, with nothing concurrent about it, one finding read by seven pieces of code
(parser, formatter, callout, counts, row, panel, endpoint), each with its own
rules for severity, place and the last pass. `PROJECT.json` lists each under
"hazards" with its line and the properties that cover it.

**What makes each part correct.** *Graph*: the loop is bounded, fan-in is a
barrier, a concern is not published unasked. *Lifecycle*: the registry tells
the truth, a snapshot lives exactly as long as it is needed, one delivery, one
set of terminal envelopes, the row ends as the finished review, an open
question was asked, every task ends. *Per-file*: no permit is lost, envelopes
and counters agree. *Exploit*: cap, one record per finding, no lost append.
*Stream*: nothing lost, nothing twice, order; a finished row of the diagram
stays finished. *Store*: a save is atomic, a read sees one save, a vector
belongs to its text, the pool serves everyone. *Trail*: report, row and panel
speak of the same findings, the TL;DR takes nothing away, a pull request is turned
away only for files outside the scope of the reviewers of code, every file a role
matches is accounted for. *Dependency*: findings are sound, complete for what was
answered, in order, and a clean bill claims no more than the scan found out.
*Page*: after a switch in a quiet moment the open review is shown, no stray timer
runs, and the page is left empty only for the reasons listed with it.

## Modules

| Module | Role |
|---|---|
| `ReviewSteps` | The graph one superstep at a time: for each node, the set of graph states it may leave. No variables; shared by the three modules below. |
| `GraphContract` | The abstract specification: one chain of invocations as atomic supersteps and answers. |
| `ReviewGraph` | The same chain reviewer by reviewer, with buffered writes, the `add` reducer, scope, mode, snapshot and report. Refines `GraphContract` (`gbar`, `ImplementsContract`). |
| `ReviewLifecycle` | One thread in `main.py`: the run task, resume tasks, Stop, crash; each task drives `ReviewSteps` and commits to the shared checkpoint. One task at a time, it refines `GraphContract` (`ThreadState`, `ThreadImplementsContract`). |
| `PerFileReviewer` | One reviewer's `_run_repo`; its result is one reviewer's update in `ReviewGraph`. |
| `ExploitEndpoint` | Concurrent exploit requests and the upsert of a resumed review on one row. |
| `ChatStream` | Producers, stores, hub and socket handlers of one thread. |
| `WorkflowView` | What a tab draws: the reducer and the diagram as functions of what `ChatStream` delivered. Adds no state. |
| `DependencyReviewer` | One pass of the dependency reviewer: scan, batches, lookups, verdict. |
| `StoreContract` | The abstract specification of the store: a save replaces row and findings at once. |
| `ReviewStore` | `save_review`, `embed_pending` and `get_review` over a pool and Postgres, one action per stretch others can see (the DELETE, the INSERTs and the COMMIT of a save are one: no other transaction sees it half done). Refines `StoreContract` (`SavesAreAtomic`). |
| `ReviewPage` | The page: fetch chains, retry timers, refreshes, switching reviews. |
| `FileSelection` | Pure: what is listed of a tree, the category of a path, the files of a role's pass. |
| `RequestValidator` | Pure: the rules of the validator in their order, over `FileSelection`'s paths. |
| `ReportContent` | Pure: an answer as a review, the report as its lines, the TL;DR splice, the row. |
| `FindingTrail` | One review from request to panel, composing the three above, taken one step at a time. |
| `MC*` | Instances for TLC: symmetry sets, saved states, logs. |
| `SequenceFilter` | `Keep`: what a Python comprehension with a condition keeps of a list. |
| `ReviewGraphProofs`, `ReviewLifecycleProofs`, `ExploitEndpointProofs`, `ReviewStoreProofs`, `ReviewPageProofs`, `DependencyReviewerProofs` | Theorems about the module each is named after. |
| `ChatStreamProofs` | Theorems about `ChatStream` and the view over it, `WorkflowView`. |
| `PassAndTrailProofs` | Theorems about `PerFileReviewer` and `FindingTrail`, which have the cap on the files of a pass in common. The specification of the one is `Spec`, of the other `TrailSpec`. |

Variables and actions keep the names of the code where there is one
(`agent_reviews`, `extra_context`, `cycle_count`, `snapshot_dir`,
`token_handlers` as `handlers`, `permits`, `index`); history variables are
marked "history". Definitions such as `AtCapOffByOne` or `SomeReturned`, used by
no action, are the slips each property is tested against: putting one in the
place of the definition after it makes TLC violate the property that
`PROJECT.json` ("mutants") names.

### Correspondence worth knowing

* **Superstep and checkpoint.** LangGraph is external. Assumed: parallel tasks
  of a superstep run to the end or, when one raises, are cancelled and their
  writes dropped; the state is committed to the checkpoint after the superstep;
  `interrupt()` suspends the node, and a resume runs it again from its start.
  `SuperstepRaises` also covers a checkpointer that cannot write.
* **`Checkpointer`** stands for `DATABASE_URL`: with it there are a checkpointer
  and a `ReviewStore`, without it neither, and the graph cannot interrupt. A
  store that failed to start beside a working checkpointer looks like a save
  that fails (`SaveReview`'s failing disjunct).
* **LLM content** is reduced to what control depends on: a review is ambiguous
  (`passed=False`, no findings) or not, a validator accepts or rejects, an
  answer is `rerun` with context, bare `rerun`, or anything else.
* **`CancelArrives`**: the call in flight when Stop arrives may have had its
  effect (the comment was posted, the row was committed) or not.
* **Sends.** Every WebSocket send is a step of its own, in any order over the
  sockets of a broadcast, since a set is iterated. `ReviewLifecycle` treats a
  broadcast as one step; `ChatStream` has its interleavings, and Stop cutting a
  broadcast short (`CancelledAtSend`).
* **Logs.** In `ChatStream` an event is its index in the store; `WorkflowView`
  says what it is. Its properties quantify over the logs of `MCWorkflowView`, so
  each delivery order is explored once and judged for every log. The proofs are
  for any logs with what `main.py` guarantees (`LogsAssumption`): the envelopes of the
  graph come from one task; `active` is sent for the clone alone and before anything
  else (main.py:967); and a node reports once, since a thread has one stream
  (main.py:907, 988, 1104) and the answer to a question goes to `ainvoke`
  (main.py:1233), which reports nothing.
* **Postgres** is external. Assumed of it: read committed isolation, the upsert
  locks its row until the transaction ends, a failed transaction leaves nothing.
* **The page.** `useReview` and `useCriticalFindings` are one machine. A
  *chain* is a sequence of fetches with a timer in between, a *shot* a single
  fetch by `refresh()`. `overtaken` says that the last switch left an answer
  or a POST under way, or a timer that no ref knows; a later switch in a quiet moment clears
  it. `preempted` says that a refresh cancelled the retry of the review that is open;
  a switch clears it. The code defends against neither (see the divergences), so
  neither a late answer nor a cancelled retry violates a property: the first is the
  premise of three parts of `PageIsTrue`, the second a permitted outcome of two.
* **Eviction.** The in-memory stores drop the oldest thread when there are too
  many. `ChatStream` has one thread, and `Evict` is the moment at which others
  push it out: its list goes as a whole and grows again without its past.
* **Paths and texts.** A path is its directories and its name, a name the parts
  the rules test (`FileSelection`). A report is the sequence of its lines, each
  with what it says rather than how (`ReportContent`); a summary is a sequence
  of pieces, one of which may be a TL;DR heading of the model's own. Finding ids
  are the hashed fields themselves: collisions of the hash are not modelled. A
  list of findings that is not one of objects is `sound = FALSE`; where it is
  first looked into is where the code raises. Only the first five per-file
  summaries are joined in the code; the trees of the run have fewer.
* **Left out of the modelled handlers**: the 503/404 answers for agents and
  stores that are not configured; log lines.

## Runs

The runs finish in seconds to about a minute and a half; `page`, with five million
states, takes longest. Deadlock is not checked because every
component may legitimately stop: the graph at END or at an unanswered question,
a thread when its tasks are done, the bounded environments when their bound is
used up.

| Run | Bounds | Shows |
|---|---|---|
| `graph` | 3 roles, MAX_CYCLES 3 (the code's value), every scope, both modes | `LoopIsBounded`, `RerunsAreAskedFor` (no pass is run unasked and no context outlives its rerun; which answers the code takes for a rerun is the code's choice, see bare `rerun` below), `ReportCoversScope`, `AmbiguityWasAsked`; liveness `ComesToRest`; refinement `ImplementsContract` |
| `lifecycle` | 2 resumes, MAX_CYCLES 3, one restart, the user writes only while no task runs | `RegistryTracksTask`, `SnapshotLifetime`, `TerminalEnvelopes`, `ReportIsDelivered`, `NoticesAreTrue`; a handler left in the table belongs to a running, failed or stopped invocation (`HandlersAreDropped`); every task ends (`EveryTaskEnds`); refinement `ThreadImplementsContract`: all tasks together are one chain of invocations |
| `per_file` | 4 files, cap 3, concurrency 2 | `NoPermitIsLost`, `IndicesFollowCompletion`, `CountersAgree` (the counters, the envelopes and the log line); liveness `PassReturns` |
| `exploit` | 2 handlers, 4 requests, 3 findings and a minor one, cap 2, one upsert | `ServedInSequence`: cap and idempotency when requests do not overlap; `OverrunIsBounded`: by how much overlapping ones overshoot; `NoLostUpdate` |
| `chat` | 1 tab that comes and goes, 2 producers, 5 events out of 5 logs, 1 message, 1 eviction or broadcast cut short | `ReplayMeetsLive`: replay and live meet without gap or duplicate, a late tab sees all that is kept; `LiveInProducerOrder`; `OpenTabsAreServed`: an open tab is never lost to the hub; `SettledStays`: a finished row never starts again; `CaughtUpDrawsTheLog`: order of delivery does not show once all is there |
| `dependency` | 2 manifests, 3 packages, 2 advisories, batches of 2 (1000 in the code) | `FindingsAreExact` (sound, complete for what was answered, in order), `VerdictIsEarned` (a clean bill claims nothing beyond the packages answered for and says what failed; passed means harmless); liveness `PassEnds` |
| `store` | 2 tasks, 1 reader, 2 threads, pool of 2 (5 in the code), batches of 2 (100) | `VectorsAreOwn`: a vector is of its row's text, a backfill reaches its own findings; `ReadsOneSave`; refinement `SavesAreAtomic`; liveness `EveryoneIsServed` |
| `page` | 2 reviews, 3 selections, 2 refreshes, 1 error, 2 retries (5 in the code) | `PageIsTrue`: unless the last switch left something under way, only the open review is shown, a pending timer is its own, and it loads exactly while its chain is alive or a refresh has cancelled its retry; the page is left empty only after the retries, an error or such a refresh |
| `trail` | 10 pull requests, 7 trees, 7 answers, 2 files per role, 4 files per tree, 2 passes, cap of 2 exploits, 3 clicks | `ReportAndRowAgree`: the report and the row tell the same severities, counts and findings; `PanelIsServed`: each panel entry does what it shows; `TldrIsGrounded`: the TL;DR adds and takes nothing away; `RefusalsMatchScope`: what the validator turns away for its files is outside the scope of the three reviewers of code, save under `gen/`; `EveryFileIsAccountedFor`: each file that a role matches is read, lost to a failed call, left out for a listed reason, or over the cap, and only the last is said |

A property of the table that is a conjunction keeps its parts as definitions of
their own, each with its comment (`CountersAgree`, for instance, is
`CountsReconcile` and `LogStaysWithinTotal`). `TypeOK` documents the types of
a module and is what the proofs start from; TLAPS proves it, no run spends time
on it.

**Why the bounds are enough.** Three roles give every partial order of finishing
and one bystander to a pair. MAX_CYCLES 3 gives a first pass, a rerun that may
ask again and the pass at the cap; two resumes answer both questions. Two
resumes and a run are enough for every pairwise race on a thread. In `exploit`
the cap plus two requests can be reached by two handlers. Two
producers give two broadcasts crossing one replay. One tab is enough in `chat`:
a tab reads only its own connection and the stores, and what another tab adds is
the time a broadcast takes, which a producer may take anyway; the five logs hold
the beginning, the reviewers and the end of a review. In `trail` every rule of
the validator, the classifier and the caps has an input on each side, and the
answers have each spelling of a severity, each kind of line, a duplicate place,
a concern without findings, prose, and findings that are not objects; two passes
make one review supersede another, and two files over a cap of two with a third
left out make the cap bite. Three packages over batches of two give a full
batch, a boundary and a partial one. Two tasks and a reader over two connections
make somebody wait, and a save with more findings than a batch of `embed_pending`
cuts it off. Three selections let the user leave a review and come back. The
artificial bounds are `MaxCrashes`, `MaxPosts`, `MaxSaves`, `MaxEvents`,
`MaxMessages`, `MaxMishaps`, `MaxSelections`, `MaxShots`, `MaxErrors`, the set
`Resumes` (each resume task is used once) and `OneAtATime`; the rest is the
program's own.

**Symmetry** is used in runs without liveness: resume tasks, handlers, findings,
producers and reviews on the page are interchangeable.

**Fairness.** `ReviewGraph`, `ReviewLifecycle` and `PerFileReviewer` assume weak
fairness of the steps of each coroutine and of the clone thread. The event loop
resumes every ready coroutine; git, HTTP and LLM calls end with a result or a
timeout; `asyncio.Semaphore` wakes its waiters in order. `DependencyReviewer` has weak
fairness of its one coroutine (every request has a timeout). `ReviewStore` has
strong fairness of each step of a task and a reader: the pool and the row lock
are taken and given back by others in between, and both asyncpg's pool and
Postgres serve their waiters in order, so a waiter is not passed over for ever.
`ChatStream`, `ReviewPage` and `FindingTrail` state no liveness. Nothing is assumed of
people: no answer, no Stop, no message, no crash. `ReviewerRaises` has no
fairness, an error never has to happen.

## Where code and documentation differ

Three runs are expected to be violated; each finding in `PROJECT.json` quotes the
statement that TLC refutes.

| Run | The code | The statement |
|---|---|---|
| `find_tokens` (`TokensAreCumulative`) | a resume's totals replace the earlier ones | `main.py:1266-1268`: totals are cumulative |
| `find_resume_saved` (`ResumeIsPersisted`; 2 resumes, MAX_CYCLES 2, the user writes at any time) | a run or resume that is still settling reads the row's state before an await and saves it over the finished row of a later resume (`main.py:914`) | `main.py`, `_resume_review`: it saves so that the row does not stay at the snapshot of the run |
| `find_reads_code` (`EveryPassReadsCode`) | a rerun after a question has no snapshot, all reviewers return `{}` | repo-mode.md: every re-review pass has it |

Met while modelling and visible in the models, without a run of their own:

* `_resume_review` never announces completion (`main.py:1166` says it does);
  `__done__` is also sent at a pause; a failed review sends no terminal
  envelope at all (`SuperstepRaises`, `StreamEnds`).
* `chat_ws` does not wait for the task of an earlier message (`main.py:654`), so with
  overlapping answers two resumes answer one question. `OneAtATime` keeps the run
  `lifecycle` to users who wait; what overlap does to the row is `find_resume_saved`.
* A resume's upsert clears `exploit_proposals` (`SaveReview` of
  `ExploitEndpoint`).
* A cancelled or failed invocation leaves its token handler behind until the next
  restart (`main.py:911-912` wants none to accumulate): `HandlersAreDropped` lists
  these two exits. With overlap a task drains the handler of another one too, and
  what that one counts afterwards is in no row (`main.py:913`).
* A file whose findings are not dicts raises without a `file_done`
  (`FindingsMalformed`); the log line of a finished pass omits skipped files
  (`LogStaysWithinTotal`).
* A failed artifact call is stored as `approved` with no artifact
  (`GenerateArtifact`); a second token bucket of a finding replaces the first.
* After a rerun that cleared a concern `_needs_clarification` still sees the
  older review and may ask again (`Ambiguous`).
* A socket whose handler ends outside the `except` stays in the hub
  (`HandlerRaises`); a message said during the replay arrives twice. Stop inside
  a broadcast leaves the sockets after it without the item (`CancelledAtSend`).
* A live event can overtake the replay of older ones, although ui.md:173-174
  says the replay comes "in order, before any new live events": the socket is
  registered first (`Connect`). `CaughtUpDrawsTheLog` is why the diagram does
  not suffer; the per-file bars, which keep the last envelope, may.
* A bare `rerun` is counted as an approval and goes to aggregate
  (`RouteAfterDecision`, coordinator.py:50, which routes on the context alone).
  architecture.md:123, the docstring of `_parse_resume` (review_decision.py:42-43) and
  api.md:287 say that it approves a re-review; the docstring of the router
  (coordinator.py:49) and repo-mode.md:127 speak of context. The documents disagree, so no
  property takes a side: `RerunsAreAskedFor` would hold of either router.
* Stop during the clone leaks the directory (`CancelArrives` at the clone),
  although repo-mode.md:142-144 says it is removed when cancelled.
* Overlapping exploit requests exceed the cap of architecture.md:157
  (`OverrunIsBounded` says by how much).
* The refresh that `__done__` triggers cancels the retry timer of the page
  (`RefreshOf`), so when the row is written a moment later the report stays
  empty, although ui.md:182-186 says that the retry handles that race. `preempted`
  is this case, and `LeftEmpty` the page that results.
* A late answer for the review that was open before is shown over the new one
  (`ShownAfter`), although ui.md:188-190 says that it does not show. `overtaken` is
  this case.
* A dropped advisory leaves no note, so a clean bill may follow from an
  incomplete scan, and so may packages that OSV did not answer for
  (`CleanMeansClean` lists what a clean bill does not exclude). `package.json`,
  `requirements-dev.txt` and others are in neither table of the scanner,
  although dependency.py:45-47 says that the rest is listed as unsupported.
* `.env` is a vendored *directory* name to the classifier, and it tests the file's
  own name too (`IsVendored`, file_classifier.py:163): the configuration reviewer
  never reads a `.env`, although repo-mode.md:101-115 lists it and its prompt
  (configuration.py:49) looks for committed ones.
* A file over the size cap is dropped without a word, although repo_fetcher.py:35
  promises a note. A file whose call failed, or that is empty, leaves no trace in the
  review either, whose summary may say "no findings" (base_reviewer.py:454-505):
  `LeftOut` and `filesLost` name them, `EveryFileIsAccountedFor` says that there is
  no further way for a file to go missing.
* Code under `deploy/` or `k8s/` is infrastructure, which the injection and OWASP
  reviewers skip and whose patterns the configuration reviewer lacks: no model
  reads it (`InScope`).
* A pull request that changes only `requirements.txt` is turned away as
  documentation (validator.py:27 counts `.txt`), one that changes only lock files as
  generated, although these are manifests of the dependency reviewer:
  `RefusalsMatchScope` is about the other three. Code under `gen/` is turned away in a pull request and read
  in a repository (`ReadAndRefused`).
* `render_review` and the prompt of the formatter raise on findings that are not
  objects (`RenderingRaises`), although report_formatter.py:24-26 says that the
  formatter never blocks publishing. The formatter looks at every pass, so it may
  do so for a review that the report no longer shows.
* The TL;DR and its judge are given the findings of every pass, also when the
  last one found nothing (`Grounds`); a TL;DR heading in a reviewer's summary makes
  the splice remove the rest of that section (`StripExistingTldr`).
* A severity spelled `Critical` is critical in the row and the panel, but info in
  the counts and missing in the callout (`Bucket`, `StoredSeverity`). The overall
  severity is the reviewers' own and may be below that of a finding.
* The critical finding behind one of lower severity with the same id gets a button
  that answers 400 (`Response`, last disjunct of `PanelIsServed`).
* The summary of a repository pass says "no findings" when its findings come
  without summaries (`RepoReview`).
* Findings without text are never embedded, come first in every batch of
  `embed_pending` and may fill it (`Selected`).

## Proofs

All theorems hold for every value of the constants that the `ASSUME`s of the
modules allow, and rest on nothing else; TLC evaluates the `ASSUME`s in the runs
of the same module. Every safety property that a passing run checks, refinements
included, is a theorem; what only TLC checks is liveness. `PassesAreBounded` is a
theorem about overlapping tasks without a run of its own.

| Module, for | Theorem | Statement |
|---|---|---|
| `ReviewGraphProofs`: any finite non-empty `Roles`, positive `MAX_CYCLES`, both values of `Checkpointer` | `TypeCorrect` | `Spec => []TypeOK` |
| | `LoopBound` | `Spec => []LoopIsBounded` |
| | `RerunsAreAsked` | `Spec => []RerunsAreAskedFor` |
| | `ConcernsAreAsked` | `Spec => []AmbiguityWasAsked` |
| | `ReportIsComplete` | `Spec => []ReportCoversScope` |
| | `GraphImplementsContract` | `Spec => ImplementsContract` |
| `ReviewLifecycleProofs`: any set of resume tasks, positive `MAX_CYCLES`, both values of `Checkpointer`, any number of restarts | `TypeCorrect` | `Spec => []TypeOK` |
| | `PassBound` | `Spec => []PassesAreBounded` |
| | `RegistryIsTrue` | `Spec => []RegistryTracksTask` |
| | `SnapshotIsHeld` | `Spec => []SnapshotLifetime` |
| | `EndingsAreProper` | `Spec => []TerminalEnvelopes` |
| | `HandlersAreDrained` | `Spec => []HandlersAreDropped` |
| the same, one task at a time | `ReportOnce` | `OneAtATime => (Spec => []ReportIsDelivered)` |
| | `ChatIsTrue` | `OneAtATime => (Spec => []NoticesAreTrue)` |
| | `LifecycleImplementsContract` | `OneAtATime => (Spec => ThreadImplementsContract)` |
| `PassAndTrailProofs`, of `PerFileReviewer`: any finite set of files, any cap, any concurrency | `TypeCorrect` | `Spec => []TypeOK` |
| | `PermitsAreKept` | `Spec => []NoPermitIsLost` |
| | `NumbersFollowCompletion` | `Spec => []IndicesFollowCompletion` |
| | `CountersReconcile` | `Spec => []CountersAgree` |
| `PassAndTrailProofs`, of `FindingTrail`: any requests, paths, trees and answers, any number of passes and clicks, any caps | `RowAgrees` | `TrailSpec => []ReportAndRowAgree` |
| | `PanelServes` | `TrailSpec => []PanelIsServed` |
| | `TldrAddsToReport` | `TrailSpec => []TldrIsGrounded` |
| | `RefusalsAreOutOfScope` | `TrailSpec => []RefusalsMatchScope` |
| | `FilesAreAccountedFor` | `TrailSpec => []EveryFileIsAccountedFor` |
| `ExploitEndpointProofs`: any finite set of handlers, any findings, cap and bounds | `OvershootBound` | `Spec => []OverrunIsBounded` |
| | `SequenceIsServed` | `Spec => []ServedInSequence` |
| | `NoAppendIsLost` | `Spec => NoLostUpdate` |
| `ChatStreamProofs`: any tabs and producers, any bounds on events, messages and mishaps | `TypeCorrect` | `Spec => []TypeOK` |
| | `ReplayMeetsLiveAlways` | `Spec => []ReplayMeetsLive` |
| | `LiveKeepsProducerOrder` | `Spec => []LiveInProducerOrder` |
| | `OpenTabsStayServed` | `Spec => []OpenTabsAreServed` |
| the same, any logs of a run | `RowsStaySettled` | `Spec => []SettledStays` |
| | `CaughtUpTabsAgree` | `Spec => []CaughtUpDrawsTheLog` |
| `ReviewStoreProofs`: any sets of tasks, readers and threads, any saved states, any pool and batch size | `TypeCorrect` | `Spec => []TypeOK` |
| | `VectorsBelong` | `Spec => []VectorsAreOwn` |
| | `ReadsAreWhole` | `Spec => []ReadsOneSave` |
| | `StoreImplementsContract` | `Spec => SavesAreAtomic` |
| `ReviewPageProofs`: any threads, any number of retries, any bounds | `TypeCorrect` | `Spec => []TypeOK` |
| | `PageStaysTrue` | `Spec => []PageIsTrue` |
| `DependencyReviewerProofs`: any manifests and contents, packages, advisories, answers, scores and batch size | `TypeCorrect` | `Spec => []TypeOK` |
| | `FindingsExact` | `Spec => []FindingsAreExact` |
| | `VerdictEarned` | `Spec => []VerdictIsEarned` |

*The graph.* `LoopIsBounded` alone is not inductive: nothing in it
ties the passes to the approvals. `LoopInv` says how far `passes` may be ahead
of `cycle_count` at each node, and that a question is open only where one more
approval still fits under the cap. `RerunsAreAskedFor` is part of it: the
reviewers are entered again only right after an answer to the question about the
last pass, and a context is set exactly on the way into such a rerun. `AskInv`
says why a report with an ambiguous review can exist: at every node from the decision on, either no
review is ambiguous, or this pass was asked about, or none could be. That the
report covers the scope needs two facts about the history that no node has at
hand: the first pass left a review of each role in scope, since it has a snapshot
whenever it needs one (`ScopeInv`), and what is appended later is newer
(`OrderInv`), so the last review of a role is the one with the highest pass.

*The refinement of the graph.* `gbar` forgets buffered writes, scope, mode, snapshot, report
and questions and keeps of the reviews whether one is ambiguous. `ReviewerReturns`
and `SnapshotRemoved` are stutters, `RenderingRaises` is the contract's failing
superstep; `ReviewersJoin` is the contract's atomic
reviewer superstep because folding the updates can only add ambiguity
(`FoldedAmbiguous`), and adds none when every update is empty. There is one
lemma per kind of move (`Moves`, `ReviewPass`, `DecideStep`, `AnswerStep`), and
`StepContract` has one step per action.

*The lifecycle.* Several tasks may drive one thread, each from the checkpoint it
happened to load, so no fact about one graph state can lean on the task that
holds it. `Sound` is a fact about a graph state by itself (passes against
approvals, node by node); `StatesAreSound` says it of every place that keeps one:
each task, the checkpoint and the row. It gives the types and `PassesAreBounded`, with
overlap. `RunInv` is about the run task alone, since no resume task touches the
registry, the directory or the terminal envelopes (`OthersKeepRun`): it fixes at
each place of the task what is on disk and which envelopes are out.
`HandlerInv` says whose token handler may be in the table: one that is about to
drain it, or that left by one of the two exits that do not. `QuestionInv` says of an
open question without a notice which task will send it.
The last three theorems need `OneAtATime`, the constant of the run
`lifecycle`: the user writes only while no task runs. With overlap they are false,
as described under the divergences, so this is the hypothesis under which the
code keeps its word and not one that makes the proof easy. `SerialInv` uses it
once, for `Alone`: at most one task is active. Then that task is where the
checkpoint is (`InStepInv`), nobody is left who
could deliver a published report again (`PublishedInv`), and what was published is
saved or about to be (`SavedInv`). The refinement follows from the same facts: the
state of the thread is the newest checkpoint (what the run task holds if there is
no checkpointer), a committed superstep or answer starts from it, and stopping,
failing, saving and restarting leave it alone. With overlap two tasks take the
thread back to where the second one started.

*The per-file pass.* `NoPermitIsLost` is inductive together with the types: a
file task enters or leaves the coroutines inside exactly when it takes or
releases a permit, so the two terms of the sum move by one in opposite
directions. `NumberedInv` ties the numbers to the log: while the pass gathers,
the log holds one envelope more than `index` counts, which makes the position of
a `file_done` its number; and only a file that is past its emission has one,
which makes it the only one. `CountInv` adds the accounts: an outcome is known
exactly from the file's state, `index` is the successes and failures announced,
successes are the files that were parsed or empty, and the line of the log
(`Slots`, recursive over the log) follows each append.

*The exploit endpoint.* `OverrunIsBounded` is inductive as it stands: a handler is
admitted only on a row below the cap, and then the number of admitted handlers
alone is at most the number of handlers; one that appends is admitted no longer.
`ServedInSequence` is not: between its check and its append a handler relies on a
row it read earlier. `AloneInv` adds what makes that safe without overlap: at most
one handler is on the way, and an admitted one still has room and no record of
its finding (`HasRoom`), since the only other writer, an upsert, empties the
list.

*The stream.* The property is about a tab that has caught up, the invariant about
every moment before. For each tab, `LiveIsOwed` says that an item stored since it
connected has been received, or is in a broadcast under way that still has the
tab to serve, or was cut off; `Replayed`, that the replay is the log between what was
evicted and the cursor; `LiveOnce`, that what came live is not owed again. What
makes the order of one producer safe is `SendInv`: a producer has one broadcast
under way, and it is of the last event it stored.

*The view.* The reducer is a fold over what a tab received, in an order that may
differ from the log's. `Shows` says of a view which *set* of envelopes of the
graph it was folded from: a row is finished exactly when its terminal envelope is
in the set, and is drawn accordingly. It is preserved by one more
envelope, provided that a finished row is not announced as running afterwards; only
`clone_repo` is ever announced as running, by the first event of a run. That
this event comes first to a tab that gets it at all is `TabInOrder`, which needs one
invariant more about the stream, `FirstSent`: a tab that found the list not empty
got its first event in the step in which it connected. Both theorems follow: an
envelope in the set stays in it, and two tabs with the same set draw the same.

*The trail.* The state is small and the functions on it are long, so the invariant
is easy to keep and hard to use. `TrailInv` says that reviews are typed and, after one pass,
one per role (`ReviewsOK`), what each reviewer of the last pass read and lost and
whether it said that it was cut (`ReadOK`), that the verdict is one the rules allow
(`VerdictOK`), that the report is `RenderReview` of the reviews or that with a
TL;DR spliced in, written from them (`ReportOK`), and that the row is
`ReviewRow` of both with proposals of different findings, no more than the cap
(`RowOK`). The rest is about what the functions compute for every input.
`RowAgrees`: each section of the report keeps the findings of its review (sorting
by severity is keeping each severity in turn, `SortedFacts`), so findings and rows are
counted review by review (`FlattenPart`, `KeepCompare`); the counts add up since
the four buckets partition the findings (`BucketsPartition`, `FlattenCounts`), and a bucket is
contained in its stored severity (`BucketIsStored`). `TldrAddsToReport`: a report
either has no TL;DR heading, and is a part before and a part after the block, or
has one in a summary, and is what precedes it, what is cut, and what starts at the
next heading (`StripNothing`, `StripToNext`, `StripToEnd`); what is cut lies in one
section (`OwnIsInSection`). `PanelServes`: of the findings with one id the endpoint takes the
first, and the panel lists the critical ones (`EntryServes`).
`RefusalsAreOutOfScope`: each reason to turn a path away makes the
classifier put it in a category every reviewer of code skips, or its name fits no
pattern (`AutogenIsSkipped`, `DocFileIsSkipped`). `FilesAreAccountedFor`: what a role
takes on is what it read and what it lost; a listed file that matches and is not
taken on is of a skipped category or over the cap (`LeftOutIsOutOfScope`), and the
paths of a tree differ, so a pass over n files takes on n.

Two assumptions on the inputs carry these proofs. `RequestsAssumption`: a name
is split as it is written (the name `go.sum` has the ending `sum`), and the listed
files of a snapshot have different paths, which a file system guarantees.
`AnswersAssumption`: an answer is typed, and no model writes, as its summary, the note
that the code adds to a pass that was cut; a reader could not tell them apart.

*The store.* A vector stays with its text because an id is given once
(`RowsInv`) and a row to be embedded, if it is still there, has the text it had
when selected (`VectorInv`): a save deletes rows and inserts new ones, it never
rewrites one. `ContentInv` says that the tables hold one save of a thread as a
whole, its findings numbered without gaps from some id on; `Reading` follows a
reader from its first query to its second, until a commit overtakes it. For the refinement
only `ReplaceAndCommit` moves the abstract state; the other steps are stutters, since
what a transaction has done and not committed is not in the tables. `PoolInv` counts the coroutines that hold
a connection, which gives the bound on `free`.

*The page.* `OwnInv` is what `overtaken` excludes, stated for all that is under
way and not only for what is shown: every live fetch, timer and POST is for the
open thread, and the only live chain is the newest. A switch establishes it afresh
when nothing is left under way, which is why it can be conditional on the last switch only.
`ExhaustedInv` keeps for the open chain why it may be over, `PreemptedInv` that a
chain marked as cancelled is over.

*The dependency reviewer.* `ScanInv` says the deps are `Found(parsed)`, `QueryInv`
that an answer is OSV's own and that whoever was asked for is answered or recorded,
`FindInv` that findings are `Rendered` from all of it. The rest is about the
data: `FlattenKeeps` and `DistinctKeeps` say of the joined and deduplicated
lists that nothing is lost, doubled or moved (`Placed`, `KeptWell`).
`FirstOfJoined` then identifies the first place of a package in the joined
manifests with its place in the first manifest that pins it, which is the order of the deps
(`DepsWell`) and so of the findings (`Ordering`).

*Recursion.* No module has a RECURSIVE operator. Where a definition is a recursive
function (`Slots`, `Distinct`, `ViewOf`, `Keep`, `CountSum`, the library's `FlattenSeq`), what it computes is
proved for every input without the induction theorems, whose operator parameter
no installed prover instantiates: a set of counterexamples that is not empty
has a least element (`LeastNumber`, from `WFMin` of the library), and the step of the
recursion refutes it. That the function exists is shown the same way
(`SlotsExist`, `KeptExists`, `JoinExists`, `FoldExists`), for the trail once for all of
them (`RecursionSolved`); `SequenceInduction` is the same argument as a rule about a *set* of
sequences. `Keep(s, S)` takes a set where `SelectSeq` takes an operator, since an
operator argument cannot be reasoned about.

*Only model-checked.* Liveness (`ComesToRest`, `EveryTaskEnds`, `PassReturns`,
`PassEnds`, `EveryoneIsServed`) is out of this prover's reach: it needs fairness
and ENABLED. The three findings are
counterexamples, which TLC shows.

## Not modelled, and why

Report wording and layout, prompts and model choice are data. The exploit section
of the renderer is reached only with proposals in the graph's state, and no node
puts any there. The parsers of the manifests turn text into packages: what they
yield is a choice in `DependencyReviewer`. The GitHub, OSV and embedding
clients are I/O whose outcome is a choice in the caller. Listing and search
queries only read. Evals and benchmarks run offline. The settings are CONSTANTS.

## Plan

Done, in order of importance: graph, contract and refinement; lifecycle;
per-file; exploit; stream; page; dependency reviewer; store and its contract; the
view of a tab; eviction; file selection, validator, report and the trail
of a finding; a theorem for every safety property that a run checks; that a
thread implements the contract of the graph.

Worth modelling after that: `ReviewStore`, `ReviewLifecycle` and
`ExploitEndpoint` on one row, so that the append of a proposal meets the upsert
of a save at the level of statements; `summarise` of the per-file bars; the
listing hooks of the web UI.
