--------------------------- MODULE PerFileReviewer ---------------------------
(***************************************************************************)
(* LLMPerFileReviewer._run_repo of src/src/agents/base_reviewer.py: one       *)
(* reviewer's pass over a repository snapshot.  Every matched file is a        *)
(* coroutine under asyncio.gather; a semaphore bounds how many are inside;     *)
(* each announces its end as a file_done envelope in the ProgressStore; the     *)
(* gathered outcomes are counted into one terminal envelope.                   *)
(*                                                                            *)
(* The four reviewers share nothing but the log they append to, so one          *)
(* reviewer is modelled.  Its review joins the graph in ReviewGraph.            *)
(***************************************************************************)
EXTENDS FileSelection, FiniteSets

CONSTANTS
  Files,                          \* request.repo_files that match PATH_PATTERNS
  MAX_CONCURRENT_FILES_PER_AGENT  \* settings: coroutines inside the semaphore

ASSUME FilesAssumption == IsFiniteSet(Files)
ASSUME ConcurrencyAssumption == MAX_CONCURRENT_FILES_PER_AGENT \in Nat

VARIABLES
  snapshot,   \* request.snapshot_dir exists when the pass starts
  in_scope,   \* the files left by the category filter
  matched,    \* those under the cap: the ones that are scanned
  empty,      \* those that read as "": empty, unreadable or refused
  pc,         \* "start", "gather", "returned" or "cancelled"
  file,       \* [Files -> where its coroutine is suspended]
  outcome,    \* [Files -> what gather() got from it]
  permits,    \* the semaphore's value
  index,      \* index_counter["n"]
  events      \* this role's file_progress envelopes in the ProgressStore

input == <<snapshot, in_scope, matched, empty>>
vars == <<input, pc, file, outcome, permits, index, events>>

\* max(1, settings.MAX_CONCURRENT_FILES_PER_AGENT)
Permits == IF MAX_CONCURRENT_FILES_PER_AGENT = 0
           THEN 1 ELSE MAX_CONCURRENT_FILES_PER_AGENT

FileStates == {"waiting", "calling", "emitting", "ended"}
Outcomes == {"none", "parsed", "empty", "raised"}

Total == Cardinality(matched)

StartedBatch == [state |-> "started_batch", total |-> Total]

FileDone(f, idx, failed) ==
  [state |-> "file_done", path |-> f, index |-> idx, failed |-> failed]

Counted(what) == Cardinality({f \in matched : outcome[f] = what})

FinishedWithoutSkipped ==
  [state |-> "finished", processed |-> Counted("parsed"),
   failed |-> Counted("raised"), skipped_empty |-> 0, total |-> Total]

\* The terminal envelope: the gathered outcomes, sorted into three counters.
Finished ==
  [state |-> "finished", processed |-> Counted("parsed"),
   failed |-> Counted("raised"), skipped_empty |-> Counted("empty"), total |-> Total]

\* matched[:cap]; the order of the listing is immaterial.
Init ==
  /\ snapshot \in BOOLEAN
  /\ in_scope \in SUBSET Files
  /\ matched \in SUBSET in_scope
  /\ Total <= MAX_FILES_PER_AGENT
  /\ Total < MAX_FILES_PER_AGENT => matched = in_scope
  /\ empty \in SUBSET matched
  /\ pc = "start"
  /\ file = [f \in Files |-> "waiting"]
  /\ outcome = [f \in Files |-> "none"]
  /\ permits = Permits
  /\ index = 0
  /\ events = <<>>

-----------------------------------------------------------------------------

\* The snapshot is gone: {} is returned and nothing is announced.
SkipWithoutSnapshot ==
  /\ pc = "start"
  /\ ~snapshot
  /\ pc' = "returned"
  /\ UNCHANGED <<input, file, outcome, permits, index, events>>

StartBatch ==
  /\ pc = "start"
  /\ snapshot
  /\ events' = Append(events, StartedBatch)
  /\ pc' = "gather"
  /\ UNCHANGED <<input, file, outcome, permits, index>>

IndexBeforeIncrement == index

\* Under index_lock, which no await separates from its use.
NextIndex == index + 1

\* _emit_file_done up to the broadcast: the envelope is in the store.
EmitFileDone(f, failed) ==
  /\ index' = NextIndex
  /\ events' = Append(events, FileDone(f, NextIndex, failed))
  /\ file' = [file EXCEPT ![f] = "emitting"]

\* Past `async with semaphore`: the file is read at once; without content its
\* end is announced, else the LLM is called.
EnterSemaphore(f) ==
  /\ pc = "gather"
  /\ f \in matched
  /\ file[f] = "waiting"
  /\ permits > 0
  /\ permits' = permits - 1
  /\ IF f \in empty
     THEN /\ EmitFileDone(f, FALSE)
          /\ outcome' = [outcome EXCEPT ![f] = "empty"]
     ELSE /\ file' = [file EXCEPT ![f] = "calling"]
          /\ UNCHANGED <<outcome, index, events>>
  /\ UNCHANGED <<input, pc>>

\* The answer is parsed, or the call or the parser raises; either is announced.
LlmAnswers(f) ==
  /\ pc = "gather"
  /\ file[f] = "calling"
  /\ \E result \in {"parsed", "raised"} :
       /\ outcome' = [outcome EXCEPT ![f] = result]
       /\ EmitFileDone(f, result = "raised")
  /\ UNCHANGED <<input, pc, permits>>

ReleasedUnlessRaised(f) == IF file[f] = "calling" THEN permits ELSE permits + 1

\* `async with` gives the permit back on every way out.
Released(f) == permits + 1

\* The parsed findings are not a list of dicts: tagging them raises, after the
\* except clause that announces failures.
FindingsMalformed(f) ==
  /\ pc = "gather"
  /\ file[f] = "calling"
  /\ outcome' = [outcome EXCEPT ![f] = "raised"]
  /\ file' = [file EXCEPT ![f] = "ended"]
  /\ permits' = Released(f)
  /\ UNCHANGED <<input, pc, index, events>>

\* The broadcast returned and the coroutine ends.
LeaveSemaphore(f) ==
  /\ pc = "gather"
  /\ file[f] = "emitting"
  /\ file' = [file EXCEPT ![f] = "ended"]
  /\ permits' = Released(f)
  /\ UNCHANGED <<input, pc, outcome, index, events>>

\* gather() returned every outcome: the terminal envelope and the review.
FinishBatch ==
  /\ pc = "gather"
  /\ \A f \in matched : file[f] = "ended"
  /\ events' = Append(events, Finished)
  /\ pc' = "returned"
  /\ UNCHANGED <<input, file, outcome, permits, index>>

\* Stop, or a sibling reviewer that raised: gather() cancels every coroutine
\* and none of them announces it (CancelledError is not an Exception).
CancelPass ==
  /\ pc = "gather"
  /\ pc' = "cancelled"
  /\ UNCHANGED <<input, file, outcome, permits, index, events>>

FileStep(f) ==
  EnterSemaphore(f) \/ LlmAnswers(f) \/ FindingsMalformed(f) \/ LeaveSemaphore(f)

Next ==
  \/ SkipWithoutSnapshot
  \/ StartBatch
  \/ \E f \in Files : FileStep(f)
  \/ FinishBatch
  \/ CancelPass

Spec == Init /\ [][Next]_vars

\* The loop schedules every coroutine, a semaphore wakes its waiters in order
\* and an LLM call ends with its answer or its timeout.
Fairness ==
  /\ WF_vars(SkipWithoutSnapshot \/ StartBatch \/ FinishBatch)
  /\ \A f \in Files : WF_vars(FileStep(f))

FairSpec == Spec /\ Fairness

-----------------------------------------------------------------------------

\* The type of every variable; the semaphore never exceeds its initial value.
TypeOK ==
  /\ snapshot \in BOOLEAN
  /\ in_scope \in SUBSET Files
  /\ matched \in SUBSET in_scope
  /\ empty \in SUBSET matched
  /\ pc \in {"start", "gather", "returned", "cancelled"}
  /\ file \in [Files -> FileStates]
  /\ outcome \in [Files -> Outcomes]
  /\ permits \in 0 .. Permits
  /\ index \in Nat

Inside == {f \in matched : file[f] \in {"calling", "emitting"}}

\* Permits are neither lost nor invented: the semaphore's value and the
\* coroutines inside always add up to the configured concurrency, so at most
\* that many LLM calls are open, whatever raises (`async with semaphore`).
NoPermitIsLost == permits + Cardinality(Inside) = Permits

Done == {i \in DOMAIN events : events[i].state = "file_done"}

\* "Tests assert each index is 1..N exactly once": in the log the file_done
\* envelopes follow started_batch, number themselves 1, 2, ... in the order
\* they are stored, and no file has two, however the coroutines interleave.
IndicesFollowCompletion ==
  /\ \A i \in Done : events[i].index = i - 1
  /\ \A i, j \in Done : events[i].path = events[j].path => i = j

\* "Invariant: processed + failed + skipped_empty == total", which is what the
\* UI's done (N/total) label relies on; and the envelopes agree with it: each
\* file counted as processed or skipped was announced as a success, and none
\* was announced as failed that is not counted as failed.
CountsReconcile ==
  \A i \in DOMAIN events : events[i].state = "finished" =>
    LET e == events[i] IN
    /\ e.processed + e.failed + e.skipped_empty = e.total
    /\ Cardinality({j \in Done : ~events[j].failed}) = e.processed + e.skipped_empty
    /\ Cardinality({j \in Done : events[j].failed}) <= e.failed

SnapshotStepAdding(slot, e) ==
  CASE e.state = "started_batch" -> [slot EXCEPT !.total = e.total]
    [] e.state = "file_done"     -> [slot EXCEPT !.done = @ + 1]
    [] e.state = "finished"      -> [slot EXCEPT !.done = @ + e.processed + e.failed]

\* What format_progress_snapshot does with one envelope of a role ...
SnapshotStep(slot, e) ==
  CASE e.state = "started_batch" -> [slot EXCEPT !.total = e.total]
    [] e.state = "file_done"     -> [slot EXCEPT !.done = @ + 1]
    [] e.state = "finished"      -> [total |-> e.total, done |-> e.processed + e.failed]

\* ... and the role's slot after each envelope of the log.
Slots(log) ==
  LET slot[n \in 0 .. Len(log)] ==
        IF n = 0 THEN [total |-> 0, done |-> 0] ELSE SnapshotStep(slot[n - 1], log[n])
  IN slot

LoggedProgress == Slots(events)[Len(events)]

\* The line the progress log prints never shows more files done than there are,
\* and that of a finished pass is short of the total by the skipped files alone.
LogStaysWithinTotal ==
  /\ LoggedProgress.done <= LoggedProgress.total
  /\ (pc = "returned" /\ snapshot) => LoggedProgress.done + Counted("empty") = Total

\* The counters of the finished envelope, the single envelopes before it and the
\* line of the log tell the same story.
CountersAgree == CountsReconcile /\ LogStaysWithinTotal

\* A pass over a snapshot that exists returns, or was cancelled: no coroutine
\* waits for a permit for ever.
PassReturns == (pc = "gather") ~> (pc \in {"returned", "cancelled"})
=============================================================================
