------------------------ MODULE ReviewLifecycleProofs ------------------------
(***************************************************************************)
(* Theorems of ReviewLifecycle, for any set of resume tasks, any MAX_CYCLES    *)
(* and any number of restarts.                                                *)
(***************************************************************************)
EXTENDS ReviewLifecycle, SequenceTheorems, TLAPS

-----------------------------------------------------------------------------
(* Graph states.  How often the reviewers have run is tied, node by node, to  *)
(* the reruns the human approved; that is what every state a task holds, the  *)
(* checkpoint and the row have in common.                                     *)

BeforeReview == {"validate_request", "notify_rejection", "retrieve_past_context"}

Sound(g) ==
  /\ g \in GraphStates
  /\ g.passes <= MAX_CYCLES
  /\ g.cycle_count < MAX_CYCLES
  /\ g.at \in BeforeReview => g.passes = 0 /\ g.cycle_count = 0
  /\ g.at = "reviewers" => g.passes = g.cycle_count
  /\ g.at = "review_decision" => g.passes = g.cycle_count + 1
  /\ g.at = "interrupt" =>
       g.passes = g.cycle_count + 1 /\ g.passes < MAX_CYCLES /\ Checkpointer

\* A new thread starts from a sound state.
LEMMA StartSound == Sound(GraphStart)
  BY MaxCyclesAssumption DEF Sound, GraphStart, GraphStates, Nodes, BeforeReview

\* Going to a node that puts no bound on the passes keeps a state sound.
LEMMA GotoSound ==
  ASSUME NEW g, Sound(g),
         NEW n \in {"aggregate_results", "format_report", "publish_report", "END", "failed"}
  PROVE  Sound(Goto(g, n)) /\ Goto(g, n).passes = g.passes /\ Goto(g, n).at = n
  BY DEF Sound, Goto, GraphStates, Nodes, BeforeReview

\* A superstep leads from a sound state to a sound one, never takes a pass back,
\* and starts neither from a suspended graph nor from one that has ended.
LEMMA SuccessorSound ==
  ASSUME NEW g, Sound(g), NEW readable \in BOOLEAN, NEW h \in Successors(g, readable)
  PROVE  /\ Sound(h)
         /\ g.passes <= h.passes
         /\ g.at \notin {"interrupt", "END", "failed"}
         /\ g.at = "publish_report" => h.at = "END"
  <1>0. g \in GraphStates
      BY DEF Sound
  <1>1. CASE g.at = "validate_request"
    <2>1. h \in Validate(g)
        BY <1>1 DEF Successors
    <2> QED BY <1>0, <1>1, <2>1 DEF Validate, Goto, Sound, GraphStates, Nodes, BeforeReview
  <1>2. CASE g.at = "notify_rejection"
    <2>1. h \in Reject(g)
        BY <1>2 DEF Successors
    <2> QED BY <1>0, <1>2, <2>1, GotoSound DEF Reject, Sound, GraphStates
  <1>3. CASE g.at = "retrieve_past_context"
    <2>1. h \in Retrieve(g)
        BY <1>3 DEF Successors
    <2> QED BY <1>0, <1>3, <2>1 DEF Retrieve, Goto, Sound, GraphStates, Nodes, BeforeReview
  <1>4. CASE g.at = "reviewers"
    <2>1. h \in Review(g, readable)
        BY <1>4 DEF Successors
    <2>2. CASE h = Goto(g, "failed")
        BY <1>0, <1>4, <2>2, GotoSound DEF Sound, GraphStates
    <2>3. CASE h # Goto(g, "failed")
      <3>1. PICK amb \in BOOLEAN :
              h = [g EXCEPT !.at = "review_decision",
                            !.ambiguous = @ \/ amb,
                            !.passes = @ + 1,
                            !.reviewed = IF readable THEN @ + 1 ELSE @]
        <4>1. (IF readable THEN BOOLEAN ELSE {FALSE}) \subseteq BOOLEAN
            BY Zenon
        <4> QED BY <2>1, <2>3, <4>1, Zenon DEF Review
      <3>2. (g.ambiguous \/ amb) \in BOOLEAN
          BY Zenon
      <3>3. (IF readable THEN g.reviewed + 1 ELSE g.reviewed) \in Nat
          BY <1>0 DEF GraphStates
      <3> DEFINE a == (g.ambiguous \/ amb)
                 v == (IF readable THEN g.reviewed + 1 ELSE g.reviewed)
      <3>4. h = [g EXCEPT !.at = "review_decision", !.ambiguous = a,
                          !.passes = @ + 1, !.reviewed = v]
          BY <3>1
      <3> HIDE DEF a, v
      <3>5. a \in BOOLEAN /\ v \in Nat
          BY <3>2, <3>3 DEF a, v
      <3> HIDE <3>1
      <3>6. h = [at |-> "review_decision", cycle_count |-> g.cycle_count,
                 extra_context |-> g.extra_context, ambiguous |-> a,
                 passes |-> g.passes + 1, reviewed |-> v]
          BY <1>0, <3>4 DEF GraphStates
      <3>7. h \in GraphStates
          BY <1>0, <3>5, <3>6 DEF GraphStates, Nodes
      <3> QED BY <1>0, <1>4, <3>6, <3>7, MaxCyclesAssumption DEF Sound, GraphStates, BeforeReview
    <2> QED BY <2>2, <2>3
  <1>5. CASE g.at = "review_decision"
    <2>1. h \in Decide(g)
        BY <1>5 DEF Successors
    <2>2. CASE Asks(g)
      <3>1. h = Goto(g, "interrupt")
          BY <2>1, <2>2 DEF Decide
      <3> QED BY <1>0, <1>5, <2>2, <3>1, MaxCyclesAssumption
              DEF Asks, Goto, Sound, GraphStates, Nodes, BeforeReview
    <2>3. CASE ~Asks(g)
      <3>1. h = [g EXCEPT !.at = "aggregate_results", !.extra_context = FALSE]
          BY <2>1, <2>3 DEF Decide
      <3>2. h \in GraphStates
          BY <1>0, <3>1 DEF GraphStates, Nodes
      <3>3. /\ h.at = "aggregate_results"
            /\ h.passes = g.passes /\ h.cycle_count = g.cycle_count
          BY <1>0, <3>1 DEF GraphStates
      <3> QED BY <1>0, <1>5, <3>2, <3>3 DEF Sound, GraphStates, BeforeReview
    <2> QED BY <2>2, <2>3
  <1>6. CASE g.at = "aggregate_results"
    <2>1. h \in Aggregate(g)
        BY <1>6 DEF Successors
    <2> QED BY <1>0, <1>6, <2>1, GotoSound DEF Aggregate, Sound, GraphStates
  <1>7. CASE g.at = "format_report"
    <2>1. h \in Format(g)
        BY <1>7 DEF Successors
    <2> QED BY <1>0, <1>7, <2>1, GotoSound DEF Format, Sound, GraphStates
  <1>8. CASE g.at = "publish_report"
    <2>1. h \in Publish(g)
        BY <1>8 DEF Successors
    <2> QED BY <1>0, <1>8, <2>1, GotoSound DEF Publish, Sound, GraphStates
  <1>9. CASE g.at \in {"interrupt", "END", "failed"}
      BY <1>9 DEF Successors
  <1> QED BY <1>0, <1>1, <1>2, <1>3, <1>4, <1>5, <1>6, <1>7, <1>8, <1>9
          DEF GraphStates, Nodes

\* The human's answer leads from a sound suspended state to a sound one that is
\* not suspended, after the same number of passes.
LEMMA ResumeSound ==
  ASSUME NEW g, Sound(g), Paused(g), NEW answer \in Answers
  PROVE  /\ Sound(Resume(g, answer))
         /\ Resume(g, answer).passes = g.passes
         /\ Resume(g, answer).at \in {"reviewers", "aggregate_results"}
  <1>0. g \in GraphStates /\ g.at = "interrupt"
      BY DEF Sound, Paused
  <1> DEFINE context == answer = "rerun_context"
             n == IF context THEN "reviewers" ELSE "aggregate_results"
             c == IF Approves(answer) THEN g.cycle_count + 1 ELSE g.cycle_count
  <1>1. Resume(g, answer) = [g EXCEPT !.at = n, !.extra_context = context, !.cycle_count = c]
      BY DEF Resume
  <1>2. /\ context \in BOOLEAN
        /\ n \in {"reviewers", "aggregate_results"}
        /\ n = "reviewers" => c = g.cycle_count + 1
        /\ c \in Nat /\ c <= g.cycle_count + 1
      BY <1>0 DEF Approves, GraphStates
  <1> HIDE DEF context, n, c
  <1>3. /\ Resume(g, answer) \in GraphStates
        /\ Resume(g, answer).at = n
        /\ Resume(g, answer).passes = g.passes
        /\ Resume(g, answer).cycle_count = c
      BY <1>0, <1>1, <1>2 DEF GraphStates, Nodes
  <1> QED BY <1>0, <1>2, <1>3, MaxCyclesAssumption DEF Sound, GraphStates, BeforeReview

-----------------------------------------------------------------------------
(* Types, and with them the soundness of every state the thread keeps.       *)

StatesAreSound ==
  /\ \A t \in Tasks : Sound(graph[t])
  /\ Sound(checkpoint)
  /\ Sound(row.state)

Typed == TypeOK /\ StatesAreSound

\* The end of a task moves it alone, to the finally block (the run task with a
\* log task to drain) or to its end, where the run task unregisters.
LEMMA LeaveMoves ==
  ASSUME TypeOK, NEW t \in Tasks, Leave(t)
  PROVE  /\ pc' = [pc EXCEPT ![t] = IF t = Run /\ logging THEN "finally" ELSE "done"]
         /\ registered' = (registered /\ (t # Run \/ logging))
         /\ on_disk' = (on_disk /\ (t # Run \/ logging \/ ~snapshot_dir))
         /\ UNCHANGED <<cancelling, clone, snapshot_dir, logging>>
  <1>1. UNCHANGED <<cancelling, clone, snapshot_dir, logging>>
      BY DEF Leave
  <1>2. CASE t = Run /\ logging
      BY <1>1, <1>2 DEF Leave, LeaveRun, Suspend, TypeOK
  <1>3. CASE t = Run /\ ~logging
      BY <1>1, <1>3 DEF Leave, LeaveRun, Unwind, Suspend, TypeOK
  <1>4. CASE t # Run
      BY <1>1, <1>4 DEF Leave, Suspend, TypeOK
  <1> QED BY <1>2, <1>3, <1>4

\* The types of what Leave touches.
LEMMA LeaveTyped ==
  ASSUME TypeOK, NEW t \in Tasks, Leave(t)
  PROVE  /\ pc' \in [Tasks -> Pcs]
         /\ cancelling' \in BOOLEAN /\ registered' \in BOOLEAN
         /\ clone' \in {"idle", "running", "ok", "failed"}
         /\ on_disk' \in BOOLEAN /\ snapshot_dir' \in BOOLEAN /\ logging' \in BOOLEAN
  <1>1. pc' \in [Tasks -> Pcs]
      BY LeaveMoves DEF TypeOK, Pcs
  <1>2. registered' \in BOOLEAN /\ on_disk' \in BOOLEAN
      BY LeaveMoves, Zenon
  <1> QED BY <1>1, <1>2, LeaveMoves DEF TypeOK

\* The same when it leaves through an exception.
LEMMA RaiseTyped ==
  ASSUME TypeOK, NEW t \in Tasks, Raise(t)
  PROVE  /\ pc' \in [Tasks -> Pcs]
         /\ cancelling' \in BOOLEAN /\ registered' \in BOOLEAN
         /\ clone' \in {"idle", "running", "ok", "failed"}
         /\ on_disk' \in BOOLEAN /\ snapshot_dir' \in BOOLEAN /\ logging' \in BOOLEAN
         /\ failed' \in SUBSET Tasks
  <1>1. Leave(t) /\ failed' \in SUBSET Tasks
      BY DEF Raise, TypeOK
  <1> QED BY <1>1, LeaveTyped

\* The initial states are well typed and hold sound states only.
LEMMA InitTyped == Init => Typed
  <1> SUFFICES ASSUME Init PROVE Typed
      OBVIOUS
  <1>1. StatesAreSound
      BY StartSound DEF Init, StatesAreSound, NoRow
  <1>2. GraphStart \in GraphStates
      BY StartSound DEF Sound
  <1>3. row \in Rows /\ pc \in [Tasks -> Pcs]
      BY <1>2 DEF Init, NoRow, Rows, Pcs
  <1>4. terminal \in Seq({"__done__", "__cancelled__"})
      BY DEF Init
  <1> QED BY <1>1, <1>2, <1>3, <1>4 DEF Init, Typed, TypeOK

\* Before the graph starts, only the run task and the clone thread take steps.
LEMMA StartTyped ==
  ASSUME Typed, TriggerReview \/ FetchPr \/ StartClone \/ CloneThreadEnds
                  \/ CloneReturns \/ PrepareRepo
  PROVE  Typed'
  <1> USE DEF control, registry, disk, accounting, outcome, ghost
  <1>0. TypeOK
      BY DEF Typed
  <1>1. UNCHANGED <<graph, checkpoint, row>>
      BY DEF TriggerReview, FetchPr, StartClone, CloneThreadEnds, CloneReturns, PrepareRepo
  <1>2. StatesAreSound'
      BY <1>1 DEF Typed, StatesAreSound
  <1>3. CASE TriggerReview
      BY <1>0, <1>2, <1>3 DEF TriggerReview, Suspend, Typed, TypeOK, Pcs
  <1>4. ASSUME TakeHandler(Run)
        PROVE  handlers' \in Tasks \cup {NoTask} /\ handler' \in [Tasks -> Tasks \cup {NoTask}]
      BY <1>0, <1>4 DEF TakeHandler, TypeOK, Tasks
  <1>5. CASE FetchPr
    <2>1. CASE Raise(Run) /\ UNCHANGED <<handlers, handler>>
        BY <1>0, <1>2, <1>5, <2>1, RaiseTyped DEF FetchPr, Typed, TypeOK, Tasks
    <2>2. CASE ~(Raise(Run) /\ UNCHANGED <<handlers, handler>>)
      <3>1. Suspend(Run, "stream") /\ TakeHandler(Run) /\ UNCHANGED <<registry, disk, failed>>
          BY <1>5, <2>2 DEF FetchPr
      <3> QED BY <1>0, <1>2, <1>4, <1>5, <3>1 DEF FetchPr, Suspend, Typed, TypeOK, Pcs
    <2> QED BY <2>1, <2>2
  <1>6. CASE StartClone
      BY <1>0, <1>2, <1>6 DEF StartClone, Suspend, Typed, TypeOK, Pcs
  <1>7. CASE CloneThreadEnds
      BY <1>0, <1>2, <1>7 DEF CloneThreadEnds, Typed, TypeOK
  <1>8. CASE CloneReturns
    <2>1. CASE Raise(Run)
        BY <1>0, <1>2, <1>8, <2>1, RaiseTyped DEF CloneReturns, Typed, TypeOK, Tasks
    <2>2. CASE ~Raise(Run)
      <3>1. /\ Suspend(Run, "cloned") /\ snapshot_dir' = TRUE
            /\ UNCHANGED <<registry, clone, on_disk, logging, failed>>
          BY <1>8, <2>2 DEF CloneReturns
      <3> QED BY <1>0, <1>2, <1>8, <3>1 DEF CloneReturns, Suspend, Typed, TypeOK, Pcs
    <2> QED BY <2>1, <2>2
  <1>9. CASE PrepareRepo
    <2>1. CASE Raise(Run) /\ UNCHANGED <<handlers, handler>>
        BY <1>0, <1>2, <1>9, <2>1, RaiseTyped DEF PrepareRepo, Typed, TypeOK, Tasks
    <2>2. CASE ~(Raise(Run) /\ UNCHANGED <<handlers, handler>>)
      <3>1. /\ Suspend(Run, "stream") /\ TakeHandler(Run) /\ logging' = TRUE
            /\ UNCHANGED <<registry, clone, on_disk, snapshot_dir, failed>>
          BY <1>9, <2>2 DEF PrepareRepo
      <3> QED BY <1>0, <1>2, <1>4, <1>9, <3>1 DEF PrepareRepo, Suspend, Typed, TypeOK, Pcs
    <2> QED BY <2>1, <2>2
  <1> QED BY <1>3, <1>5, <1>6, <1>7, <1>8, <1>9

\* The LLM calls of a superstep keep the types of the counters.
LEMMA CountTyped ==
  ASSUME TypeOK, NEW t \in Tasks, NEW counts \in BOOLEAN,
         IF counts THEN CountUsage(t) ELSE UNCHANGED <<usage, spent>>
  PROVE  usage' \in [Tasks -> SUBSET Tasks] /\ spent' \in SUBSET Tasks
  <1>1. CASE counts
    <2>1. /\ usage' = [usage EXCEPT ![handler[t]] = @ \cup {t}]
          /\ spent' = spent \cup {t}
        BY <1>1 DEF CountUsage
    <2> QED BY <2>1 DEF TypeOK
  <1>2. CASE ~counts
      BY <1>2 DEF TypeOK
  <1> QED BY <1>1, <1>2

\* A task in the graph.
LEMMA GraphTyped ==
  ASSUME Typed, NEW t \in Tasks,
         Superstep(t) \/ SuperstepRaises(t) \/ TakeAnswer(t) \/ StreamEnds(t)
  PROVE  Typed'
  <1> USE DEF control, registry, disk, accounting, outcome, ghost
  <1>0. TypeOK /\ StatesAreSound /\ Readable \in BOOLEAN
      BY Zenon DEF Typed, Readable
  <1>1. Sound(graph[t]) /\ graph[t] \in GraphStates
      BY <1>0 DEF StatesAreSound, Sound
  <1>2. ASSUME Superstep(t) PROVE Typed'
    <2>1. PICK h \in Successors(graph[t], Readable) :
            /\ graph' = [graph EXCEPT ![t] = h]
            /\ checkpoint' = IF Checkpointer THEN h ELSE checkpoint
        BY <1>2 DEF Superstep
    <2>2. Sound(h) /\ h \in GraphStates
        BY <1>0, <1>1, <2>1, SuccessorSound DEF Sound
    <2>3. StatesAreSound' /\ graph' \in [Tasks -> GraphStates] /\ checkpoint' \in GraphStates
        BY <1>0, <1>2, <2>1, <2>2 DEF StatesAreSound, TypeOK, Superstep
    <2>4. usage' \in [Tasks -> SUBSET Tasks] /\ spent' \in SUBSET Tasks
        BY <1>0, <1>2, CountTyped DEF Superstep
    <2>5. published' \in Nat /\ answering' \in [Tasks -> BOOLEAN]
        BY <1>0, <1>2 DEF Superstep, TypeOK
    <2> QED BY <1>0, <1>2, <2>3, <2>4, <2>5 DEF Superstep, Typed, TypeOK
  <1>3. ASSUME SuperstepRaises(t) PROVE Typed'
    <2>1. graph' = [graph EXCEPT ![t] = Goto(graph[t], "failed")]
        BY <1>3 DEF SuperstepRaises, Goto
    <2>2. Sound(Goto(graph[t], "failed")) /\ Goto(graph[t], "failed") \in GraphStates
        BY <1>1, GotoSound DEF Sound
    <2>3. StatesAreSound' /\ graph' \in [Tasks -> GraphStates]
        BY <1>0, <1>3, <2>1, <2>2 DEF StatesAreSound, TypeOK, SuperstepRaises
    <2>4. usage' \in [Tasks -> SUBSET Tasks] /\ spent' \in SUBSET Tasks
        BY <1>0, <1>3, CountTyped DEF SuperstepRaises
    <2>5. published' \in Nat /\ answering' \in [Tasks -> BOOLEAN]
        BY <1>0, <1>3 DEF SuperstepRaises, TypeOK
    <2>6. Raise(t)
        BY <1>3 DEF SuperstepRaises
    <2> QED BY <1>0, <1>3, <2>3, <2>4, <2>5, <2>6, RaiseTyped DEF SuperstepRaises, Typed, TypeOK
  <1>4. ASSUME TakeAnswer(t) PROVE Typed'
    <2>1. PICK answer \in Answers :
            /\ graph' = [graph EXCEPT ![t] = Resume(graph[t], answer)]
            /\ checkpoint' = Resume(graph[t], answer)
        BY <1>4 DEF TakeAnswer
    <2>2. Sound(Resume(graph[t], answer)) /\ Resume(graph[t], answer) \in GraphStates
        BY <1>1, <1>4, ResumeSound DEF TakeAnswer, Sound
    <2>3. StatesAreSound' /\ graph' \in [Tasks -> GraphStates] /\ checkpoint' \in GraphStates
        BY <1>0, <1>4, <2>1, <2>2 DEF StatesAreSound, TypeOK, TakeAnswer
    <2> QED BY <1>0, <1>4, <2>3 DEF TakeAnswer, Typed, TypeOK
  <1>5. ASSUME StreamEnds(t) PROVE Typed'
    <2>1. StatesAreSound'
        BY <1>0, <1>5 DEF StreamEnds, StatesAreSound
    <2>2. terminal' \in Seq({"__done__", "__cancelled__"})
        BY <1>0, <1>5 DEF StreamEnds, DoneEnvelope, TypeOK
    <2> QED BY <1>0, <1>5, <2>1, <2>2 DEF StreamEnds, Suspend, Typed, TypeOK, Pcs
  <1> QED BY <1>2, <1>3, <1>4, <1>5

\* What a task persists is a state it holds.
LEMMA SavedTyped ==
  ASSUME Typed, NEW t \in Tasks
  PROVE  SavedRow(t) \in Rows /\ Sound(SavedRow(t).state)
  BY DEF Typed, TypeOK, StatesAreSound, SavedRow, Rows

\* Draining a handler keeps the types.
LEMMA DrainTyped ==
  ASSUME TypeOK, NEW t \in Tasks, DrainTokens(t)
  PROVE  /\ handlers' \in Tasks \cup {NoTask}
         /\ handler' \in [Tasks -> Tasks \cup {NoTask}]
         /\ usage' \in [Tasks -> SUBSET Tasks]
         /\ tokens' \in [Tasks -> SUBSET Tasks]
         /\ spent' \in SUBSET Tasks
  <1>1. (IF handlers = NoTask THEN {} ELSE usage[handlers]) \in SUBSET Tasks
      BY DEF TypeOK
  <1> QED BY <1>1, Zenon DEF DrainTokens, TypeOK

\* So does giving an invocation its handler.
LEMMA HandlerTyped ==
  ASSUME TypeOK, NEW t \in Tasks, TakeHandler(t)
  PROVE  handlers' \in Tasks \cup {NoTask} /\ handler' \in [Tasks -> Tasks \cup {NoTask}]
  BY DEF TakeHandler, TypeOK

\* The notices a task may add are notices.
LEMMA NoticesTyped ==
  Typed => /\ CancelledNotice \in Notices /\ CompleteNotice \in Notices
           /\ QuestionAfter(checkpoint.passes) \in Notices
  BY DEF Typed, TypeOK, GraphStates, Notices, CancelledNotice, CompleteNotice, QuestionAfter

\* The way of a task from the end of its invocation to its own.
LEMMA EndTyped ==
  ASSUME Typed, NEW t \in Tasks,
         Settle(t) \/ AnnounceCompletion \/ (ReloadState(t) /\ t # Run)
           \/ ReadFails(t) \/ SaveReview(t) \/ BackfillEnds(t) \/ FinallyEnds
  PROVE  Typed'
  <1> USE DEF control, registry, disk, accounting, outcome, ghost
  <1>0. TypeOK /\ StatesAreSound /\ Run \in Tasks
      BY DEF Typed, Tasks
  <1>1. ASSUME Settle(t) PROVE Typed'
    <2>1. StatesAreSound'
        BY <1>0, <1>1 DEF Settle, StatesAreSound
    <2>2. chat' \in SUBSET Notices
        BY <1>0, <1>1, NoticesTyped DEF Settle, PendingQuestion, TypeOK
    <2>3. pc' \in [Tasks -> Pcs]
        BY <1>0, <1>1 DEF Settle, Suspend, TypeOK, Pcs
    <2>4. UNCHANGED accounting \/ DrainTokens(t)
        BY <1>0, <1>1 DEF Settle, TypeOK
    <2>5. /\ handlers' \in Tasks \cup {NoTask}
          /\ handler' \in [Tasks -> Tasks \cup {NoTask}]
          /\ usage' \in [Tasks -> SUBSET Tasks]
          /\ tokens' \in [Tasks -> SUBSET Tasks]
          /\ spent' \in SUBSET Tasks
        BY <1>0, <2>4, DrainTyped DEF TypeOK
    <2> QED BY <1>0, <1>1, <2>1, <2>2, <2>3, <2>5 DEF Settle, Typed, TypeOK
  <1>2. ASSUME AnnounceCompletion PROVE Typed'
    <2>1. StatesAreSound'
        BY <1>0, <1>2 DEF AnnounceCompletion, StatesAreSound
    <2>2. chat' \in SUBSET Notices
        BY <1>0, <1>2, NoticesTyped DEF AnnounceCompletion, CompletionNotice, TypeOK
    <2>3. DrainTokens(Run) /\ pc' \in [Tasks -> Pcs]
        BY <1>0, <1>2 DEF AnnounceCompletion, Suspend, TypeOK, Pcs
    <2> QED BY <1>0, <1>2, <2>1, <2>2, <2>3, DrainTyped DEF AnnounceCompletion, Typed, TypeOK
  <1>3. ASSUME ReloadState(t) PROVE Typed'
    <2>1. StatesAreSound'
        BY <1>0, <1>3 DEF ReloadState, StatesAreSound, TypeOK
    <2>2. DrainTokens(t) /\ pc' \in [Tasks -> Pcs] /\ graph' \in [Tasks -> GraphStates]
        BY <1>0, <1>3 DEF ReloadState, Suspend, TypeOK, Pcs
    <2> QED BY <1>0, <1>3, <2>1, <2>2, DrainTyped DEF ReloadState, Typed, TypeOK
  <1>4. ASSUME ReadFails(t) PROVE Typed'
    <2>1. StatesAreSound' /\ Raise(t)
        BY <1>0, <1>4 DEF ReadFails, StatesAreSound
    <2> QED BY <1>0, <1>4, <2>1, RaiseTyped DEF ReadFails, Typed, TypeOK
  <1>5. ASSUME SaveReview(t) PROVE Typed'
    <2>1. row' \in Rows /\ Sound(row'.state)
      <3>1. row' \in {row, SavedRow(t)}
          BY <1>5 DEF SaveReview
      <3> QED BY <1>0, <3>1, SavedTyped DEF TypeOK, StatesAreSound
    <2>2. StatesAreSound'
        BY <1>0, <1>5, <2>1 DEF SaveReview, StatesAreSound
    <2>3. /\ pc' \in [Tasks -> Pcs]
          /\ cancelling' \in BOOLEAN /\ registered' \in BOOLEAN
          /\ clone' \in {"idle", "running", "ok", "failed"}
          /\ on_disk' \in BOOLEAN /\ snapshot_dir' \in BOOLEAN /\ logging' \in BOOLEAN
          /\ failed' \in SUBSET Tasks
      <3>1. CASE Suspend(t, "backfill") /\ UNCHANGED <<registry, disk, failed>>
          BY <1>0, <3>1 DEF Suspend, TypeOK, Pcs
      <3>2. CASE Raise(t)
          BY <1>0, <3>2, RaiseTyped
      <3>3. CASE Leave(t) /\ UNCHANGED failed
          BY <1>0, <3>3, LeaveTyped DEF TypeOK
      <3> QED BY <1>5, <3>1, <3>2, <3>3 DEF SaveReview
    <2> QED BY <1>0, <1>5, <2>1, <2>2, <2>3 DEF SaveReview, Typed, TypeOK
  <1>6. ASSUME BackfillEnds(t) PROVE Typed'
    <2>1. StatesAreSound' /\ Leave(t)
        BY <1>0, <1>6 DEF BackfillEnds, StatesAreSound
    <2> QED BY <1>0, <1>6, <2>1, LeaveTyped DEF BackfillEnds, Typed, TypeOK
  <1>7. ASSUME FinallyEnds PROVE Typed'
    <2>1. StatesAreSound'
        BY <1>0, <1>7 DEF FinallyEnds, StatesAreSound
    <2> QED BY <1>0, <1>7, <2>1 DEF FinallyEnds, Unwind, Suspend, Typed, TypeOK, Pcs
  <1> QED BY <1>1, <1>2, <1>3, <1>4, <1>5, <1>6, <1>7

\* Stop, the chat and a restart.
LEMMA OutsideTyped ==
  ASSUME Typed,
         \/ Cancel \/ CancelArrives \/ CancelNoticeSent \/ CancelEventSent \/ CancelledAgain
         \/ \E t \in Resumes : UserMessage(t) \/ StartResume(t)
         \/ Crash
  PROVE  Typed'
  <1> USE DEF control, registry, disk, accounting, outcome, ghost
  <1>0. TypeOK /\ StatesAreSound /\ Run \in Tasks
      BY DEF Typed, Tasks
  <1>1. CASE Cancel
    <2>1. StatesAreSound'
        BY <1>0, <1>1 DEF Cancel, StatesAreSound
    <2> QED BY <1>0, <1>1, <2>1 DEF Cancel, Typed, TypeOK
  <1>2. CASE CancelArrives
    <2>1. row' \in Rows /\ Sound(row'.state)
      <3>1. row' \in {row, SavedRow(Run)}
          BY <1>2 DEF CancelArrives
      <3> QED BY <1>0, <3>1, SavedTyped DEF TypeOK, StatesAreSound
    <2>2. StatesAreSound'
        BY <1>0, <1>2, <2>1 DEF CancelArrives, StatesAreSound
    <2>3. published' \in Nat
        BY <1>0, <1>2 DEF CancelArrives, TypeOK
    <2>4. pc' \in [Tasks -> Pcs] /\ chat' \in SUBSET Notices
        BY <1>0, <1>2, NoticesTyped DEF CancelArrives, Suspend, TypeOK, Pcs
    <2> QED BY <1>0, <1>2, <2>1, <2>2, <2>3, <2>4 DEF CancelArrives, Typed, TypeOK
  <1>3. CASE CancelNoticeSent
    <2>1. StatesAreSound'
        BY <1>0, <1>3 DEF CancelNoticeSent, StatesAreSound
    <2>2. terminal' \in Seq({"__done__", "__cancelled__"})
        BY <1>0, <1>3 DEF CancelNoticeSent, TypeOK
    <2> QED BY <1>0, <1>3, <2>1, <2>2 DEF CancelNoticeSent, Suspend, Typed, TypeOK, Pcs
  <1>4. CASE CancelEventSent
    <2>1. StatesAreSound' /\ Leave(Run)
        BY <1>0, <1>4 DEF CancelEventSent, StatesAreSound
    <2> QED BY <1>0, <1>4, <2>1, LeaveTyped DEF CancelEventSent, Typed, TypeOK
  <1>5. CASE CancelledAgain
    <2>1. StatesAreSound'
        BY <1>0, <1>5 DEF CancelledAgain, StatesAreSound
    <2>2. pc' \in [Tasks -> Pcs] /\ registered' \in BOOLEAN /\ on_disk' \in BOOLEAN
        BY <1>0, <1>5 DEF CancelledAgain, LeaveRun, Unwind, Suspend, TypeOK, Pcs
    <2> QED BY <1>0, <1>5, <2>1, <2>2 DEF CancelledAgain, Typed, TypeOK
  <1>6. ASSUME NEW t \in Resumes, UserMessage(t) PROVE Typed'
    <2>1. StatesAreSound'
        BY <1>0, <1>6 DEF UserMessage, StatesAreSound
    <2> QED BY <1>0, <1>6, <2>1 DEF UserMessage, Suspend, Typed, TypeOK, Pcs
  <1>7. ASSUME NEW t \in Resumes, StartResume(t) PROVE Typed'
    <2>0. t \in Tasks /\ Loaded \in GraphStates /\ Sound(Loaded) /\ Paused(Loaded) \in BOOLEAN
        BY <1>0 DEF Tasks, Loaded, TypeOK, StatesAreSound, Paused
    <2>1. StatesAreSound' /\ graph' \in [Tasks -> GraphStates] /\ answering' \in [Tasks -> BOOLEAN]
        BY <1>0, <1>7, <2>0 DEF StartResume, StatesAreSound, TypeOK
    <2>2. TakeHandler(t) /\ pc' \in [Tasks -> Pcs]
        BY <1>0, <1>7, <2>0 DEF StartResume, Suspend, TypeOK, Pcs
    <2> QED BY <1>0, <1>7, <2>0, <2>1, <2>2, HandlerTyped DEF StartResume, Typed, TypeOK
  <1>8. CASE Crash
    <2>1. StatesAreSound'
        BY <1>0, <1>8 DEF Crash, StatesAreSound
    <2>2. pc' \in [Tasks -> Pcs]
        BY <1>0, <1>8 DEF Crash, TypeOK, Pcs
    <2>3. terminal' \in Seq({"__done__", "__cancelled__"}) /\ chat' \in SUBSET Notices
        BY <1>8 DEF Crash
    <2>4. /\ registered' = FALSE /\ cancelling' = FALSE /\ clone' = "idle"
          /\ snapshot_dir' = FALSE /\ logging' = FALSE /\ handlers' = NoTask
          /\ crashes' = crashes + 1
          /\ UNCHANGED <<mode, graph, answering, checkpoint, on_disk, handler, usage,
                         tokens, spent, row, published, failed>>
        BY <1>8 DEF Crash
    <2>5. /\ handlers' \in Tasks \cup {NoTask} /\ handler' \in [Tasks -> Tasks \cup {NoTask}]
          /\ usage' \in [Tasks -> SUBSET Tasks] /\ tokens' \in [Tasks -> SUBSET Tasks]
          /\ spent' \in SUBSET Tasks /\ crashes' \in Nat
        BY <1>0, <2>4 DEF TypeOK
    <2>6. /\ mode' \in {"pr", "repo"} /\ graph' \in [Tasks -> GraphStates]
          /\ answering' \in [Tasks -> BOOLEAN] /\ checkpoint' \in GraphStates
          /\ on_disk' \in BOOLEAN /\ row' \in Rows /\ published' \in Nat
          /\ failed' \in SUBSET Tasks
        BY <1>0, <2>4 DEF TypeOK
    <2> QED BY <2>1, <2>2, <2>3, <2>4, <2>5, <2>6, Zenon DEF Typed, TypeOK
  <1> QED BY <1>1, <1>2, <1>3, <1>4, <1>5, <1>6, <1>7, <1>8

\* Every step preserves the types and the soundness of the states.
LEMMA StepTyped == Typed /\ [Next]_vars => Typed'
  <1> SUFFICES ASSUME Typed, [Next]_vars PROVE Typed'
      OBVIOUS
  <1>1. CASE UNCHANGED vars
    <2> USE DEF vars, control, registry, disk, accounting, outcome, ghost
    <2>1. TypeOK' /\ StatesAreSound'
        BY <1>1 DEF Typed, TypeOK, StatesAreSound
    <2> QED BY <2>1 DEF Typed
  <1>2. CASE TriggerReview \/ CloneThreadEnds \/ RunStep
      BY <1>2, StartTyped, EndTyped, OutsideTyped DEF RunStep, Tasks
  <1>3. ASSUME NEW t \in Tasks, TaskStep(t) PROVE Typed'
      BY <1>3, GraphTyped, EndTyped DEF TaskStep
  <1>4. ASSUME NEW t \in Resumes, UserMessage(t) \/ ResumeStep(t) PROVE Typed'
      BY <1>4, EndTyped, OutsideTyped, ResumesAssumption DEF ResumeStep, Tasks
  <1>5. CASE Cancel \/ Crash
      BY <1>5, OutsideTyped
  <1> QED BY <1>1, <1>2, <1>3, <1>4, <1>5 DEF Next

LEMMA TypedAlways == Spec => []Typed
  BY InitTyped, StepTyped, PTL DEF Spec

\* Every variable of a thread keeps its type, whatever is stopped, resumed,
\* raised or restarted, and in whatever order.
THEOREM TypeCorrect == Spec => []TypeOK
  <1>1. Typed => TypeOK
      BY DEF Typed
  <1> QED BY <1>1, TypedAlways, PTL

\* However many tasks drive the graph of one thread at the same time, each from
\* the checkpoint it happened to load, none goes through the reviewers more than
\* MAX_CYCLES times, and neither does what they leave in the checkpoint and the row.
THEOREM PassBound == Spec => []PassesAreBounded
  <1>1. Typed => PassesAreBounded
      BY DEF Typed, StatesAreSound, Sound, PassesAreBounded
  <1> QED BY <1>1, TypedAlways, PTL

-----------------------------------------------------------------------------
(* The registry, the snapshot and the terminal envelopes follow the run task   *)
(* from place to place.                                                       *)

Streaming == {"idle", "fetch", "announce", "clone", "cloned", "stream"}
Settling == {"settle", "complete", "persist", "backfill"}
Cancelling == {"cancel_chat", "cancel_event"}

Endings == {<<>>, <<"__done__">>, <<"__cancelled__">>, <<"__done__", "__cancelled__">>}

\* The directory is there from the start of the clone until the finally block,
\* or until git fails, and no clone is running once its result has been taken.
SnapshotInv ==
  /\ pc[Run] = "clone" /\ clone \in {"running", "ok"} => on_disk
  /\ mode = "repo" /\ pc[Run] \in {"cloned", "stream"} => on_disk /\ clone = "ok"
  /\ pc[Run] = "done" /\ snapshot_dir => ~on_disk
  /\ mode = "repo" => pc[Run] # "fetch"

\* Which terminal envelopes are out at each place.
EnvelopeInv ==
  /\ pc[Run] \in Streaming \cup Settling \cup Cancelling \cup {"finally", "done"}
  /\ pc[Run] \in Streaming => terminal = <<>>
  /\ pc[Run] \in Settling => terminal = <<"__done__">>
  /\ pc[Run] \in Cancelling => CancelledNotice \in chat
  /\ pc[Run] = "cancel_chat" => terminal \in {<<>>, <<"__done__">>}
  /\ terminal \in Endings
  /\ pc[Run] \in {"finally", "done"} => (Undisturbed => terminal = <<"__done__">>)

RunInv == RegistryTracksTask /\ SnapshotInv /\ EnvelopeInv

\* A step of a resume task concerns none of this.
LEMMA OthersKeepRun ==
  ASSUME Typed, NEW t \in Resumes, TaskStep(t) \/ ResumeStep(t) \/ UserMessage(t)
  PROVE  /\ pc'[Run] = pc[Run]
         /\ UNCHANGED <<mode, registered, clone, on_disk, snapshot_dir, logging, terminal>>
         /\ chat \subseteq chat' /\ failed \subseteq failed' /\ crashes' = crashes
  <1> USE DEF control, registry, disk, accounting, outcome, ghost, At, Suspend
  <1>0. TypeOK /\ t \in Tasks /\ t # Run /\ Run \in Tasks
      BY ResumesAssumption DEF Typed, Tasks
  <1> DEFINE Kept == /\ pc'[Run] = pc[Run]
                     /\ UNCHANGED <<registered, clone, on_disk, snapshot_dir, logging>>
  <1>1. Leave(t) => Kept
      BY <1>0, LeaveMoves DEF TypeOK
  <1>2. Raise(t) => Kept /\ failed \subseteq failed'
      BY <1>1 DEF Raise
  <1>3. CASE UserMessage(t)
      BY <1>0, <1>3 DEF UserMessage, TypeOK
  <1>4. CASE StartResume(t) \/ ReloadState(t)
      BY <1>0, <1>4 DEF StartResume, ReloadState, TypeOK
  <1>5. CASE Superstep(t) \/ TakeAnswer(t)
      BY <1>0, <1>5 DEF Superstep, TakeAnswer, TypeOK
  <1>6. CASE SuperstepRaises(t)
      BY <1>0, <1>2, <1>6 DEF SuperstepRaises
  <1>7. CASE StreamEnds(t)
      BY <1>0, <1>7 DEF StreamEnds, DoneEnvelope, TypeOK
  <1>8. CASE Settle(t)
      BY <1>0, <1>8 DEF Settle, PendingQuestion, TypeOK
  <1>9. CASE ReadFails(t)
      BY <1>0, <1>2, <1>9 DEF ReadFails
  <1>10. CASE SaveReview(t)
      BY <1>0, <1>1, <1>2, <1>10 DEF SaveReview, TypeOK
  <1>11. CASE BackfillEnds(t)
      BY <1>0, <1>1, <1>11 DEF BackfillEnds
  <1> QED BY <1>3, <1>4, <1>5, <1>6, <1>7, <1>8, <1>9, <1>10, <1>11
          DEF TaskStep, ResumeStep

\* The invariants only look at the run task and what it keeps.
LEMMA KeptRunInv ==
  ASSUME RunInv,
         pc'[Run] = pc[Run],
         UNCHANGED <<mode, registered, clone, on_disk, snapshot_dir, logging, terminal>>,
         chat \subseteq chat', failed \subseteq failed', crashes' = crashes
  PROVE  RunInv'
  <1>1. Undisturbed' => Undisturbed
      BY DEF Undisturbed
  <1>2. RegistryTracksTask' /\ SnapshotInv'
      BY DEF RunInv, RegistryTracksTask, Active, SnapshotInv
  <1>3. EnvelopeInv'
      BY <1>1 DEF RunInv, EnvelopeInv
  <1> QED BY <1>2, <1>3 DEF RunInv

\* Nothing is registered, on disk or out before POST /review.
LEMMA InitRunInv == Init => RunInv
  BY DEF Init, RunInv, RegistryTracksTask, Active, SnapshotInv, EnvelopeInv,
         Streaming, Settling, Cancelling, Endings, Tasks

\* The run task leaves from a place from which the UI has what it has to have.
LEMMA LeaveRunInv ==
  ASSUME Typed, RunInv, Leave(Run), Active(Run), UNCHANGED <<mode, terminal>>,
         Undisturbed' => terminal = <<"__done__">>
  PROVE  RunInv'
  <1>0. TypeOK /\ Run \in Tasks
      BY DEF Typed, Tasks
  <1>1. /\ pc'[Run] = IF logging THEN "finally" ELSE "done"
        /\ registered' = (registered /\ logging)
        /\ on_disk' = (on_disk /\ (logging \/ ~snapshot_dir))
        /\ UNCHANGED <<cancelling, clone, snapshot_dir, logging>>
      BY <1>0, LeaveMoves DEF TypeOK
  <1>2. registered \in BOOLEAN /\ logging \in BOOLEAN /\ on_disk \in BOOLEAN
      BY <1>0 DEF TypeOK
  <1>3. RegistryTracksTask'
      BY <1>1, <1>2 DEF RunInv, RegistryTracksTask, Active
  <1>4. SnapshotInv'
      BY <1>1, <1>2 DEF RunInv, SnapshotInv
  <1>5. EnvelopeInv'
      BY <1>1, <1>2 DEF RunInv, EnvelopeInv, Streaming, Settling, Cancelling
  <1> QED BY <1>3, <1>4, <1>5 DEF RunInv

\* An exception ends the run task, and a thread in which one was raised counts
\* as disturbed.
LEMMA RaiseRunInv ==
  ASSUME Typed, RunInv, Raise(Run), Active(Run), UNCHANGED <<mode, terminal>>
  PROVE  RunInv'
  <1>1. Leave(Run) /\ Run \in failed'
      BY DEF Raise
  <1>2. ~Undisturbed'
      BY <1>1 DEF Undisturbed
  <1> QED BY <1>1, <1>2, LeaveRunInv

\* Up to the graph.
LEMMA StartRunInv ==
  ASSUME Typed, RunInv,
         TriggerReview \/ FetchPr \/ StartClone \/ CloneThreadEnds \/ CloneReturns \/ PrepareRepo
  PROVE  RunInv'
  <1> USE DEF control, registry, disk, accounting, outcome, ghost, At, Suspend
  <1>0. TypeOK /\ Run \in Tasks
      BY DEF Typed, Tasks
  <1> DEFINE Moved(from, to) ==
        /\ pc[Run] = from /\ pc'[Run] = to
        /\ terminal' = terminal /\ chat' = chat /\ failed' = failed /\ crashes' = crashes
        /\ mode' = mode
  <1>1. ASSUME NEW from \in Streaming \ {"idle"}, NEW to \in Streaming \ {"idle"},
               Moved(from, to), registered' = registered
        PROVE  RegistryTracksTask' /\ EnvelopeInv'
      BY <1>0, <1>1 DEF RunInv, RegistryTracksTask, Active, EnvelopeInv, Undisturbed,
                        Streaming, Settling, Cancelling
  <1>2. CASE TriggerReview
      BY <1>0, <1>2 DEF TriggerReview, RunInv, RegistryTracksTask, Active, EnvelopeInv, Undisturbed,
                        SnapshotInv, Streaming, Settling, Cancelling, TypeOK
  <1>3. CASE FetchPr
    <2>1. CASE Raise(Run)
        BY <1>3, <2>1, RaiseRunInv DEF FetchPr, Active
    <2>2. CASE ~Raise(Run)
      <3>1. Moved("fetch", "stream") /\ UNCHANGED <<registry, disk>>
          BY <1>0, <1>3, <2>2 DEF FetchPr, TypeOK
      <3>2. SnapshotInv'
          BY <3>1 DEF RunInv, SnapshotInv
      <3> QED BY <1>1, <3>1, <3>2 DEF RunInv, Streaming
    <2> QED BY <2>1, <2>2
  <1>4. CASE StartClone
    <2>1. Moved("announce", "clone") /\ registered' = registered
        BY <1>0, <1>4 DEF StartClone, TypeOK
    <2>2. SnapshotInv'
        BY <1>4, <2>1 DEF StartClone, SnapshotInv
    <2> QED BY <1>1, <2>1, <2>2 DEF RunInv, Streaming
  <1>5. CASE CloneThreadEnds
    <2>1. RegistryTracksTask' /\ EnvelopeInv'
        BY <1>5 DEF CloneThreadEnds, RunInv, RegistryTracksTask, Active, EnvelopeInv, Undisturbed
    <2>2. SnapshotInv'
        BY <1>5 DEF CloneThreadEnds, RunInv, SnapshotInv
    <2> QED BY <2>1, <2>2 DEF RunInv
  <1>6. CASE CloneReturns
    <2>1. CASE Raise(Run)
        BY <1>6, <2>1, RaiseRunInv DEF CloneReturns, Active
    <2>2. CASE ~Raise(Run)
      <3>1. Moved("clone", "cloned") /\ clone = "ok" /\ UNCHANGED <<registry, clone, on_disk>>
          BY <1>0, <1>6, <2>2 DEF CloneReturns, TypeOK
      <3>2. SnapshotInv'
          BY <3>1 DEF RunInv, SnapshotInv
      <3> QED BY <1>1, <3>1, <3>2 DEF RunInv, Streaming
    <2> QED BY <2>1, <2>2
  <1>7. CASE PrepareRepo
    <2>1. CASE Raise(Run)
        BY <1>7, <2>1, RaiseRunInv DEF PrepareRepo, Active
    <2>2. CASE ~Raise(Run)
      <3>1. Moved("cloned", "stream") /\ UNCHANGED <<registry, clone, on_disk>>
          BY <1>0, <1>7, <2>2 DEF PrepareRepo, TypeOK
      <3>2. SnapshotInv'
          BY <3>1 DEF RunInv, SnapshotInv
      <3> QED BY <1>1, <3>1, <3>2 DEF RunInv, Streaming
    <2> QED BY <2>1, <2>2
  <1> QED BY <1>2, <1>3, <1>4, <1>5, <1>6, <1>7

\* From the graph to the end of the review.
LEMMA GraphRunInv ==
  ASSUME Typed, RunInv, TaskStep(Run) \/ AnnounceCompletion \/ FinallyEnds
  PROVE  RunInv'
  <1> USE DEF control, registry, disk, accounting, outcome, ghost, At, Suspend
  <1>0. TypeOK /\ Run \in Tasks
      BY DEF Typed, Tasks
  <1>1. ASSUME pc[Run] \in Settling, pc'[Run] \in Settling,
               UNCHANGED <<mode, registry, disk, terminal, failed, crashes>>, chat \subseteq chat'
        PROVE  RunInv'
    <2>1. Undisturbed' => Undisturbed
        BY <1>1 DEF Undisturbed
    <2> QED BY <1>1, <2>1 DEF RunInv, RegistryTracksTask, Active, SnapshotInv, EnvelopeInv,
                              Streaming, Settling, Cancelling
  <1>2. CASE Superstep(Run) \/ TakeAnswer(Run)
    <2>1. /\ pc'[Run] = pc[Run]
          /\ UNCHANGED <<mode, registered, clone, on_disk, snapshot_dir, logging, terminal,
                         chat, failed, crashes>>
        BY <1>2 DEF Superstep, TakeAnswer
    <2> QED BY <2>1, KeptRunInv
  <1>3. CASE SuperstepRaises(Run)
      BY <1>3, RaiseRunInv DEF SuperstepRaises, Active
  <1>4. CASE StreamEnds(Run)
    <2>1. /\ pc[Run] = "stream" /\ pc'[Run] = "settle"
          /\ terminal = <<>> /\ terminal' = Append(terminal, "__done__")
          /\ UNCHANGED <<mode, registered, disk, failed, crashes, chat>>
        BY <1>0, <1>4 DEF StreamEnds, DoneEnvelope, TypeOK, RunInv, EnvelopeInv, Streaming
    <2>2. terminal' = <<"__done__">>
        BY <2>1
    <2> QED BY <2>1, <2>2 DEF RunInv, RegistryTracksTask, Active, SnapshotInv, EnvelopeInv,
                              Streaming, Settling, Cancelling, Endings
  <1>5. CASE Settle(Run)
    <2>1. /\ pc[Run] = "settle" /\ pc'[Run] \in {"complete", "persist"}
          /\ UNCHANGED <<mode, registry, disk, terminal, failed, crashes>>
          /\ chat \subseteq chat'
        BY <1>0, <1>5 DEF Settle, PendingQuestion, TypeOK
    <2> QED BY <1>1, <2>1 DEF Settling
  <1>6. CASE AnnounceCompletion
    <2>1. /\ pc[Run] = "complete" /\ pc'[Run] = "persist"
          /\ UNCHANGED <<mode, registry, disk, terminal, failed, crashes>>
          /\ chat \subseteq chat'
        BY <1>0, <1>6 DEF AnnounceCompletion, CompletionNotice, TypeOK
    <2> QED BY <1>1, <2>1 DEF Settling
  <1>7. CASE ReadFails(Run)
      BY <1>7, RaiseRunInv DEF ReadFails, Active
  <1>8. CASE SaveReview(Run)
    <2>0. pc[Run] = "persist" /\ terminal = <<"__done__">> /\ UNCHANGED <<mode, outcome, crashes>>
        BY <1>8 DEF SaveReview, RunInv, EnvelopeInv, Settling
    <2>1. CASE Raise(Run)
        BY <2>0, <2>1, RaiseRunInv DEF Active
    <2>2. CASE Leave(Run)
        BY <2>0, <2>2, LeaveRunInv DEF Active
    <2>3. CASE pc'[Run] = "backfill" /\ UNCHANGED <<registry, disk, failed>>
        BY <1>1, <2>0, <2>3 DEF Settling
    <2> QED BY <1>0, <1>8, <2>1, <2>2, <2>3 DEF SaveReview, TypeOK
  <1>9. CASE BackfillEnds(Run)
    <2>1. pc[Run] = "backfill" /\ terminal = <<"__done__">> /\ Leave(Run) /\ UNCHANGED <<mode, terminal>>
        BY <1>9 DEF BackfillEnds, RunInv, EnvelopeInv, Settling
    <2> QED BY <2>1, LeaveRunInv DEF Active
  <1>10. CASE FinallyEnds
    <2>1. /\ pc[Run] = "finally" /\ pc'[Run] = "done" /\ registered' = FALSE
          /\ on_disk' = (on_disk /\ ~snapshot_dir)
          /\ UNCHANGED <<mode, clone, snapshot_dir, terminal, chat, failed, crashes>>
        BY <1>0, <1>10 DEF FinallyEnds, LogTaskEnds, Unwind, TypeOK
    <2>2. Undisturbed' = Undisturbed
        BY <2>1 DEF Undisturbed
    <2> QED BY <1>0, <2>1, <2>2 DEF TypeOK, RunInv, RegistryTracksTask, Active, SnapshotInv,
                               EnvelopeInv, Streaming, Settling, Cancelling
  <1> QED BY <1>2, <1>3, <1>4, <1>5, <1>6, <1>7, <1>8, <1>9, <1>10 DEF TaskStep

\* Stop, at any await, pressed once or twice, and a restart.
LEMMA StopRunInv ==
  ASSUME Typed, RunInv,
         Cancel \/ CancelArrives \/ CancelNoticeSent \/ CancelEventSent \/ CancelledAgain \/ Crash
  PROVE  RunInv'
  <1> USE DEF control, registry, disk, accounting, outcome, ghost, At, Suspend
  <1>0. TypeOK /\ Run \in Tasks
      BY DEF Typed, Tasks
  <1>1. CASE Cancel
    <2>1. /\ pc'[Run] = pc[Run]
          /\ UNCHANGED <<mode, registered, clone, on_disk, snapshot_dir, logging, terminal,
                         chat, failed, crashes>>
        BY <1>1 DEF Cancel
    <2> QED BY <2>1, KeptRunInv
  <1>2. CASE CancelArrives
    <2>1. /\ pc[Run] \in (Streaming \ {"idle"}) \cup Settling
          /\ pc'[Run] = "cancel_chat"
          /\ chat' = chat \cup {CancelledNotice}
          /\ UNCHANGED <<mode, registered, disk, terminal>>
        BY <1>0, <1>2 DEF CancelArrives, TypeOK, Streaming, Settling
    <2> QED BY <2>1 DEF RunInv, RegistryTracksTask, Active, SnapshotInv, EnvelopeInv, Streaming,
                        Settling, Cancelling, Endings
  <1>3. CASE CancelNoticeSent
    <2>1. /\ pc[Run] = "cancel_chat" /\ pc'[Run] = "cancel_event"
          /\ terminal \in {<<>>, <<"__done__">>}
          /\ terminal' = Append(terminal, "__cancelled__")
          /\ CancelledNotice \in chat'
          /\ UNCHANGED <<mode, registered, disk>>
        BY <1>0, <1>3 DEF CancelNoticeSent, TypeOK, RunInv, EnvelopeInv, Cancelling
    <2>2. Append(<<>>, "__cancelled__") = <<"__cancelled__">>
        OBVIOUS
    <2>3. Append(<<"__done__">>, "__cancelled__") = <<"__done__", "__cancelled__">>
      <3> DEFINE s == Append(<<"__done__">>, "__cancelled__")
      <3>1. /\ s \in Seq({"__done__", "__cancelled__"}) /\ Len(s) = 2
            /\ s[1] = "__done__" /\ s[2] = "__cancelled__"
        <4>1. <<"__done__">> \in Seq({"__done__", "__cancelled__"})
            OBVIOUS
        <4>2. Len(<<"__done__">>) = 1 /\ <<"__done__">>[1] = "__done__"
            OBVIOUS
        <4> QED BY <4>1, <4>2
      <3> HIDE DEF s
      <3>2. s = <<"__done__", "__cancelled__">>
          BY <3>1
      <3> QED BY <3>2 DEF s
    <2>4. terminal' \in Endings
      <3>1. terminal' \in {<<"__cancelled__">>, <<"__done__", "__cancelled__">>}
          BY <2>1, <2>2, <2>3
      <3> QED BY <3>1 DEF Endings
    <2> QED BY <2>1, <2>4 DEF RunInv, RegistryTracksTask, Active, SnapshotInv, EnvelopeInv,
                              Streaming, Settling, Cancelling
  <1>4. CASE CancelEventSent
    <2>1. /\ pc[Run] = "cancel_event" /\ Leave(Run) /\ UNCHANGED <<mode, terminal>>
          /\ CancelledNotice \in chat'
        BY <1>4 DEF CancelEventSent, RunInv, EnvelopeInv, Cancelling
    <2>2. ~Undisturbed'
        BY <2>1 DEF Undisturbed
    <2> QED BY <2>1, <2>2, LeaveRunInv DEF Active
  <1>5. CASE CancelledAgain
    <2>1. /\ pc[Run] \in Cancelling
          /\ pc'[Run] = IF logging THEN "finally" ELSE "done"
          /\ registered' = (registered /\ logging)
          /\ on_disk' = (on_disk /\ (logging \/ ~snapshot_dir))
          /\ UNCHANGED <<mode, clone, snapshot_dir, logging, outcome>>
        BY <1>0, <1>5 DEF CancelledAgain, LeaveRun, Unwind, TypeOK, Cancelling
    <2>2. ~Undisturbed'
        BY <2>1 DEF RunInv, EnvelopeInv, Undisturbed
    <2>3. registered \in BOOLEAN /\ logging \in BOOLEAN /\ on_disk \in BOOLEAN
        BY <1>0 DEF TypeOK
    <2>4. RegistryTracksTask'
        BY <2>1, <2>3 DEF RunInv, RegistryTracksTask, Active, Cancelling
    <2>5. SnapshotInv'
        BY <2>1, <2>3 DEF RunInv, SnapshotInv
    <2>6. EnvelopeInv'
        BY <2>1, <2>2 DEF RunInv, EnvelopeInv, Streaming, Settling, Cancelling
    <2> QED BY <2>4, <2>5, <2>6 DEF RunInv
  <1>6. CASE Crash
    <2>1. /\ pc'[Run] = IF Active(Run) THEN "done" ELSE pc[Run]
          /\ registered' = FALSE /\ snapshot_dir' = FALSE /\ clone' = "idle"
          /\ terminal' = <<>> /\ crashes' = crashes + 1 /\ mode' = mode
        BY <1>0, <1>6 DEF Crash
    <2>2. ~Undisturbed'
        BY <1>0, <2>1 DEF Undisturbed, TypeOK
    <2>3. pc'[Run] \in {"idle", "done"}
        BY <2>1 DEF Active
    <2> QED BY <2>1, <2>2, <2>3 DEF RunInv, RegistryTracksTask, Active, SnapshotInv, EnvelopeInv,
                                    Streaming, Settling, Cancelling, Endings
  <1> QED BY <1>1, <1>2, <1>3, <1>4, <1>5, <1>6

\* Every step preserves the three.
LEMMA StepRunInv == Typed /\ RunInv /\ [Next]_vars => RunInv'
  <1> SUFFICES ASSUME Typed, RunInv, [Next]_vars PROVE RunInv'
      OBVIOUS
  <1>1. CASE UNCHANGED vars
    <2>1. /\ pc'[Run] = pc[Run]
          /\ UNCHANGED <<mode, registered, clone, on_disk, snapshot_dir, logging, terminal,
                         chat, failed, crashes>>
        BY <1>1 DEF vars, control, registry, disk, outcome, ghost
    <2> QED BY <2>1, KeptRunInv
  <1>2. CASE TriggerReview \/ CloneThreadEnds \/ RunStep
      BY <1>2, StartRunInv, GraphRunInv, StopRunInv DEF RunStep
  <1>3. CASE TaskStep(Run)
      BY <1>3, GraphRunInv
  <1>4. ASSUME NEW t \in Resumes, TaskStep(t) \/ UserMessage(t) \/ ResumeStep(t) PROVE RunInv'
      BY <1>4, OthersKeepRun, KeptRunInv
  <1>5. CASE Cancel \/ Crash
      BY <1>5, StopRunInv
  <1> QED BY <1>1, <1>2, <1>3, <1>4, <1>5 DEF Next, Tasks

LEMMA RunInvAlways == Spec => []RunInv
  <1>1. Init => RunInv
      BY InitRunInv
  <1> QED BY <1>1, StepRunInv, TypedAlways, PTL DEF Spec

\* A review is listed as active, and Stop can reach it, exactly while its task is
\* alive: on no way out of the task does the entry stay behind or go early.
THEOREM RegistryIsTrue == Spec => []RegistryTracksTask
  <1>1. RunInv => RegistryTracksTask
      BY DEF RunInv
  <1> QED BY <1>1, RunInvAlways, PTL

\* The initial stream never loses the code it reads, and no directory the task
\* knew of outlives it.
THEOREM SnapshotIsHeld == Spec => []SnapshotLifetime
  <1>1. RunInv => SnapshotLifetime
      BY DEF RunInv, SnapshotInv, SnapshotLifetime, At
  <1> QED BY <1>1, RunInvAlways, PTL

\* Stop, errors and restarts included, the UI gets no more than one envelope of
\* each kind, in this order, and a review nothing disturbed ends with __done__.
THEOREM EndingsAreProper == Spec => []TerminalEnvelopes
  <1>1. RunInv => TerminalEnvelopes
      BY DEF RunInv, EnvelopeInv, TerminalEnvelopes, Endings, At
  <1> QED BY <1>1, RunInvAlways, PTL

-----------------------------------------------------------------------------
(* What a thread still owes: a handler that is out is in the hands of a task    *)
(* that will drain it, unless that task failed or was stopped; and a question    *)
(* not asked yet is going to be asked by the task whose invocation has just been *)
(* suspended, unless something disturbed the thread.                             *)

Holding == {"stream", "settle", "complete", "reload"}

HandlerInv ==
  handlers # NoTask =>
    \/ pc[handlers] \in Holding
    \/ handlers \in failed
    \/ handlers = Run /\ CancelledNotice \in chat

QuestionInv ==
  Undisturbed /\ Paused(checkpoint) =>
    \/ QuestionAfter(checkpoint.passes) \in chat
    \/ \E t \in Tasks : pc[t] \in {"stream", "settle"}

\* A disturbance is never forgotten, not even by a restart.
LEMMA Disturbance == Typed /\ [Next]_vars => (Undisturbed' => Undisturbed)
  <1> SUFFICES ASSUME Typed, [Next]_vars, Undisturbed' PROVE Undisturbed
      OBVIOUS
  <1> USE DEF control, registry, disk, accounting, outcome, ghost
  <1>0. TypeOK /\ \A t \in Resumes : t \in Tasks
      BY DEF Typed, Tasks
  <1>1. ASSUME chat \subseteq chat', failed \subseteq failed', crashes' = crashes
        PROVE  Undisturbed
      BY <1>1 DEF Undisturbed
  <1>2. CASE UNCHANGED vars
      BY <1>1, <1>2 DEF vars
  <1>3. CASE Crash
      BY <1>0, <1>3 DEF Crash, Undisturbed, TypeOK
  <1>4. CASE TriggerReview \/ CloneThreadEnds \/ Cancel
      BY <1>1, <1>4 DEF TriggerReview, CloneThreadEnds, Cancel
  <1>5. CASE RunStep
      BY <1>1, <1>5 DEF RunStep, FetchPr, StartClone, CloneReturns, PrepareRepo, AnnounceCompletion,
                        CompletionNotice, FinallyEnds, CancelArrives, CancelNoticeSent,
                        CancelEventSent, CancelledAgain, Raise
  <1>6. ASSUME NEW t \in Tasks, TaskStep(t) PROVE Undisturbed
      BY <1>1, <1>6 DEF TaskStep, Superstep, SuperstepRaises, TakeAnswer, StreamEnds, Settle,
                        PendingQuestion, ReadFails, SaveReview, BackfillEnds, Raise
  <1>7. ASSUME NEW t \in Resumes, UserMessage(t) \/ ResumeStep(t) PROVE Undisturbed
      BY <1>1, <1>7 DEF UserMessage, ResumeStep, StartResume, ReloadState
  <1> QED BY <1>2, <1>3, <1>4, <1>5, <1>6, <1>7 DEF Next

\* Nothing is owed before the first step.
LEMMA InitDebt == Init => HandlerInv /\ QuestionInv
  BY DEF Init, HandlerInv, QuestionInv, Paused, GraphStart

\* A step of a task that keeps it in the graph, or ends its invocation.
LEMMA TaskQuestion ==
  ASSUME Typed, QuestionInv, NEW t \in Tasks, TaskStep(t), Undisturbed, Undisturbed'
  PROVE  QuestionInv'
  <1> USE DEF control, registry, disk, accounting, outcome, ghost, At, Suspend
  <1>0. TypeOK /\ Run \in Tasks
      BY DEF Typed, Tasks
  <1>1. ~Raise(t)
      BY DEF Raise, Undisturbed
  <1>2. ASSUME pc[t] \notin Holding, \A u \in Tasks \ {t} : pc'[u] = pc[u],
               UNCHANGED <<handlers, checkpoint, chat>>
        PROVE  QuestionInv'
      BY <1>2 DEF QuestionInv, Holding
  <1>3. CASE Superstep(t) \/ TakeAnswer(t)
    <2>1. pc'[t] = "stream"
        BY <1>3 DEF Superstep, TakeAnswer
    <2> QED BY <2>1 DEF QuestionInv, Holding
  <1>4. CASE StreamEnds(t)
    <2>1. pc'[t] = "settle"
        BY <1>0, <1>4 DEF StreamEnds, TypeOK
    <2> QED BY <2>1 DEF QuestionInv, Holding
  <1>5. CASE Settle(t)
    <2>1. /\ \A u \in Tasks \ {t} : pc'[u] = pc[u]
          /\ chat' = PendingQuestion(t) /\ checkpoint' = checkpoint
          /\ \/ pc'[t] \in {"reload", "complete"}
             \/ handlers' = NoTask
        BY <1>0, <1>5 DEF Settle, DrainTokens, TypeOK
    <2>2. QuestionInv'
        BY <2>1 DEF QuestionInv, PendingQuestion
    <2> QED BY <2>2
  <1>6. CASE SaveReview(t) \/ BackfillEnds(t)
    <2>1. /\ pc[t] \in {"persist", "backfill"}
          /\ \A u \in Tasks \ {t} : pc'[u] = pc[u]
          /\ UNCHANGED <<handlers, checkpoint, chat>>
      <3>1. Leave(t) => \A u \in Tasks \ {t} : pc'[u] = pc[u]
          BY <1>0, LeaveMoves DEF TypeOK
      <3> QED BY <1>0, <1>1, <1>6, <3>1 DEF SaveReview, BackfillEnds, TypeOK
    <2> QED BY <1>2, <2>1 DEF Holding
  <1> QED BY <1>1, <1>3, <1>4, <1>5, <1>6 DEF TaskStep, SuperstepRaises, ReadFails

\* The other steps of the run task.
LEMMA RunQuestion ==
  ASSUME Typed, QuestionInv, TriggerReview \/ CloneThreadEnds \/ RunStep, Undisturbed, Undisturbed'
  PROVE  QuestionInv'
  <1> USE DEF control, registry, disk, accounting, outcome, ghost, At, Suspend
  <1>0. TypeOK /\ Run \in Tasks
      BY DEF Typed, Tasks
  <1>1. ~Raise(Run)
      BY DEF Raise, Undisturbed
  <1>2. ASSUME pc[Run] \notin Holding, \A u \in Tasks \ {Run} : pc'[u] = pc[u],
               UNCHANGED <<handlers, checkpoint, chat>>
        PROVE  QuestionInv'
      BY <1>2 DEF QuestionInv, Holding
  <1>3. CASE FetchPr \/ PrepareRepo
    <2>1. pc'[Run] = "stream"
        BY <1>0, <1>1, <1>3 DEF FetchPr, PrepareRepo, TypeOK
    <2> QED BY <1>0, <2>1 DEF QuestionInv, Holding
  <1>4. CASE CloneThreadEnds
      BY <1>4 DEF CloneThreadEnds, QuestionInv
  <1>5. CASE TriggerReview \/ StartClone \/ CloneReturns \/ FinallyEnds \/ CancelNoticeSent
    <2>1. /\ pc[Run] \notin Holding
          /\ \A u \in Tasks \ {Run} : pc'[u] = pc[u]
          /\ UNCHANGED <<handlers, checkpoint, chat>>
        BY <1>0, <1>1, <1>5 DEF TriggerReview, StartClone, CloneReturns, FinallyEnds, LogTaskEnds,
                                Unwind, CancelNoticeSent, Holding, TypeOK
    <2> QED BY <1>2, <2>1
  <1>6. CASE CancelEventSent \/ CancelledAgain
    <2>1. /\ pc[Run] \notin Holding
          /\ \A u \in Tasks \ {Run} : pc'[u] = pc[u]
          /\ UNCHANGED <<handlers, checkpoint, chat>>
        BY <1>0, <1>6, LeaveMoves DEF CancelEventSent, CancelledAgain, LeaveRun, Unwind, Holding,
                                      TypeOK
    <2> QED BY <1>2, <2>1
  <1>7. CASE AnnounceCompletion
    <2>1. /\ \A u \in Tasks \ {Run} : pc'[u] = pc[u]
          /\ pc[Run] = "complete" /\ handlers' = NoTask
          /\ chat \subseteq chat' /\ checkpoint' = checkpoint
        BY <1>0, <1>7 DEF AnnounceCompletion, CompletionNotice, DrainTokens, TypeOK
    <2>2. Undisturbed
        OBVIOUS
    <2> QED BY <2>1, <2>2 DEF QuestionInv, Holding
  <1>8. ~CancelArrives
      BY DEF CancelArrives, Undisturbed
  <1> QED BY <1>3, <1>4, <1>5, <1>6, <1>7, <1>8 DEF RunStep

\* Every step leaves a question that somebody is going to ask.
LEMMA StepQuestion == Typed /\ QuestionInv /\ [Next]_vars => QuestionInv'
  <1> SUFFICES ASSUME Typed, QuestionInv, [Next]_vars, Undisturbed' PROVE QuestionInv'
      BY DEF QuestionInv
  <1> USE DEF control, registry, disk, accounting, outcome, ghost, At, Suspend
  <1>0. TypeOK /\ Undisturbed /\ \A t \in Resumes : t \in Tasks
      BY Disturbance DEF Typed, Tasks
  <1>1. CASE UNCHANGED vars
      BY <1>1 DEF vars, QuestionInv, Undisturbed
  <1>2. CASE TriggerReview \/ CloneThreadEnds \/ RunStep
      BY <1>0, <1>2, RunQuestion
  <1>3. ASSUME NEW t \in Tasks, TaskStep(t) PROVE QuestionInv'
      BY <1>0, <1>3, TaskQuestion
  <1>4. ASSUME NEW t \in Resumes, UserMessage(t) PROVE QuestionInv'
    <2>1. /\ \A u \in Tasks \ {t} : pc'[u] = pc[u]
          /\ pc[t] = "idle"
          /\ UNCHANGED <<handlers, checkpoint, chat>>
        BY <1>0, <1>4 DEF UserMessage, TypeOK
    <2> QED BY <1>0, <2>1 DEF QuestionInv, Holding
  <1>5. ASSUME NEW t \in Resumes, StartResume(t) PROVE QuestionInv'
    <2>1. pc'[t] = "stream"
        BY <1>0, <1>5 DEF StartResume, TypeOK
    <2> QED BY <1>0, <2>1 DEF QuestionInv, Holding
  <1>6. ASSUME NEW t \in Resumes, ReloadState(t) PROVE QuestionInv'
    <2>1. /\ \A u \in Tasks \ {t} : pc'[u] = pc[u]
          /\ pc[t] = "reload" /\ handlers' = NoTask
          /\ UNCHANGED <<checkpoint, chat>>
        BY <1>0, <1>6 DEF ReloadState, DrainTokens, TypeOK
    <2> QED BY <1>0, <2>1 DEF QuestionInv
  <1>7. CASE Cancel
      BY <1>0, <1>7 DEF Cancel, QuestionInv
  <1>8. CASE Crash
      BY <1>0, <1>8 DEF Crash, Undisturbed, TypeOK
  <1> QED BY <1>1, <1>2, <1>3, <1>4, <1>5, <1>6, <1>7, <1>8 DEF Next, ResumeStep

\* No step leaves a handler behind but those that raise and those of Stop.
LEMMA StepHandler == Typed /\ HandlerInv /\ [Next]_vars => HandlerInv'
  <1> SUFFICES ASSUME Typed, HandlerInv, [Next]_vars PROVE HandlerInv'
      OBVIOUS
  <1> USE DEF control, registry, disk, accounting, outcome, ghost, At, Suspend
  <1>0. /\ TypeOK /\ Run \in Tasks /\ NoTask \notin Tasks
        /\ \A t \in Resumes : t \in Tasks
      BY NoTaskAssumption DEF Typed, Tasks
  <1>1. ASSUME NEW t \in Tasks, \A u \in Tasks \ {t} : pc'[u] = pc[u],
               handlers' = handlers, failed \subseteq failed', chat \subseteq chat',
               \/ pc[t] \notin Holding
               \/ pc'[t] \in Holding
               \/ t \in failed'
               \/ t = Run /\ CancelledNotice \in chat'
        PROVE  HandlerInv'
      BY <1>0, <1>1 DEF HandlerInv, TypeOK
  <1>2. ASSUME NEW t \in Tasks, \A u \in Tasks \ {t} : pc'[u] = pc[u],
               pc'[t] \in Holding, TakeHandler(t), UNCHANGED <<failed, chat>>
        PROVE  HandlerInv'
      BY <1>0, <1>2 DEF HandlerInv, TakeHandler, TypeOK
  <1>3. ASSUME handlers' = NoTask PROVE HandlerInv'
      BY <1>3 DEF HandlerInv
  <1>4. CASE UNCHANGED vars
      BY <1>4 DEF vars, HandlerInv
  <1>5. CASE Crash
      BY <1>3, <1>5 DEF Crash
  <1>6. CASE CloneThreadEnds \/ Cancel
      BY <1>6 DEF CloneThreadEnds, Cancel, HandlerInv
  <1>7. CASE TriggerReview \/ StartClone \/ CancelNoticeSent \/ FinallyEnds
    <2>1. /\ \A u \in Tasks \ {Run} : pc'[u] = pc[u]
          /\ pc[Run] \notin Holding
          /\ UNCHANGED <<handlers, failed, chat>>
        BY <1>0, <1>7 DEF TriggerReview, StartClone, CancelNoticeSent, FinallyEnds, LogTaskEnds,
                          Unwind, Holding, TypeOK
    <2> QED BY <1>0, <1>1, <2>1
  <1>8. ASSUME NEW t \in Tasks, Leave(t) PROVE \A u \in Tasks \ {t} : pc'[u] = pc[u]
      BY <1>0, <1>8, LeaveMoves DEF TypeOK
  <1>9. ASSUME NEW t \in Tasks, Raise(t), UNCHANGED <<handlers, chat>> PROVE HandlerInv'
    <2>1. Leave(t) /\ failed' = failed \cup {t}
        BY <1>9 DEF Raise
    <2> QED BY <1>1, <1>8, <1>9, <2>1
  <1>10. CASE FetchPr \/ PrepareRepo
    <2>1. CASE Raise(Run) /\ UNCHANGED <<handlers, handler>>
        BY <1>0, <1>9, <1>10, <2>1 DEF FetchPr, PrepareRepo
    <2>2. CASE Suspend(Run, "stream") /\ TakeHandler(Run) /\ UNCHANGED failed
      <3>1. /\ \A u \in Tasks \ {Run} : pc'[u] = pc[u]
            /\ pc'[Run] \in Holding
            /\ UNCHANGED chat
          BY <1>0, <1>10, <2>2 DEF FetchPr, PrepareRepo, Holding, TypeOK
      <3> QED BY <1>0, <1>2, <2>2, <3>1
    <2> QED BY <1>10, <2>1, <2>2 DEF FetchPr, PrepareRepo
  <1>11. CASE CloneReturns
    <2>1. CASE Suspend(Run, "cloned") /\ UNCHANGED failed
        BY <1>0, <1>1, <1>11, <2>1 DEF CloneReturns, Holding, TypeOK
    <2>2. CASE Raise(Run)
        BY <1>0, <1>9, <1>11, <2>2 DEF CloneReturns
    <2> QED BY <1>11, <2>1, <2>2 DEF CloneReturns
  <1>12. CASE AnnounceCompletion
      BY <1>3, <1>12 DEF AnnounceCompletion, DrainTokens
  <1>13. CASE CancelArrives
    <2>1. /\ \A u \in Tasks \ {Run} : pc'[u] = pc[u]
          /\ UNCHANGED <<handlers, failed>>
          /\ chat \subseteq chat' /\ CancelledNotice \in chat'
        BY <1>0, <1>13 DEF CancelArrives, TypeOK
    <2> QED BY <1>0, <1>1, <2>1
  <1>14. CASE CancelEventSent \/ CancelledAgain
    <2>1. /\ pc[Run] \notin Holding
          /\ UNCHANGED <<handlers, failed, chat>>
          /\ \A u \in Tasks \ {Run} : pc'[u] = pc[u]
        BY <1>0, <1>14, <1>8 DEF CancelEventSent, CancelledAgain, LeaveRun, Unwind, Holding, TypeOK
    <2> QED BY <1>0, <1>1, <2>1
  <1>15. CASE RunStep
      BY <1>7, <1>10, <1>11, <1>12, <1>13, <1>14, <1>15 DEF RunStep
  <1>16. ASSUME NEW t \in Tasks, Superstep(t) \/ TakeAnswer(t) \/ StreamEnds(t)
         PROVE  HandlerInv'
    <2>1. /\ \A u \in Tasks \ {t} : pc'[u] = pc[u]
          /\ pc'[t] \in Holding
          /\ UNCHANGED <<handlers, failed, chat>>
        BY <1>0, <1>16 DEF Superstep, TakeAnswer, StreamEnds, Holding, TypeOK
    <2> QED BY <1>1, <2>1
  <1>17. ASSUME NEW t \in Tasks, SuperstepRaises(t) \/ ReadFails(t) PROVE HandlerInv'
      BY <1>9, <1>17 DEF SuperstepRaises, ReadFails
  <1>18. ASSUME NEW t \in Tasks, Settle(t) PROVE HandlerInv'
    <2>1. CASE DrainTokens(t)
        BY <1>3, <2>1 DEF DrainTokens
    <2>2. CASE ~DrainTokens(t)
      <3>1. /\ \A u \in Tasks \ {t} : pc'[u] = pc[u]
            /\ pc'[t] \in Holding
            /\ UNCHANGED <<handlers, failed>> /\ chat \subseteq chat'
          BY <1>0, <1>18, <2>2 DEF Settle, PendingQuestion, Holding, TypeOK
      <3> QED BY <1>1, <3>1
    <2> QED BY <2>1, <2>2
  <1>19. ASSUME NEW t \in Tasks, SaveReview(t) \/ BackfillEnds(t) PROVE HandlerInv'
    <2>1. CASE Raise(t)
        BY <1>9, <1>19, <2>1 DEF SaveReview, BackfillEnds
    <2>2. CASE ~Raise(t)
      <3>1. /\ pc[t] \notin Holding
            /\ UNCHANGED <<handlers, failed, chat>>
            /\ \A u \in Tasks \ {t} : pc'[u] = pc[u]
          BY <1>0, <1>8, <1>19, <2>2 DEF SaveReview, BackfillEnds, Holding, TypeOK
      <3> QED BY <1>1, <3>1
    <2> QED BY <2>1, <2>2
  <1>20. ASSUME NEW t \in Resumes, UserMessage(t) PROVE HandlerInv'
    <2>1. /\ \A u \in Tasks \ {t} : pc'[u] = pc[u]
          /\ pc[t] \notin Holding
          /\ UNCHANGED <<handlers, failed, chat>>
        BY <1>0, <1>20 DEF UserMessage, Holding, TypeOK
    <2> QED BY <1>0, <1>1, <2>1
  <1>21. ASSUME NEW t \in Resumes, StartResume(t) PROVE HandlerInv'
    <2>1. /\ \A u \in Tasks \ {t} : pc'[u] = pc[u]
          /\ pc'[t] \in Holding /\ TakeHandler(t) /\ UNCHANGED <<failed, chat>>
        BY <1>0, <1>21 DEF StartResume, Holding, TypeOK
    <2> QED BY <1>0, <1>2, <2>1
  <1>22. ASSUME NEW t \in Resumes, ReloadState(t) PROVE HandlerInv'
      BY <1>3, <1>22 DEF ReloadState, DrainTokens
  <1> QED BY <1>4, <1>5, <1>6, <1>7, <1>15, <1>16, <1>17, <1>18, <1>19, <1>20, <1>21, <1>22
          DEF Next, TaskStep, ResumeStep

LEMMA DebtAlways == Spec => [](HandlerInv /\ QuestionInv)
  BY InitDebt, StepHandler, StepQuestion, TypedAlways, PTL DEF Spec

\* Whatever tasks took turns or overlapped, and however they ended, a handler
\* left in the dictionary is that of a task under way, failed or stopped.
THEOREM HandlersAreDrained == Spec => []HandlersAreDropped
  <1>1. HandlerInv => HandlersAreDropped
      BY DEF HandlerInv, HandlersAreDropped, Active, Holding
  <1> QED BY <1>1, DebtAlways, PTL

-----------------------------------------------------------------------------
(* One task at a time.  When the user writes only while no task of the thread  *)
(* runs, the state a task holds and the newest checkpoint are the same, so the   *)
(* checkpoint tells what has been published, saved and said.                   *)

Starting == {"idle", "fetch", "announce", "clone", "cloned"}
InStep == {"stream", "settle", "complete", "reload", "persist", "backfill"}
ToBeSaved == {"stream", "settle", "complete", "reload", "persist"}

Alone == \A t, u \in Tasks : Active(t) /\ Active(u) => t = u

\* Until the graph starts, there is nothing.
FreshInv ==
  pc[Run] \in Starting =>
    /\ checkpoint = GraphStart /\ graph[Run] = GraphStart
    /\ published = 0 /\ row = NoRow /\ chat = {}
    /\ \A t \in Resumes : pc[t] = "idle"

\* The task that runs is where the checkpoint is.
InStepInv ==
  /\ ~Checkpointer => checkpoint = GraphStart
  /\ \A t \in Tasks :
       /\ pc[t] = "created" => Paused(checkpoint)
       /\ pc[t] \in InStep /\ Checkpointer => graph[t] = checkpoint
       /\ pc[t] \in {"settle", "complete"} => graph[t].at \in {"END", "interrupt"}

\* Once the report is out, no task is left that could deliver it again.
PublishedInv ==
  published # 0 =>
    /\ published = 1
    /\ ~Paused(checkpoint)
    /\ \A t \in Tasks : pc[t] = "stream" => graph[t].at = "END"

\* What was published without a disturbance has been saved, or is going to be.
SavedInv ==
  (Undisturbed /\ Checkpointer /\ published # 0) =>
    /\ checkpoint.at = "END"
    /\ \/ row.present /\ row.state.at = "END"
       \/ \E t \in Tasks : pc[t] \in ToBeSaved

\* The completion notice, before and after it is due.
CompletionInv ==
  /\ CompleteNotice \in chat => checkpoint.at = "END" \/ ~Checkpointer
  /\ (/\ pc[Run] \in {"persist", "backfill", "finally", "done"}
      /\ Undisturbed /\ mode = "repo" /\ checkpoint.at = "END"
      /\ \A t \in Resumes : pc[t] = "idle") => CompleteNotice \in chat

SerialInv ==
  Alone /\ FreshInv /\ InStepInv /\ PublishedInv /\ SavedInv /\ CompletionInv

\* Before the first step.
LEMMA InitSerial == Init => SerialInv
  <1> SUFFICES ASSUME Init PROVE SerialInv
      OBVIOUS
  <1> USE DEF Init, GraphStart
  <1>1. Run \in Tasks /\ \A t \in Resumes : t \in Tasks
      BY DEF Tasks
  <1>2. Alone /\ FreshInv
      BY <1>1 DEF Alone, Active, FreshInv
  <1>3. InStepInv /\ PublishedInv
      BY DEF InStepInv, PublishedInv, InStep
  <1>4. SavedInv /\ CompletionInv
      BY <1>1 DEF SavedInv, CompletionInv
  <1> QED BY <1>2, <1>3, <1>4 DEF SerialInv

\* A step of the only task that runs leaves it, or nobody, running.
LEMMA AloneMoves ==
  ASSUME Alone, NEW t \in Tasks, Active(t), \A u \in Tasks \ {t} : pc'[u] = pc[u]
  PROVE  Alone' /\ \A u \in Tasks \ {t} : pc[u] \in {"idle", "done"} /\ pc'[u] = pc[u]
  <1>1. \A u \in Tasks \ {t} : pc[u] \in {"idle", "done"}
      BY DEF Alone, Active
  <1>2. Alone'
      BY <1>1 DEF Alone, Active
  <1> QED BY <1>1, <1>2

\* A step that only moves the task along its way, and may add to the chat.
LEMMA MoveSerial ==
  ASSUME TypeOK, SerialInv, Undisturbed' => Undisturbed,
         NEW t \in Tasks, Active(t), \A u \in Tasks \ {t} : pc'[u] = pc[u],
         UNCHANGED <<mode, graph, checkpoint, published, row>>,
         chat \subseteq chat',
         pc[t] \in Starting => chat' = chat,
         CompleteNotice \in chat' =>
           CompleteNotice \in chat \/ checkpoint.at = "END" \/ ~Checkpointer,
         pc'[t] \notin {"created", "idle"},
         t = Run /\ pc'[t] \in Starting => pc[t] \in Starting,
         pc'[t] \in InStep => pc[t] \in InStep \/ (t = Run /\ pc[t] \in Starting),
         pc'[t] = "stream" => t = Run /\ pc[t] \in Starting,
         pc'[t] \in {"settle", "complete"} => graph[t].at \in {"END", "interrupt"},
         Undisturbed' /\ pc[t] \in ToBeSaved => pc'[t] \in ToBeSaved,
         t = Run /\ Undisturbed' /\ mode = "repo" /\ checkpoint.at = "END"
             /\ pc'[t] \in {"persist", "backfill", "finally", "done"}
           => pc[t] \in {"persist", "backfill", "finally", "done"} \/ CompleteNotice \in chat'
  PROVE  SerialInv'
  <1>0. Run \in Tasks /\ \A u \in Resumes : u \in Tasks /\ u # Run
      BY ResumesAssumption DEF Tasks
  <1>1. Alone' /\ \A u \in Tasks \ {t} : pc[u] \in {"idle", "done"} /\ pc'[u] = pc[u]
      BY AloneMoves DEF SerialInv
  <1>2. FreshInv'
    <2>1. CASE t = Run
        BY <1>0, <1>1, <2>1 DEF SerialInv, FreshInv
    <2>2. CASE t # Run
      <3>1. pc[Run] \notin Starting
          BY <1>0, <1>1, <2>2 DEF SerialInv, FreshInv, Starting, Active, Tasks
      <3> QED BY <1>0, <1>1, <2>2, <3>1 DEF FreshInv
    <2> QED BY <2>1, <2>2
  <1>3. InStepInv'
    <2>1. ASSUME NEW u \in Tasks, u # t
          PROVE  pc'[u] # "created" /\ pc'[u] \notin InStep
        BY <1>1, <2>1 DEF InStep
    <2>2. pc'[t] \in InStep /\ Checkpointer => graph[t] = checkpoint
        BY DEF SerialInv, InStepInv, FreshInv
    <2> QED BY <2>1, <2>2 DEF SerialInv, InStepInv, InStep
  <1>4. PublishedInv'
      BY <1>0, <1>1 DEF SerialInv, PublishedInv, FreshInv
  <1>6. SavedInv'
      BY <1>1 DEF SerialInv, SavedInv
  <1>7. CompletionInv'
    <2>1. CASE t = Run
        BY <1>0, <1>1, <2>1 DEF SerialInv, CompletionInv
    <2>2. CASE t # Run
      <3>1. t \in Resumes
          BY <2>2 DEF Tasks
      <3> QED BY <1>0, <1>1, <2>2, <3>1 DEF SerialInv, CompletionInv
    <2> QED BY <2>1, <2>2
  <1> QED BY <1>1, <1>2, <1>3, <1>4, <1>6, <1>7 DEF SerialInv

\* An exception moves the task to its end in a thread that is then disturbed.
LEMMA RaiseSerial ==
  ASSUME TypeOK, SerialInv, Undisturbed' => Undisturbed,
         NEW t \in Tasks, Active(t), Raise(t),
         UNCHANGED <<mode, graph, checkpoint, published, row, chat>>
  PROVE  SerialInv'
  <1>1. /\ pc'[t] \in {"finally", "done"}
        /\ \A u \in Tasks \ {t} : pc'[u] = pc[u]
      BY LeaveMoves DEF Raise, TypeOK
  <1>2. ~Undisturbed'
      BY DEF Raise, Undisturbed
  <1> QED BY <1>1, <1>2, MoveSerial DEF Starting, InStep

\* Up to the graph.
LEMMA StartSerial ==
  ASSUME Typed, SerialInv, Undisturbed' => Undisturbed,
         TriggerReview \/ FetchPr \/ StartClone \/ CloneThreadEnds \/ CloneReturns \/ PrepareRepo
  PROVE  SerialInv'
  <1> USE DEF control, registry, disk, accounting, outcome, ghost, At, Suspend
  <1>0. TypeOK /\ Run \in Tasks /\ \A u \in Resumes : u \in Tasks /\ u # Run
      BY ResumesAssumption DEF Typed, Tasks
  <1>1. CASE TriggerReview
    <2>1. /\ pc[Run] = "idle" /\ pc'[Run] \in {"fetch", "announce"}
          /\ \A u \in Resumes : pc[u] = "idle" /\ pc'[u] = pc[u]
          /\ UNCHANGED <<mode, graph, checkpoint, published, row, chat, failed, crashes>>
        BY <1>0, <1>1 DEF TriggerReview, TypeOK, SerialInv, FreshInv, Starting
    <2>2. /\ checkpoint = GraphStart /\ graph[Run] = GraphStart
          /\ published = 0 /\ row = NoRow /\ chat = {}
        BY <2>1 DEF SerialInv, FreshInv, Starting
    <2>3. Alone' /\ FreshInv'
        BY <1>0, <2>1, <2>2 DEF Alone, Active, FreshInv, Tasks
    <2>4. InStepInv' /\ PublishedInv'
        BY <2>1, <2>2 DEF SerialInv, InStepInv, PublishedInv, InStep, Tasks
    <2>5. SavedInv' /\ CompletionInv'
        BY <2>1, <2>2 DEF SerialInv, SavedInv, CompletionInv
    <2> QED BY <2>3, <2>4, <2>5 DEF SerialInv
  <1>2. CASE CloneThreadEnds
    <2>1. UNCHANGED <<mode, pc, graph, checkpoint, published, row, chat, failed, crashes>>
        BY <1>2 DEF CloneThreadEnds
    <2> QED BY <2>1 DEF SerialInv, Alone, Active, FreshInv, InStepInv, PublishedInv, SavedInv,
                        CompletionInv, Undisturbed
  <1>3. CASE StartClone
    <2>1. /\ pc[Run] = "announce" /\ pc'[Run] = "clone"
          /\ \A u \in Tasks \ {Run} : pc'[u] = pc[u]
          /\ UNCHANGED <<mode, graph, checkpoint, published, row, chat>>
        BY <1>0, <1>3 DEF StartClone, TypeOK
    <2> QED BY <1>0, <2>1, MoveSerial DEF Active, Starting, InStep, ToBeSaved
  <1>4. CASE FetchPr \/ CloneReturns \/ PrepareRepo
    <2>1. /\ Active(Run)
          /\ UNCHANGED <<mode, graph, checkpoint, published, row, chat>>
          /\ \/ Raise(Run)
             \/ /\ pc[Run] \in {"fetch", "clone", "cloned"} /\ pc'[Run] \in {"cloned", "stream"}
                /\ \A u \in Tasks \ {Run} : pc'[u] = pc[u]
        BY <1>0, <1>4 DEF FetchPr, CloneReturns, PrepareRepo, Active, TypeOK
    <2>2. CASE Raise(Run)
        BY <1>0, <2>1, <2>2, RaiseSerial
    <2>3. CASE ~Raise(Run)
        BY <1>0, <2>1, <2>3, MoveSerial DEF Starting, InStep, ToBeSaved
    <2> QED BY <2>2, <2>3
  <1> QED BY <1>1, <1>2, <1>3, <1>4

\* A superstep: the checkpoint goes on with the task.
LEMMA SuperstepSerial ==
  ASSUME Typed, SerialInv, Undisturbed' => Undisturbed, NEW t \in Tasks, Superstep(t)
  PROVE  SerialInv'
  <1> USE DEF control, registry, disk, accounting, outcome, ghost, At, Suspend
  <1>0. /\ TypeOK /\ Run \in Tasks /\ Readable \in BOOLEAN
        /\ Sound(graph[t]) /\ Sound(checkpoint)
        /\ \A u \in Resumes : u \in Tasks /\ u # Run
      BY ResumesAssumption DEF Typed, StatesAreSound, Tasks, Readable
  <1>1. PICK h \in Successors(graph[t], Readable) :
          /\ graph' = [graph EXCEPT ![t] = h]
          /\ checkpoint' = IF Checkpointer THEN h ELSE checkpoint
      BY DEF Superstep
  <1>2. /\ Sound(h) /\ graph[t].passes <= h.passes
        /\ graph[t].at \notin {"interrupt", "END", "failed"}
        /\ graph[t].at = "publish_report" => h.at = "END"
      BY <1>0, <1>1, SuccessorSound
  <1>3. /\ pc[t] = "stream" /\ Active(t)
        /\ UNCHANGED <<mode, pc, row, chat, failed, crashes>>
        /\ published' = IF graph[t].at = "publish_report" THEN published + 1 ELSE published
      BY DEF Superstep, Active
  <1>4. /\ \A u \in Tasks \ {t} : pc[u] \in {"idle", "done"}
        /\ pc[Run] \notin Starting
        /\ published = 0 /\ graph'[t] = h
        /\ Checkpointer => graph[t] = checkpoint
    <2>1. \A u \in Tasks \ {t} : pc[u] \in {"idle", "done"}
        BY <1>3 DEF SerialInv, Alone, Active
    <2>2. pc[Run] \notin Starting
        BY <1>0, <1>3, <2>1 DEF SerialInv, FreshInv, Starting, Tasks
    <2>3. published = 0
        BY <1>2, <1>3 DEF SerialInv, PublishedInv
    <2>4. Checkpointer => graph[t] = checkpoint
        BY <1>3 DEF SerialInv, InStepInv, InStep
    <2> QED BY <1>0, <1>1, <2>1, <2>2, <2>3, <2>4 DEF TypeOK
  <1>5. Alone' /\ FreshInv'
      BY <1>3, <1>4 DEF SerialInv, Alone, Active, FreshInv
  <1>6. InStepInv'
    <2>1. \A u \in Tasks \ {t} : pc'[u] # "created" /\ pc'[u] \notin InStep
        BY <1>3, <1>4 DEF InStep
    <2>2. /\ pc'[t] = "stream" /\ (Checkpointer => graph'[t] = checkpoint')
          /\ (~Checkpointer => checkpoint' = GraphStart)
        BY <1>1, <1>3, <1>4 DEF SerialInv, InStepInv
    <2> QED BY <2>1, <2>2 DEF InStepInv, InStep
  <1>7. PublishedInv'
    <2>1. CASE graph[t].at # "publish_report"
        BY <1>3, <1>4, <2>1 DEF PublishedInv
    <2>2. CASE graph[t].at = "publish_report"
      <3>1. published' = 1 /\ graph'[t].at = "END"
          BY <1>2, <1>3, <1>4, <2>2
      <3>2. ~Paused(checkpoint')
          BY <1>1, <1>2, <2>2, StartSound DEF Paused, SerialInv, InStepInv, GraphStart
      <3> QED BY <1>3, <1>4, <3>1, <3>2 DEF PublishedInv
    <2> QED BY <2>1, <2>2
  <1>9. SavedInv'
    <2>1. pc'[t] \in ToBeSaved
        BY <1>3 DEF ToBeSaved
    <2>2. (Checkpointer /\ published' # 0) => checkpoint'.at = "END"
        BY <1>1, <1>2, <1>3, <1>4
    <2> QED BY <2>1, <2>2 DEF SavedInv
  <1>10. CompletionInv'
    <2>1. CASE ~Checkpointer
      <3>1. checkpoint'.at # "END"
          BY <1>1, <2>1 DEF SerialInv, InStepInv, GraphStart
      <3> QED BY <2>1, <3>1 DEF CompletionInv
    <2>2. CASE Checkpointer
      <3>1. CompleteNotice \notin chat
          BY <1>2, <1>4, <2>2 DEF SerialInv, CompletionInv
      <3>2. CASE t = Run
          BY <1>3, <3>1, <3>2 DEF CompletionInv
      <3>3. CASE t # Run
        <4>1. t \in Resumes /\ pc'[t] # "idle"
            BY <1>3, <3>3 DEF Tasks
        <4> QED BY <1>3, <3>1, <4>1 DEF CompletionInv
      <3> QED BY <3>2, <3>3
    <2> QED BY <2>1, <2>2
  <1> QED BY <1>5, <1>6, <1>7, <1>9, <1>10 DEF SerialInv

\* A superstep that raises may have delivered the report, but it ends the task.
LEMMA RaisesSerial ==
  ASSUME Typed, SerialInv, NEW t \in Tasks, SuperstepRaises(t)
  PROVE  SerialInv'
  <1> USE DEF control, registry, disk, accounting, outcome, ghost, At, Suspend
  <1>0. /\ TypeOK /\ Run \in Tasks /\ Readable \in BOOLEAN
        /\ Sound(graph[t])
        /\ \A u \in Resumes : u \in Tasks /\ u # Run
      BY ResumesAssumption DEF Typed, StatesAreSound, Tasks, Readable
  <1>1. /\ pc[t] = "stream" /\ pc'[t] \in {"finally", "done"}
        /\ \A u \in Tasks \ {t} : pc'[u] = pc[u]
        /\ UNCHANGED <<mode, checkpoint, row, chat>>
        /\ published' = IF graph[t].at = "publish_report" THEN published + 1 ELSE published
      BY <1>0, LeaveMoves DEF SuperstepRaises, Raise, TypeOK
  <1>2. ~Undisturbed'
      BY DEF SuperstepRaises, Raise, Undisturbed
  <1>3. /\ \A u \in Tasks \ {t} : pc[u] \in {"idle", "done"}
        /\ pc[Run] \notin Starting
        /\ graph[t].at = "publish_report" => published = 0
        /\ Checkpointer => graph[t] = checkpoint
    <2>1. \A u \in Tasks \ {t} : pc[u] \in {"idle", "done"}
        BY <1>1 DEF SerialInv, Alone, Active
    <2>2. pc[Run] \notin Starting
        BY <1>0, <1>1, <2>1 DEF SerialInv, FreshInv, Starting, Tasks
    <2>3. graph[t].at = "publish_report" => published = 0
        BY <1>1 DEF SerialInv, PublishedInv
    <2>4. Checkpointer => graph[t] = checkpoint
        BY <1>1 DEF SerialInv, InStepInv, InStep
    <2> QED BY <2>1, <2>2, <2>3, <2>4
  <1>4. \A u \in Tasks : pc'[u] \in {"idle", "finally", "done"}
      BY <1>1, <1>3
  <1>5. Alone' /\ FreshInv'
    <2>1. pc'[Run] \notin Starting
        BY <1>0, <1>1, <1>3 DEF Starting
    <2> QED BY <1>1, <1>3, <2>1 DEF Alone, Active, FreshInv
  <1>6. InStepInv'
      BY <1>1, <1>4 DEF SerialInv, InStepInv, InStep
  <1>7. PublishedInv'
    <2>1. CASE graph[t].at # "publish_report"
        BY <1>1, <1>4, <2>1 DEF SerialInv, PublishedInv
    <2>2. CASE graph[t].at = "publish_report"
      <3>1. published' = 1
          BY <1>1, <1>3, <2>2
      <3>2. ~Paused(checkpoint)
          BY <1>3, <2>2 DEF Paused, SerialInv, InStepInv, GraphStart
      <3> QED BY <1>1, <1>4, <3>1, <3>2 DEF PublishedInv, Paused
    <2> QED BY <2>1, <2>2
  <1>8. SavedInv' /\ CompletionInv'
      BY <1>1, <1>2 DEF SerialInv, SavedInv, CompletionInv
  <1> QED BY <1>5, <1>6, <1>7, <1>8 DEF SerialInv

\* The answer takes the checkpoint on, which had been waiting for it.
LEMMA AnswerSerial ==
  ASSUME Typed, SerialInv, Undisturbed' => Undisturbed, NEW t \in Tasks, TakeAnswer(t)
  PROVE  SerialInv'
  <1> USE DEF control, registry, disk, accounting, outcome, ghost, At, Suspend
  <1>0. /\ TypeOK /\ Run \in Tasks /\ Sound(graph[t]) /\ Paused(graph[t])
        /\ \A u \in Resumes : u \in Tasks /\ u # Run
      BY ResumesAssumption DEF Typed, StatesAreSound, Tasks, TakeAnswer
  <1>1. PICK answer \in Answers :
          /\ graph' = [graph EXCEPT ![t] = Resume(graph[t], answer)]
          /\ checkpoint' = Resume(graph[t], answer)
      BY DEF TakeAnswer
  <1> DEFINE h == Resume(graph[t], answer)
  <1>2. h.passes = graph[t].passes /\ h.at \in {"reviewers", "aggregate_results"}
      BY <1>0, ResumeSound
  <1> HIDE DEF h
  <1>3. /\ pc[t] = "stream" /\ graph'[t] = h /\ checkpoint' = h /\ Checkpointer
        /\ UNCHANGED <<mode, pc, row, chat, failed, crashes, published>>
      BY <1>0, <1>1 DEF TakeAnswer, TypeOK, Sound, Paused, h
  <1>4. /\ \A u \in Tasks \ {t} : pc[u] \in {"idle", "done"}
        /\ pc[Run] \notin Starting
        /\ graph[t] = checkpoint
    <2>1. \A u \in Tasks \ {t} : pc[u] \in {"idle", "done"}
        BY <1>3 DEF SerialInv, Alone, Active
    <2>2. pc[Run] \notin Starting
        BY <1>0, <1>3, <2>1 DEF SerialInv, FreshInv, Starting, Tasks
    <2> QED BY <1>3, <2>1, <2>2 DEF SerialInv, InStepInv, InStep
  <1>5. published = 0 /\ CompleteNotice \notin chat
      BY <1>0, <1>3, <1>4 DEF SerialInv, PublishedInv, CompletionInv, Paused
  <1>6. Alone' /\ FreshInv'
      BY <1>3, <1>4 DEF SerialInv, Alone, Active, FreshInv
  <1>7. InStepInv' /\ PublishedInv'
    <2>1. \A u \in Tasks \ {t} : pc'[u] # "created" /\ pc'[u] \notin InStep
        BY <1>3, <1>4 DEF InStep
    <2> QED BY <1>3, <1>5, <2>1 DEF InStepInv, InStep, PublishedInv
  <1>8. SavedInv' /\ CompletionInv'
      BY <1>2, <1>3, <1>4, <1>5 DEF SerialInv, SavedInv, CompletionInv
  <1> QED BY <1>6, <1>7, <1>8 DEF SerialInv

\* The end of an invocation, and the steps of a task that only pass it on.
LEMMA PassingSerial ==
  ASSUME Typed, SerialInv, Undisturbed' => Undisturbed, NEW t \in Tasks,
         StreamEnds(t) \/ ReadFails(t) \/ BackfillEnds(t) \/ FinallyEnds
  PROVE  SerialInv'
  <1> USE DEF control, registry, disk, accounting, outcome, ghost, At, Suspend
  <1>0. TypeOK /\ Run \in Tasks
      BY DEF Typed, Tasks
  <1>1. CASE StreamEnds(t)
    <2>1. /\ pc[t] = "stream" /\ pc'[t] = "settle" /\ graph[t].at \in {"END", "interrupt"}
          /\ \A u \in Tasks \ {t} : pc'[u] = pc[u]
          /\ UNCHANGED <<mode, graph, checkpoint, published, row, chat>>
        BY <1>0, <1>1 DEF StreamEnds, Paused, TypeOK
    <2> QED BY <1>0, <2>1, MoveSerial DEF Active, Starting, InStep, ToBeSaved
  <1>2. CASE ReadFails(t)
      BY <1>0, <1>2, RaiseSerial DEF ReadFails, Active
  <1>3. CASE BackfillEnds(t)
    <2>1. /\ pc[t] = "backfill" /\ pc'[t] \in {"finally", "done"}
          /\ \A u \in Tasks \ {t} : pc'[u] = pc[u]
          /\ UNCHANGED <<mode, graph, checkpoint, published, row, chat>>
        BY <1>0, <1>3, LeaveMoves DEF BackfillEnds, TypeOK
    <2> QED BY <1>0, <2>1, MoveSerial DEF Active, Starting, InStep, ToBeSaved
  <1>4. CASE FinallyEnds
    <2>1. /\ pc[Run] = "finally" /\ pc'[Run] = "done"
          /\ \A u \in Tasks \ {Run} : pc'[u] = pc[u]
          /\ UNCHANGED <<mode, graph, checkpoint, published, row, chat>>
        BY <1>0, <1>4 DEF FinallyEnds, LogTaskEnds, Unwind, TypeOK
    <2> QED BY <1>0, <2>1, MoveSerial DEF Active, Starting, InStep, ToBeSaved
  <1> QED BY <1>1, <1>2, <1>3, <1>4

\* After the invocation: what is asked and announced belongs to the checkpoint.
LEMMA SettleSerial ==
  ASSUME Typed, SerialInv, Undisturbed' => Undisturbed, NEW t \in Tasks,
         Settle(t) \/ AnnounceCompletion
  PROVE  SerialInv'
  <1> USE DEF control, registry, disk, accounting, outcome, ghost, At, Suspend
  <1>0. TypeOK /\ Run \in Tasks
      BY DEF Typed, Tasks
  <1>1. CASE Settle(t)
    <2>1. /\ pc[t] = "settle" /\ pc'[t] \in {"reload", "complete", "persist"}
          /\ t = Run /\ mode = "repo" => pc'[t] = "complete"
          /\ pc'[t] = "complete" => t = Run
          /\ \A u \in Tasks \ {t} : pc'[u] = pc[u]
          /\ UNCHANGED <<mode, graph, checkpoint, published, row>>
          /\ chat' = PendingQuestion(t)
        BY <1>0, <1>1 DEF Settle, TypeOK
    <2>2. CompleteNotice \in chat' => CompleteNotice \in chat
        BY <2>1 DEF PendingQuestion, CompleteNotice, QuestionAfter
    <2>3. chat \subseteq chat'
        BY <2>1 DEF PendingQuestion
    <2>4. graph[t].at \in {"END", "interrupt"}
        BY <2>1 DEF SerialInv, InStepInv
    <2> QED BY <1>0, <2>1, <2>2, <2>3, <2>4, MoveSerial DEF Active, Starting, InStep, ToBeSaved
  <1>2. CASE AnnounceCompletion
    <2>1. /\ pc[Run] = "complete" /\ pc'[Run] = "persist"
          /\ \A u \in Tasks \ {Run} : pc'[u] = pc[u]
          /\ UNCHANGED <<mode, graph, checkpoint, published, row>>
          /\ chat' = CompletionNotice
        BY <1>0, <1>2 DEF AnnounceCompletion, TypeOK
    <2>2. checkpoint.at \in {"END", "interrupt"} \/ ~Checkpointer
        BY <1>0, <2>1 DEF SerialInv, InStepInv, InStep
    <2>3. /\ CompleteNotice \in chat' =>
               CompleteNotice \in chat \/ checkpoint.at = "END" \/ ~Checkpointer
          /\ chat \subseteq chat'
          /\ checkpoint.at = "END" => CompleteNotice \in chat'
        BY <2>1, <2>2 DEF CompletionNotice, Paused
    <2> QED BY <1>0, <2>1, <2>3, MoveSerial DEF Active, Starting, InStep, ToBeSaved
  <1> QED BY <1>1, <1>2

\* A resume task takes what it persists from the checkpoint it has written.
LEMMA ReloadSerial ==
  ASSUME Typed, SerialInv, Undisturbed' => Undisturbed, NEW t \in Resumes, ReloadState(t)
  PROVE  SerialInv'
  <1> USE DEF control, registry, disk, accounting, outcome, ghost, At, Suspend
  <1>0. TypeOK /\ Run \in Tasks /\ t \in Tasks /\ t # Run
      BY ResumesAssumption DEF Typed, Tasks
  <1>1. /\ pc[t] = "reload" /\ pc'[t] = "persist" /\ Active(t)
        /\ \A u \in Tasks \ {t} : pc'[u] = pc[u] /\ graph'[u] = graph[u]
        /\ graph'[t] = checkpoint
        /\ UNCHANGED <<mode, checkpoint, published, row, chat, failed, crashes>>
      BY <1>0 DEF ReloadState, TypeOK, Active
  <1>2. Alone' /\ \A u \in Tasks \ {t} : pc[u] \in {"idle", "done"} /\ pc'[u] = pc[u]
      BY <1>0, <1>1, AloneMoves DEF SerialInv
  <1>3. FreshInv'
    <2>1. pc[Run] \notin Starting
        BY <1>0, <1>1, <1>2 DEF SerialInv, FreshInv, Starting
    <2> QED BY <1>0, <1>1, <2>1 DEF FreshInv
  <1>4. InStepInv'
    <2>1. \A u \in Tasks \ {t} : pc'[u] # "created" /\ pc'[u] \notin InStep
        BY <1>2 DEF InStep
    <2> QED BY <1>0, <1>1, <2>1 DEF SerialInv, InStepInv, InStep
  <1>5. PublishedInv'
      BY <1>1, <1>2 DEF SerialInv, PublishedInv
  <1>7. SavedInv'
    <2>1. pc'[t] \in ToBeSaved
        BY <1>1 DEF ToBeSaved
    <2> QED BY <1>0, <1>1, <2>1 DEF SerialInv, SavedInv
  <1>8. CompletionInv'
      BY <1>0, <1>1 DEF SerialInv, CompletionInv
  <1> QED BY <1>2, <1>3, <1>4, <1>5, <1>7, <1>8 DEF SerialInv

\* The row that is written is that of the checkpoint.
LEMMA SaveSerial ==
  ASSUME Typed, SerialInv, Undisturbed' => Undisturbed, NEW t \in Tasks, SaveReview(t)
  PROVE  SerialInv'
  <1> USE DEF control, registry, disk, accounting, outcome, ghost, At, Suspend
  <1>0. TypeOK /\ Run \in Tasks /\ pc[t] = "persist" /\ Active(t)
      BY DEF Typed, Tasks, SaveReview, Active
  <1>1. CASE Raise(t) /\ UNCHANGED row
      BY <1>0, <1>1, RaiseSerial DEF SaveReview
  <1>2. CASE ~Checkpointer /\ Leave(t) /\ UNCHANGED <<row, failed>>
    <2>1. /\ pc'[t] \in {"finally", "done"}
          /\ \A u \in Tasks \ {t} : pc'[u] = pc[u]
          /\ UNCHANGED <<mode, graph, checkpoint, published, row, chat>>
        BY <1>0, <1>2, LeaveMoves DEF SaveReview, TypeOK
    <2>2. checkpoint.at # "END"
        BY <1>2 DEF SerialInv, InStepInv, GraphStart
    <2>3. Alone' /\ \A u \in Tasks \ {t} : pc[u] \in {"idle", "done"} /\ pc'[u] = pc[u]
        BY <1>0, <2>1, AloneMoves DEF SerialInv
    <2>4. FreshInv'
      <3>1. pc[Run] \notin Starting
          BY <1>0, <2>3 DEF SerialInv, FreshInv, Starting, Tasks
      <3> QED BY <1>0, <2>1, <2>3, <3>1 DEF FreshInv, Starting
    <2>5. InStepInv' /\ PublishedInv'
        BY <2>1, <2>3 DEF SerialInv, InStepInv, InStep, PublishedInv
    <2>6. SavedInv' /\ CompletionInv'
        BY <1>2, <2>1, <2>2 DEF SerialInv, SavedInv, CompletionInv
    <2> QED BY <2>3, <2>4, <2>5, <2>6 DEF SerialInv
  <1>3. CASE Checkpointer /\ row' = SavedRow(t) /\ Suspend(t, "backfill")
    <2>1. /\ pc'[t] = "backfill"
          /\ \A u \in Tasks \ {t} : pc'[u] = pc[u]
          /\ UNCHANGED <<mode, graph, checkpoint, published, chat, crashes>>
          /\ row'.present /\ row'.state = checkpoint
        BY <1>0, <1>3 DEF SaveReview, SavedRow, TypeOK, SerialInv, InStepInv, InStep
    <2>2. Alone' /\ \A u \in Tasks \ {t} : pc[u] \in {"idle", "done"} /\ pc'[u] = pc[u]
        BY <1>0, <2>1, AloneMoves DEF SerialInv
    <2>3. FreshInv'
      <3>1. pc[Run] \notin Starting
          BY <1>0, <2>2 DEF SerialInv, FreshInv, Starting, Tasks
      <3> QED BY <1>0, <2>1, <2>2, <3>1 DEF FreshInv, Starting
    <2>4. InStepInv' /\ PublishedInv'
        BY <1>0, <2>1, <2>2 DEF SerialInv, InStepInv, InStep, PublishedInv
    <2>6. SavedInv'
        BY <2>1 DEF SerialInv, SavedInv
    <2>7. CompletionInv'
        BY <1>0, <2>1, <2>2 DEF SerialInv, CompletionInv, Tasks
    <2> QED BY <2>2, <2>3, <2>4, <2>6, <2>7 DEF SerialInv
  <1> QED BY <1>1, <1>2, <1>3 DEF SaveReview

\* Stop moves the run task out of whatever it awaited, when the call in flight
\* may have taken effect.
LEMMA StopSerial ==
  ASSUME Typed, RunInv, SerialInv, Undisturbed' => Undisturbed,
         Cancel \/ CancelArrives \/ CancelNoticeSent \/ CancelEventSent \/ CancelledAgain
  PROVE  SerialInv'
  <1> USE DEF control, registry, disk, accounting, outcome, ghost, At, Suspend
  <1>0. TypeOK /\ Run \in Tasks /\ \A u \in Resumes : u \in Tasks /\ u # Run
      BY ResumesAssumption DEF Typed, Tasks
  <1>1. CASE Cancel
    <2>1. UNCHANGED <<mode, pc, graph, checkpoint, published, row, chat, failed, crashes>>
        BY <1>1 DEF Cancel
    <2> QED BY <2>1 DEF SerialInv, Alone, Active, FreshInv, InStepInv, PublishedInv, SavedInv,
                        CompletionInv, Undisturbed
  <1>2. CASE CancelNoticeSent
    <2>1. /\ pc[Run] = "cancel_chat" /\ pc'[Run] = "cancel_event"
          /\ \A u \in Tasks \ {Run} : pc'[u] = pc[u]
          /\ UNCHANGED <<mode, graph, checkpoint, published, row, chat>>
        BY <1>0, <1>2 DEF CancelNoticeSent, TypeOK
    <2> QED BY <1>0, <2>1, MoveSerial DEF Active, Starting, InStep, ToBeSaved
  <1>3. CASE CancelEventSent \/ CancelledAgain
    <2>1. /\ pc[Run] \in Cancelling /\ pc'[Run] \in {"finally", "done"}
          /\ \A u \in Tasks \ {Run} : pc'[u] = pc[u]
          /\ UNCHANGED <<mode, graph, checkpoint, published, row, chat>>
        BY <1>0, <1>3, LeaveMoves DEF CancelEventSent, CancelledAgain, LeaveRun, Unwind, Cancelling,
                                      TypeOK
    <2>2. ~Undisturbed'
        BY <2>1 DEF RunInv, EnvelopeInv, Undisturbed
    <2> QED BY <1>0, <2>1, <2>2, MoveSerial DEF Active, Cancelling, Starting, InStep, ToBeSaved
  <1>4. CASE CancelArrives
    <2>1. /\ Active(Run) /\ pc'[Run] = "cancel_chat"
          /\ \A u \in Tasks \ {Run} : pc'[u] = pc[u]
          /\ UNCHANGED <<mode, graph, checkpoint>>
          /\ chat' = chat \cup {CancelledNotice}
          /\ \/ published' = published
             \/ /\ pc[Run] = "stream" /\ graph[Run].at = "publish_report"
                /\ published' = published + 1
          /\ \/ row' = row
             \/ pc[Run] = "persist" /\ Checkpointer /\ row' = SavedRow(Run)
        BY <1>0, <1>4 DEF CancelArrives, TypeOK, Active
    <2>2. Alone' /\ \A u \in Tasks \ {Run} : pc[u] \in {"idle", "done"} /\ pc'[u] = pc[u]
        BY <1>0, <2>1, AloneMoves DEF SerialInv
    <2>3. ~Undisturbed'
        BY <2>1 DEF Undisturbed
    <2>4. FreshInv'
        BY <2>1 DEF FreshInv, Starting
    <2>5. InStepInv'
        BY <1>0, <2>1, <2>2 DEF SerialInv, InStepInv, InStep
    <2>6. PublishedInv'
      <3>1. CASE published' = published
          BY <2>1, <2>2, <3>1 DEF SerialInv, PublishedInv
      <3>2. CASE pc[Run] = "stream" /\ graph[Run].at = "publish_report" /\ published' = published + 1
        <4>1. published' = 1
            BY <1>0, <3>2 DEF SerialInv, PublishedInv
        <4>2. ~Paused(checkpoint)
            BY <1>0, <3>2 DEF SerialInv, InStepInv, InStep, Paused, GraphStart
        <4> QED BY <2>1, <2>2, <4>1, <4>2 DEF PublishedInv
      <3> QED BY <2>1, <3>1, <3>2
    <2>8. CompletionInv'
      <3>1. CompleteNotice # CancelledNotice
          BY DEF CompleteNotice, CancelledNotice
      <3> QED BY <2>1, <2>3, <3>1 DEF SerialInv, CompletionInv
    <2>9. SavedInv'
        BY <2>3 DEF SavedInv
    <2> QED BY <2>2, <2>4, <2>5, <2>6, <2>8, <2>9 DEF SerialInv
  <1> QED BY <1>1, <1>2, <1>3, <1>4

\* The user writes while nothing runs, so the task that is created, and then the
\* invocation, find the checkpoint as it was when the message came.
LEMMA ResumeSerial ==
  ASSUME OneAtATime, Typed, SerialInv, Undisturbed' => Undisturbed, NEW t \in Resumes,
         UserMessage(t) \/ StartResume(t)
  PROVE  SerialInv'
  <1> USE DEF control, registry, disk, accounting, outcome, ghost, At, Suspend
  <1>0. TypeOK /\ Run \in Tasks /\ t \in Tasks /\ t # Run
      BY ResumesAssumption DEF Typed, Tasks
  <1>1. /\ \A u \in Tasks \ {t} : pc[u] \in {"idle", "done"} /\ pc'[u] = pc[u]
        /\ \A u \in Tasks \ {t} : graph'[u] = graph[u]
        /\ pc[t] \in {"idle", "created"} /\ pc'[t] \in {"created", "stream"}
        /\ pc'[t] = "stream" => graph'[t] = checkpoint
        /\ Paused(checkpoint)
        /\ UNCHANGED <<mode, checkpoint, published, row, chat, failed, crashes>>
    <2>1. CASE UserMessage(t)
        BY <1>0, <2>1 DEF UserMessage, MayResume, Active, TypeOK
    <2>2. CASE StartResume(t)
        BY <1>0, <2>2 DEF StartResume, Loaded, TypeOK, SerialInv, Alone, Active, InStepInv
    <2> QED BY <2>1, <2>2
  <1>2. pc[Run] \notin Starting
      BY <1>1 DEF SerialInv, FreshInv, Paused, GraphStart
  <1>3. published = 0
      BY <1>1 DEF SerialInv, PublishedInv
  <1>4. Alone'
      BY <1>0, <1>1 DEF Alone, Active
  <1>5. FreshInv'
      BY <1>0, <1>1, <1>2 DEF FreshInv
  <1>6. InStepInv'
      BY <1>0, <1>1 DEF SerialInv, InStepInv, InStep
  <1>7. PublishedInv' /\ SavedInv'
      BY <1>1, <1>3 DEF SerialInv, PublishedInv, SavedInv
  <1>8. CompletionInv'
      BY <1>0, <1>1 DEF SerialInv, CompletionInv
  <1> QED BY <1>4, <1>5, <1>6, <1>7, <1>8 DEF SerialInv

\* A restart ends every task and empties the chat; what is durable stays.
LEMMA CrashSerial ==
  ASSUME Typed, SerialInv, Crash
  PROVE  SerialInv'
  <1>0. TypeOK /\ Run \in Tasks /\ \A u \in Resumes : u \in Tasks
      BY DEF Typed, Tasks
  <1>1. /\ \A u \in Tasks : pc'[u] = IF Active(u) THEN "done" ELSE pc[u]
        /\ UNCHANGED <<mode, graph, checkpoint, published, row>>
        /\ chat' = {} /\ crashes' # 0
      BY <1>0 DEF Crash, TypeOK
  <1>2. \A u \in Tasks : pc'[u] \in {"idle", "done"}
      BY <1>1 DEF Active
  <1>3. ~Undisturbed'
      BY <1>1 DEF Undisturbed
  <1>4. FreshInv'
    <2>1. pc'[Run] \in Starting => pc[Run] = "idle"
        BY <1>0, <1>1 DEF Active, Starting
    <2>2. \A u \in Resumes : pc[u] = "idle" => pc'[u] = "idle"
        BY <1>0, <1>1 DEF Active
    <2> QED BY <1>1, <2>1, <2>2 DEF SerialInv, FreshInv, Starting
  <1>5. Alone' /\ InStepInv'
      BY <1>1, <1>2 DEF SerialInv, Alone, Active, InStepInv, InStep
  <1>6. PublishedInv'
      BY <1>1, <1>2 DEF SerialInv, PublishedInv
  <1>7. SavedInv' /\ CompletionInv'
      BY <1>1, <1>3 DEF SavedInv, CompletionInv
  <1> QED BY <1>4, <1>5, <1>6, <1>7 DEF SerialInv

\* Every step.
LEMMA StepSerial ==
  ASSUME OneAtATime
  PROVE  Typed /\ RunInv /\ SerialInv /\ [Next]_vars => SerialInv'
  <1> SUFFICES ASSUME Typed, RunInv, SerialInv, [Next]_vars PROVE SerialInv'
      OBVIOUS
  <1>0. (Undisturbed' => Undisturbed) /\ Run \in Tasks
      BY Disturbance DEF Tasks
  <1>1. CASE UNCHANGED vars
      BY <1>1 DEF vars, control, registry, disk, accounting, outcome, ghost, SerialInv, Alone, Active,
                  FreshInv, InStepInv, PublishedInv, SavedInv, CompletionInv, Undisturbed
  <1>2. CASE TriggerReview \/ CloneThreadEnds
      BY <1>0, <1>2, StartSerial
  <1>3. CASE RunStep
      BY <1>0, <1>3, StartSerial, SettleSerial, PassingSerial, StopSerial DEF RunStep
  <1>4. ASSUME NEW t \in Tasks, TaskStep(t) PROVE SerialInv'
      BY <1>0, <1>4, SuperstepSerial, RaisesSerial, AnswerSerial, PassingSerial, SettleSerial,
         SaveSerial DEF TaskStep
  <1>5. ASSUME NEW t \in Resumes, UserMessage(t) \/ ResumeStep(t) PROVE SerialInv'
      BY <1>0, <1>5, ResumeSerial, ReloadSerial DEF ResumeStep
  <1>6. CASE Cancel
      BY <1>0, <1>6, StopSerial
  <1>7. CASE Crash
      BY <1>7, CrashSerial
  <1> QED BY <1>1, <1>2, <1>3, <1>4, <1>5, <1>6, <1>7 DEF Next

LEMMA SerialAlways ==
  ASSUME OneAtATime PROVE Spec => []SerialInv
  <1>1. Init => SerialInv
      BY InitSerial
  <1>2. Typed /\ RunInv /\ SerialInv /\ [Next]_vars => SerialInv'
      BY StepSerial
  <1> QED BY <1>1, <1>2, TypedAlways, RunInvAlways, PTL DEF Spec

\* When the user writes between the tasks of the thread, not beside one, the
\* report goes out once, whatever fails, is stopped or restarts; and if nothing
\* did, the database ends with the finished review.
THEOREM ReportOnce == OneAtATime => (Spec => []ReportIsDelivered)
  <1> SUFFICES ASSUME OneAtATime PROVE Spec => []ReportIsDelivered
      OBVIOUS
  <1>1. SerialInv => PublishedOnce
      BY DEF SerialInv, PublishedInv, PublishedOnce
  <1>2. SerialInv /\ Typed => PublishedIsPersisted
      BY DEF Typed, TypeOK, SerialInv, SavedInv, PublishedIsPersisted, Quiet, Active, ToBeSaved
  <1>3. SerialInv /\ Typed => ReportIsDelivered
      BY <1>1, <1>2 DEF ReportIsDelivered
  <1> QED BY <1>3, SerialAlways, TypedAlways, PTL

\* Under the same condition what the chat says is so: a suspended graph has
\* asked its question, and the review is called complete when it is, not before.
THEOREM ChatIsTrue == OneAtATime => (Spec => []NoticesAreTrue)
  <1> SUFFICES ASSUME OneAtATime PROVE Spec => []NoticesAreTrue
      OBVIOUS
  <1>1. QuestionInv => OpenQuestionIsAsked
      BY DEF QuestionInv, OpenQuestionIsAsked, Quiet, Active
  <1>2. SerialInv => CompletionIsTrue
      BY DEF SerialInv, CompletionInv, CompletionIsTrue, At
  <1>3. QuestionInv /\ SerialInv => NoticesAreTrue
      BY <1>1, <1>2 DEF NoticesAreTrue
  <1> QED BY <1>3, DebtAlways, SerialAlways, PTL

-----------------------------------------------------------------------------
(* Refinement.  Under the same condition the tasks of a thread take it, one     *)
(* after the other, through one chain of supersteps and answers.               *)

\* The contract has the nodes of the graph.
LEMMA SameSuccessors ==
  ASSUME NEW g, NEW readable
  PROVE  Contract!Successors(g, readable) = Successors(g, readable)
  BY DEF Contract!Successors, Contract!Validate, Contract!Reject, Contract!Retrieve,
         Contract!Review, Contract!Decide, Contract!Asks, Contract!Aggregate,
         Contract!Format, Contract!Publish, Contract!Goto,
         Successors, Validate, Reject, Retrieve, Review, Decide, Asks, Aggregate, Format,
         Publish, Goto

LEMMA SameResume ==
  /\ Contract!Answers = Answers
  /\ \A g : Contract!Paused(g) <=> Paused(g)
  /\ \A g, answer : Contract!Resume(g, answer) = Resume(g, answer)
  BY DEF Contract!Answers, Contract!Paused, Contract!Resume, Contract!Approves,
         Answers, Paused, Resume, Approves

\* A node that raises leaves the graph state as it was, but for the place.
LEMMA FailingSuccessor ==
  ASSUME NEW g \in GraphStates, NEW readable \in BOOLEAN,
         NEW h \in Successors(g, readable), h.at = "failed"
  PROVE  h = [g EXCEPT !.at = "failed"]
  <1>1. CASE g.at = "validate_request"
      BY <1>1 DEF Successors, Validate, Goto, GraphStates
  <1>2. CASE g.at \in {"notify_rejection", "retrieve_past_context", "publish_report"}
      BY <1>2 DEF Successors, Reject, Retrieve, Publish, Goto, GraphStates
  <1>3. CASE g.at = "reviewers"
    <2>1. h \in Review(g, readable)
        BY <1>3 DEF Successors
    <2>2. h = Goto(g, "failed") \/ h.at = "review_decision"
        BY <2>1 DEF Review, GraphStates
    <2> QED BY <2>2 DEF Goto
  <1>4. CASE g.at = "review_decision"
    <2>1. h \in Decide(g)
        BY <1>4 DEF Successors
    <2>2. h.at \in {"interrupt", "aggregate_results"}
      <3>1. CASE Asks(g)
          BY <2>1, <3>1 DEF Decide, Goto, GraphStates
      <3>2. CASE ~Asks(g)
          BY <2>1, <3>2 DEF Decide, GraphStates
      <3> QED BY <3>1, <3>2
    <2> QED BY <2>2
  <1>5. CASE g.at \in {"aggregate_results", "format_report"}
      BY <1>5 DEF Successors, Aggregate, Format, Goto, GraphStates
  <1>6. CASE g.at \in {"interrupt", "END", "failed"}
      BY <1>6 DEF Successors
  <1> QED BY <1>1, <1>2, <1>3, <1>4, <1>5, <1>6 DEF GraphStates, Nodes

LEMMA InitThread == Init => Contract!ContractInit
  BY DEF Init, ThreadState, Tasks, Contract!ContractInit, Contract!GraphStart, GraphStart

\* A superstep of the thread's state is one of the contract.
LEMMA ThreadMoves ==
  ASSUME NEW readable \in BOOLEAN, ThreadState' \in Successors(ThreadState, readable)
  PROVE  Contract!ContractNext
  BY SameSuccessors DEF Contract!ContractNext, Contract!Superstep

\* With a checkpointer a superstep is the contract's when it is committed, and a
\* failing one leaves the checkpoint alone; without one the run task's are.
LEMMA ThreadSupersteps ==
  ASSUME Typed, SerialInv, NEW t \in Tasks, Superstep(t) \/ SuperstepRaises(t)
  PROVE  Contract!ContractNext \/ ThreadState' = ThreadState
  <1>0. /\ TypeOK /\ Run \in Tasks /\ Readable \in BOOLEAN /\ graph[t] \in GraphStates
        /\ pc[t] = "stream"
      BY DEF Typed, TypeOK, Tasks, Readable, Superstep, SuperstepRaises, At
  <1>1. CASE Superstep(t)
    <2>1. PICK h \in Successors(graph[t], Readable) :
            /\ graph' = [graph EXCEPT ![t] = h]
            /\ checkpoint' = IF Checkpointer THEN h ELSE checkpoint
        BY <1>1 DEF Superstep
    <2>2. CASE Checkpointer
      <3>1. ThreadState = graph[t] /\ ThreadState' = h
          BY <1>0, <2>1, <2>2 DEF ThreadState, SerialInv, InStepInv, InStep
      <3> QED BY <1>0, <3>1, ThreadMoves
    <2>3. CASE ~Checkpointer /\ t = Run
      <3>1. ThreadState = graph[t] /\ ThreadState' = h
          BY <1>0, <2>1, <2>3 DEF ThreadState, TypeOK
      <3> QED BY <1>0, <3>1, ThreadMoves
    <2>4. CASE ~Checkpointer /\ t # Run
        BY <1>0, <2>1, <2>4 DEF ThreadState, TypeOK
    <2> QED BY <2>2, <2>3, <2>4
  <1>2. CASE SuperstepRaises(t)
    <2>1. /\ graph' = [graph EXCEPT ![t].at = "failed"]
          /\ checkpoint' = checkpoint
        BY <1>2 DEF SuperstepRaises
    <2>2. CASE Checkpointer
        BY <2>1, <2>2 DEF ThreadState
    <2>3. CASE ~Checkpointer /\ t = Run
      <3>1. PICK h \in Successors(graph[t], Readable) : h.at = "failed"
          BY <1>2, <2>3 DEF SuperstepRaises
      <3>2. ThreadState = graph[t] /\ ThreadState' = h
          BY <1>0, <2>1, <2>3, <3>1, FailingSuccessor DEF ThreadState, TypeOK
      <3> QED BY <1>0, <3>1, <3>2, ThreadMoves
    <2>4. CASE ~Checkpointer /\ t # Run
        BY <1>0, <2>1, <2>4 DEF ThreadState, TypeOK
    <2> QED BY <2>2, <2>3, <2>4
  <1> QED BY <1>1, <1>2

\* An answer is taken by the task that is where the checkpoint is.
LEMMA ThreadAnswers ==
  ASSUME Typed, SerialInv, NEW t \in Tasks, TakeAnswer(t)
  PROVE  Contract!ContractNext
  <1>1. Paused(graph[t]) /\ pc[t] = "stream" /\ Checkpointer
      BY DEF TakeAnswer, At, Typed, StatesAreSound, Sound, Paused
  <1>2. PICK answer \in Answers : checkpoint' = Resume(graph[t], answer)
      BY DEF TakeAnswer
  <1>3. ThreadState = graph[t] /\ ThreadState' = Resume(ThreadState, answer)
      BY <1>1, <1>2 DEF ThreadState, SerialInv, InStepInv, InStep
  <1> QED BY <1>1, <1>3, SameResume DEF Contract!ContractNext, Contract!Answer

LEMMA ThreadSteps ==
  Typed /\ SerialInv /\ [Next]_vars => [Contract!ContractNext]_ThreadState
  <1> SUFFICES ASSUME Typed, SerialInv, [Next]_vars
               PROVE  Contract!ContractNext \/ ThreadState' = ThreadState
      OBVIOUS
  <1>1. ASSUME checkpoint' = checkpoint, graph'[Run] = graph[Run] PROVE ThreadState' = ThreadState
      BY <1>1 DEF ThreadState
  <1>2. CASE UNCHANGED vars
      BY <1>1, <1>2 DEF vars, control
  <1>3. CASE TriggerReview \/ CloneThreadEnds \/ Cancel \/ Crash
      BY <1>1, <1>3 DEF TriggerReview, CloneThreadEnds, Cancel, Crash, control
  <1>4. CASE RunStep
      BY <1>1, <1>4 DEF RunStep, FetchPr, StartClone, CloneReturns, PrepareRepo, AnnounceCompletion,
                        FinallyEnds, CancelArrives, CancelNoticeSent, CancelEventSent, CancelledAgain
  <1>5. ASSUME NEW t \in Tasks, TaskStep(t) PROVE Contract!ContractNext \/ ThreadState' = ThreadState
    <2>1. CASE Superstep(t) \/ SuperstepRaises(t)
        BY <2>1, ThreadSupersteps
    <2>2. CASE TakeAnswer(t)
        BY <2>2, ThreadAnswers
    <2>3. CASE StreamEnds(t) \/ Settle(t) \/ ReadFails(t) \/ SaveReview(t) \/ BackfillEnds(t)
        BY <1>1, <2>3 DEF StreamEnds, Settle, ReadFails, SaveReview, BackfillEnds
    <2> QED BY <1>5, <2>1, <2>2, <2>3 DEF TaskStep
  <1>6. ASSUME NEW t \in Resumes, UserMessage(t) \/ ResumeStep(t) PROVE ThreadState' = ThreadState
    <2>1. t # Run /\ Run \in Tasks /\ DOMAIN graph = Tasks
        BY ResumesAssumption DEF Tasks, Typed, TypeOK
    <2> QED BY <1>1, <1>6, <2>1 DEF UserMessage, ResumeStep, StartResume, ReloadState
  <1> QED BY <1>2, <1>3, <1>4, <1>5, <1>6 DEF Next

\* When the user writes between the tasks of the thread, all of them together,
\* whatever is stopped, fails or restarts, do what one chain of invocations does.
THEOREM LifecycleImplementsContract == OneAtATime => (Spec => ThreadImplementsContract)
  <1> SUFFICES ASSUME OneAtATime PROVE Spec => ThreadImplementsContract
      OBVIOUS
  <1> QED BY InitThread, ThreadSteps, TypedAlways, SerialAlways, PTL
          DEF Spec, ThreadImplementsContract, Contract!ContractSpec
=============================================================================
