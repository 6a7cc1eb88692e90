------------------------- MODULE PassAndTrailProofs -------------------------
(***************************************************************************)
(* Theorems of PerFileReviewer, for any number of files, any cap and any      *)
(* concurrency, and of FindingTrail, for any requests, answers and caps.  The   *)
(* two have the cap on the files of a pass in common.                            *)
(***************************************************************************)
EXTENDS FindingTrail, PerFileReviewer, FiniteSetTheorems, SequenceTheorems,
        WellFoundedInduction, TLAPS

-----------------------------------------------------------------------------
(* Types and permits.                                                       *)

\* What of the types no counting is needed for.
Typed ==
  /\ snapshot \in BOOLEAN
  /\ in_scope \in SUBSET Files
  /\ matched \in SUBSET in_scope
  /\ empty \in SUBSET matched
  /\ pc \in {"start", "gather", "returned", "cancelled"}
  /\ file \in [Files -> FileStates]
  /\ \A f \in Files \ matched : file[f] = "waiting"
  /\ outcome \in [Files -> Outcomes]
  /\ permits \in Nat
  /\ index \in Nat

\* The concurrency in force is a positive number.
LEMMA PermitsPositive == Permits \in Nat \ {0}
  BY ConcurrencyAssumption DEF Permits

LEMMA InitTyped == Init => Typed
  BY PermitsPositive DEF Init, Typed, FileStates, Outcomes

LEMMA StepTyped == Typed /\ [Next]_vars => Typed'
  <1> SUFFICES ASSUME Typed, [Next]_vars PROVE Typed'
      OBVIOUS
  <1> USE DEF Typed, input
  <1>1. CASE SkipWithoutSnapshot
      BY <1>1 DEF SkipWithoutSnapshot
  <1>2. CASE StartBatch
      BY <1>2 DEF StartBatch
  <1>3. ASSUME NEW f \in Files, EnterSemaphore(f) PROVE Typed'
    <2>1. UNCHANGED <<snapshot, in_scope, matched, empty, pc>> /\ permits' \in Nat
        BY <1>3 DEF EnterSemaphore
    <2>2. outcome' \in [Files -> Outcomes] /\ index' \in Nat
      <3>1. CASE f \in empty
          BY <1>3, <3>1 DEF EnterSemaphore, EmitFileDone, NextIndex, Outcomes
      <3>2. CASE f \notin empty
          BY <1>3, <3>2 DEF EnterSemaphore
      <3> QED BY <3>1, <3>2
    <2>3. \E s \in {"calling", "emitting"} : file' = [file EXCEPT ![f] = s]
        BY <1>3, Zenon DEF EnterSemaphore, EmitFileDone
    <2>4. file' \in [Files -> FileStates]
        BY <2>3 DEF FileStates
    <2>5. \A g \in Files \ matched' : file'[g] = "waiting"
        BY <1>3, <2>1, <2>3 DEF EnterSemaphore
    <2> QED BY <2>1, <2>2, <2>4, <2>5
  <1>4. ASSUME NEW f \in Files, LlmAnswers(f) PROVE Typed'
      BY <1>4 DEF LlmAnswers, EmitFileDone, NextIndex, FileStates, Outcomes
  <1>5. ASSUME NEW f \in Files, FindingsMalformed(f) PROVE Typed'
      BY <1>5 DEF FindingsMalformed, Released, FileStates, Outcomes
  <1>6. ASSUME NEW f \in Files, LeaveSemaphore(f) PROVE Typed'
      BY <1>6 DEF LeaveSemaphore, Released, FileStates
  <1>7. CASE FinishBatch
      BY <1>7 DEF FinishBatch
  <1>8. CASE CancelPass
      BY <1>8 DEF CancelPass
  <1>9. CASE UNCHANGED vars
      BY <1>9 DEF vars
  <1> QED BY <1>1, <1>2, <1>3, <1>4, <1>5, <1>6, <1>7, <1>8, <1>9 DEF Next, FileStep

\* The coroutines inside the semaphore are finitely many.
LEMMA InsideFinite == Typed => IsFiniteSet(Inside)
  <1> SUFFICES ASSUME Typed PROVE IsFiniteSet(Inside)
      OBVIOUS
  <1>1. Inside \subseteq Files
      BY DEF Inside, Typed
  <1> QED BY <1>1, FilesAssumption, FS_Subset

LEMMA InitPermits == Init => NoPermitIsLost
  <1> SUFFICES ASSUME Init PROVE NoPermitIsLost
      OBVIOUS
  <1>1. Inside = {}
      BY DEF Init, Inside
  <1>2. Cardinality(Inside) = 0
      BY <1>1, FS_EmptySet
  <1> QED BY <1>2, PermitsPositive DEF Init, NoPermitIsLost

\* A coroutine that enters takes a permit with it ...
LEMMA EnterPermits ==
  ASSUME Typed, NoPermitIsLost, NEW f \in Files, EnterSemaphore(f)
  PROVE  NoPermitIsLost'
  <1>1. Inside' = Inside \cup {f} /\ f \notin Inside
      BY DEF EnterSemaphore, EmitFileDone, Inside, Typed, input
  <1>2. Cardinality(Inside') = Cardinality(Inside) + 1
      BY <1>1, InsideFinite, FS_AddElement
  <1>3. Cardinality(Inside) \in Nat
      BY InsideFinite, FS_CardinalityType
  <1>4. permits' = permits - 1
      BY DEF EnterSemaphore
  <1> QED BY <1>2, <1>3, <1>4, PermitsPositive DEF NoPermitIsLost, Typed, Permits

\* ... and one that leaves gives it back.
LEMMA LeavePermits ==
  ASSUME Typed, NoPermitIsLost, NEW f \in Files, f \in matched,
         file[f] \in {"calling", "emitting"}, file' = [file EXCEPT ![f] = "ended"],
         permits' = Released(f), matched' = matched
  PROVE  NoPermitIsLost'
  <1>1. Inside' = Inside \ {f} /\ f \in Inside
      BY DEF Inside, Typed
  <1>2. Cardinality(Inside') = Cardinality(Inside) - 1
      BY <1>1, InsideFinite, FS_RemoveElement
  <1>3. Cardinality(Inside) \in Nat
      BY InsideFinite, FS_CardinalityType
  <1> QED BY <1>2, <1>3, PermitsPositive DEF NoPermitIsLost, Typed, Permits, Released

LEMMA StepPermits == Typed /\ NoPermitIsLost /\ [Next]_vars => NoPermitIsLost'
  <1> SUFFICES ASSUME Typed, NoPermitIsLost, [Next]_vars PROVE NoPermitIsLost'
      OBVIOUS
  <1>1. ASSUME NEW f \in Files, EnterSemaphore(f) PROVE NoPermitIsLost'
      BY <1>1, EnterPermits
  <1>2. ASSUME NEW f \in Files, LlmAnswers(f) PROVE NoPermitIsLost'
    <2>1. Inside' = Inside
        BY <1>2 DEF LlmAnswers, EmitFileDone, Inside, Typed, input
    <2> QED BY <1>2, <2>1 DEF LlmAnswers, NoPermitIsLost
  <1>3. ASSUME NEW f \in Files, FindingsMalformed(f) PROVE NoPermitIsLost'
    <2>1. f \in matched /\ matched' = matched
        BY <1>3 DEF FindingsMalformed, Typed, input
    <2> QED BY <1>3, <2>1, LeavePermits DEF FindingsMalformed
  <1>4. ASSUME NEW f \in Files, LeaveSemaphore(f) PROVE NoPermitIsLost'
    <2>1. f \in matched /\ matched' = matched
        BY <1>4 DEF LeaveSemaphore, Typed, input
    <2> QED BY <1>4, <2>1, LeavePermits DEF LeaveSemaphore
  <1>5. ASSUME UNCHANGED <<file, matched, permits>> PROVE NoPermitIsLost'
      BY <1>5 DEF NoPermitIsLost, Inside
  <1>6. CASE SkipWithoutSnapshot \/ StartBatch \/ FinishBatch \/ CancelPass \/ UNCHANGED vars
      BY <1>5, <1>6 DEF SkipWithoutSnapshot, StartBatch, FinishBatch, CancelPass, input, vars
  <1> QED BY <1>1, <1>2, <1>3, <1>4, <1>6 DEF Next, FileStep

\* Whatever an LLM call or the parser raises, the semaphore's value and the
\* coroutines inside add up to the concurrency that is configured.
THEOREM PermitsAreKept == Spec => []NoPermitIsLost
  <1>1. Init => Typed /\ NoPermitIsLost
      BY InitTyped, InitPermits
  <1>2. Typed /\ NoPermitIsLost /\ [Next]_vars => Typed' /\ NoPermitIsLost'
      BY StepTyped, StepPermits
  <1> QED BY <1>1, <1>2, PTL DEF Spec

\* Every variable keeps its type; the semaphore stays between 0 and its initial
\* value because no permit is lost or invented.
THEOREM TypeCorrect == Spec => []TypeOK
  <1>1. Typed /\ NoPermitIsLost => TypeOK
    <2> SUFFICES ASSUME Typed, NoPermitIsLost PROVE TypeOK
        OBVIOUS
    <2>1. Cardinality(Inside) \in Nat
        BY InsideFinite, FS_CardinalityType
    <2>2. permits \in 0 .. Permits
        BY <2>1, PermitsPositive DEF Typed, NoPermitIsLost
    <2> QED BY <2>2, Zenon DEF Typed, TypeOK
  <1>2. Init => Typed /\ NoPermitIsLost
      BY InitTyped, InitPermits
  <1>3. Typed /\ NoPermitIsLost /\ [Next]_vars => Typed' /\ NoPermitIsLost'
      BY StepTyped, StepPermits
  <1> QED BY <1>1, <1>2, <1>3, PTL DEF Spec

-----------------------------------------------------------------------------
(* The numbers in the envelopes.                                            *)

\* Until the batch is over, the log is started_batch and one file_done for each
\* value the counter has had.  A file has a file_done only if its coroutine is
\* past it, which is why the next one is new.
Numbered ==
  /\ pc = "start" => events = <<>> /\ index = 0 /\ \A f \in Files : file[f] = "waiting"
  /\ pc = "gather" => Len(events) = index + 1
  /\ \A i \in Done : file[events[i].path] \in {"emitting", "ended"}
  /\ IndicesFollowCompletion

\* The envelopes of the log.
Envelopes ==
  [state : {"started_batch"}, total : Nat]
    \cup [state : {"file_done"}, path : Files, index : Nat, failed : BOOLEAN]
    \cup [state : {"finished"}, processed : Nat, failed : Nat,
          skipped_empty : Nat, total : Nat]

Logged == events \in Seq(Envelopes)

NumberedInv == Typed /\ Logged /\ Numbered

\* Counting the outcomes gives a number.
LEMMA CountedType ==
  ASSUME Typed
  PROVE  Total \in Nat /\ \A what : Counted(what) \in Nat
  <1>1. matched \subseteq Files /\ IsFiniteSet(matched)
      BY FilesAssumption, FS_Subset DEF Typed
  <1>2. \A S \in SUBSET matched : Cardinality(S) \in Nat
      BY <1>1, FS_Subset, FS_CardinalityType
  <1> QED BY <1>2 DEF Total, Counted

LEMMA InitNumbered == Init => NumberedInv
  <1> SUFFICES ASSUME Init PROVE NumberedInv
      OBVIOUS
  <1>1. events = <<>> /\ Done = {}
      BY DEF Init, Done
  <1> QED BY <1>1, InitTyped DEF Init, NumberedInv, Logged, Numbered, IndicesFollowCompletion

\* Every file_done is about a file.
LEMMA DonePaths ==
  ASSUME Logged
  PROVE  \A i \in Done : events[i].path \in Files
  <1> SUFFICES ASSUME NEW i \in Done PROVE events[i].path \in Files
      OBVIOUS
  <1>1. events[i] \in Envelopes /\ events[i].state = "file_done"
      BY DEF Logged, Done
  <1> QED BY <1>1 DEF Envelopes

\* A file_done for a file that has none takes the next number.
LEMMA EmitNumbered ==
  ASSUME NumberedInv, NEW f \in Files, NEW failed \in BOOLEAN, pc = "gather", pc' = pc,
         file[f] \notin {"emitting", "ended"}, EmitFileDone(f, failed)
  PROVE  Logged' /\ Numbered'
  <1> DEFINE e == FileDone(f, NextIndex, failed)
             n == Len(events) + 1
  <1>1. e \in Envelopes /\ e.state = "file_done" /\ e.path = f /\ e.index = index + 1
      BY DEF NumberedInv, Typed, Envelopes, FileDone, NextIndex
  <1>2. events' = Append(events, e) /\ index' = index + 1
        /\ file' = [file EXCEPT ![f] = "emitting"]
      BY DEF EmitFileDone, NextIndex
  <1>3. events \in Seq(Envelopes) /\ Len(events) = index + 1 /\ index \in Nat
        /\ file \in [Files -> FileStates]
      BY DEF NumberedInv, Typed, Logged, Numbered
  <1> HIDE DEF e
  <1>4. Logged'
      BY <1>1, <1>2, <1>3 DEF Logged
  <1>5. /\ DOMAIN events' = 1 .. n /\ events'[n] = e
        /\ \A i \in DOMAIN events : i \in 1 .. Len(events) /\ events'[i] = events[i]
      BY <1>1, <1>2, <1>3
  <1>6. Done' = Done \cup {n} /\ n \notin Done
      BY <1>1, <1>3, <1>5 DEF Done
  <1>7. \A i \in Done : events'[i] = events[i] /\ events[i].path # f
      BY <1>5 DEF Done, NumberedInv, Numbered
  <1>8. \A i \in Done' : file'[events'[i].path] \in {"emitting", "ended"}
    <2>1. \A i \in Done : file'[events[i].path] = file[events[i].path]
        BY <1>2, <1>3, <1>7, DonePaths DEF NumberedInv
    <2>2. file'[f] = "emitting"
        BY <1>2, <1>3
    <2> QED BY <1>1, <1>5, <1>6, <1>7, <2>1, <2>2 DEF NumberedInv, Numbered
  <1>9. IndicesFollowCompletion'
    <2>1. \A i \in Done' : events'[i].index = i - 1
        BY <1>1, <1>3, <1>5, <1>6, <1>7 DEF NumberedInv, Numbered, IndicesFollowCompletion
    <2>2. \A i, j \in Done' : events'[i].path = events'[j].path => i = j
        BY <1>1, <1>5, <1>6, <1>7 DEF NumberedInv, Numbered, IndicesFollowCompletion
    <2> QED BY <2>1, <2>2 DEF IndicesFollowCompletion
  <1>10. pc' = "gather" /\ Len(events') = index' + 1
      BY <1>1, <1>2, <1>3
  <1> QED BY <1>4, <1>8, <1>9, <1>10 DEF Numbered

\* An envelope that is not of a file changes no number.
LEMMA OtherEnvelope ==
  ASSUME NumberedInv, NEW e \in Envelopes, e.state # "file_done",
         events' = Append(events, e), UNCHANGED <<file, index>>,
         pc' = "gather" => pc = "start", pc' # "start"
  PROVE  Logged' /\ Numbered'
  <1>1. events \in Seq(Envelopes)
      BY DEF NumberedInv, Logged
  <1>2. Logged'
      BY <1>1 DEF Logged
  <1>3. Done' = Done /\ \A i \in Done : events'[i] = events[i]
      BY <1>1 DEF Done
  <1>4. pc' = "gather" => Len(events') = index' + 1
      BY <1>1 DEF NumberedInv, Numbered
  <1>5. \A i \in Done' : file'[events'[i].path] \in {"emitting", "ended"}
      BY <1>3 DEF NumberedInv, Numbered
  <1>6. IndicesFollowCompletion'
    <2>1. IndicesFollowCompletion
        BY DEF NumberedInv, Numbered
    <2>2. \A i \in Done' : events'[i].index = i - 1
        BY <1>3, <2>1 DEF IndicesFollowCompletion
    <2>3. ASSUME NEW i \in Done', NEW j \in Done', events'[i].path = events'[j].path
          PROVE  i = j
      <3>1. events'[i] = events[i] /\ events'[j] = events[j] /\ i \in Done /\ j \in Done
          BY <1>3
      <3>2. events[i].path = events[j].path
          BY <2>3, <3>1
      <3>3. \A x, y \in Done : events[x].path = events[y].path => x = y
          BY <2>1, Zenon DEF IndicesFollowCompletion
      <3> HIDE DEF Done
      <3> QED BY <3>1, <3>2, <3>3, Zenon
    <2> QED BY <2>2, <2>3 DEF IndicesFollowCompletion
  <1> QED BY <1>2, <1>4, <1>5, <1>6 DEF Numbered

LEMMA StepNumbered == NumberedInv /\ [Next]_vars => NumberedInv'
  <1> SUFFICES ASSUME NumberedInv, [Next]_vars PROVE Logged' /\ Numbered'
      BY StepTyped DEF NumberedInv
  <1>0. Typed
      BY DEF NumberedInv
  <1>1. CASE SkipWithoutSnapshot
    <2>1. UNCHANGED <<events, index, file>> /\ pc' = "returned"
        BY <1>1, Zenon DEF SkipWithoutSnapshot
    <2> QED BY <2>1 DEF NumberedInv, Logged, Numbered, Done, IndicesFollowCompletion
  <1>2. CASE StartBatch
    <2>1. StartedBatch \in Envelopes /\ StartedBatch.state # "file_done"
        BY <1>0, CountedType DEF StartedBatch, Envelopes
    <2> QED BY <1>2, <2>1, OtherEnvelope DEF StartBatch
  <1>3. ASSUME NEW f \in Files, EnterSemaphore(f) PROVE Logged' /\ Numbered'
    <2>1. pc = "gather" /\ pc' = pc /\ file[f] = "waiting"
        BY <1>3 DEF EnterSemaphore
    <2>2. CASE f \in empty
      <3>1. EmitFileDone(f, FALSE)
          BY <1>3, <2>2 DEF EnterSemaphore
      <3> QED BY <2>1, <3>1, EmitNumbered
    <2>3. CASE f \notin empty
      <3>1. UNCHANGED <<events, index>> /\ file' = [file EXCEPT ![f] = "calling"]
          BY <1>3, <2>3 DEF EnterSemaphore
      <3>2. \A i \in Done : file[events[i].path] = file'[events[i].path]
          BY <1>0, <2>1, <3>1 DEF NumberedInv, Numbered, Typed
      <3> QED BY <2>1, <3>1, <3>2 DEF NumberedInv, Logged, Numbered, Done, IndicesFollowCompletion
    <2> QED BY <2>2, <2>3
  <1>4. ASSUME NEW f \in Files, LlmAnswers(f) PROVE Logged' /\ Numbered'
    <2>1. PICK result \in {"parsed", "raised"} : EmitFileDone(f, result = "raised")
        BY <1>4 DEF LlmAnswers
    <2>2. (result = "raised") \in BOOLEAN
        OBVIOUS
    <2>3. pc = "gather" /\ pc' = pc /\ file[f] = "calling"
        BY <1>4 DEF LlmAnswers
    <2> QED BY <2>1, <2>2, <2>3, EmitNumbered
  <1>5. ASSUME NEW f \in Files, FindingsMalformed(f) \/ LeaveSemaphore(f)
        PROVE  Logged' /\ Numbered'
    <2>1. pc = "gather" /\ UNCHANGED <<pc, events, index>> /\ file' = [file EXCEPT ![f] = "ended"]
        BY <1>5 DEF FindingsMalformed, LeaveSemaphore
    <2>2. \A i \in Done : file'[events[i].path] \in {"emitting", "ended"}
        BY <1>0, <2>1 DEF NumberedInv, Numbered, Typed
    <2> QED BY <2>1, <2>2 DEF NumberedInv, Logged, Numbered, Done, IndicesFollowCompletion
  <1>6. CASE FinishBatch
    <2>1. Finished \in Envelopes /\ Finished.state # "file_done"
        BY <1>0, CountedType DEF Finished, Envelopes
    <2> QED BY <1>6, <2>1, OtherEnvelope DEF FinishBatch
  <1>7. CASE CancelPass \/ UNCHANGED vars
      BY <1>7 DEF CancelPass, vars, NumberedInv, Logged, Numbered, Done, IndicesFollowCompletion
  <1> QED BY <1>1, <1>2, <1>3, <1>4, <1>5, <1>6, <1>7 DEF Next, FileStep

\* The file_done envelopes number themselves 1, 2, ... in the order of the log,
\* and no file has two, for any number of files and permits.
THEOREM NumbersFollowCompletion == Spec => []IndicesFollowCompletion
  <1>1. NumberedInv => IndicesFollowCompletion
      BY DEF NumberedInv, Numbered
  <1> QED BY <1>1, InitNumbered, StepNumbered, PTL DEF Spec

-----------------------------------------------------------------------------
(* Progress as the log shows it.  The slot of a log is defined by recursion on  *)
(* its length; that the recursion has a solution is shown by its least           *)
(* counterexample.                                                               *)

\* A set of numbers that is not empty has a least one.
LEMMA LeastNumber ==
  ASSUME NEW S, S \subseteq Nat, S # {}
  PROVE  \E m \in S : \A n \in S : m <= n
  <1>1. PICK m \in S : \A n \in S : ~(<<n, m>> \in OpToRel(<, Nat))
      BY WFMin, NatLessThanWellFounded, Zenon
  <1>2. ASSUME NEW n \in S PROVE m <= n
    <2>1. m \in Nat /\ n \in Nat
        OBVIOUS
    <2>2. n < m => <<n, m>> \in OpToRel(<, Nat)
        BY <2>1 DEF OpToRel
    <2>3. ~(n < m)
        BY <1>1, <2>2, Zenon
    <2> QED BY <2>1, <2>3
  <1> QED BY <1>2

\* The slot of a role that has announced nothing.
NoSlot == [total |-> 0, done |-> 0]

\* For every length there is a function that solves the recursion.
LEMMA SlotsExist ==
  ASSUME NEW log, NEW k \in Nat
  PROVE  \E g : g = [n \in 0 .. k |->
                       IF n = 0 THEN NoSlot ELSE SnapshotStep(g[n - 1], log[n])]
  <1> DEFINE P(j) == \E g : g = [n \in 0 .. j |->
                       IF n = 0 THEN NoSlot ELSE SnapshotStep(g[n - 1], log[n])]
             Bad == {j \in Nat : ~P(j)}
  <1> SUFFICES ASSUME Bad # {} PROVE FALSE
      OBVIOUS
  <1>1. PICK m \in Bad : \A j \in Bad : m <= j
    <2>1. Bad \subseteq Nat
        OBVIOUS
    <2> HIDE DEF Bad
    <2> QED BY <2>1, LeastNumber
  <1>2. m # 0
    <2> DEFINE g == [n \in 0 .. 0 |-> NoSlot]
    <2>1. g = [n \in 0 .. 0 |->
                       IF n = 0 THEN NoSlot ELSE SnapshotStep(g[n - 1], log[n])]
        OBVIOUS
    <2>2. P(0)
        BY <2>1
    <2> QED BY <2>2
  <1>3. m - 1 \in Nat /\ m - 1 \notin Bad
      BY <1>1, <1>2
  <1>4. PICK g : g = [n \in 0 .. m - 1 |->
                       IF n = 0 THEN NoSlot ELSE SnapshotStep(g[n - 1], log[n])]
      BY <1>3
  <1> DEFINE h == [n \in 0 .. m |->
                     IF n = m THEN SnapshotStep(g[m - 1], log[m]) ELSE g[n]]
  <1>5. ASSUME NEW n \in 0 .. m
        PROVE  h[n] = IF n = 0 THEN NoSlot ELSE SnapshotStep(h[n - 1], log[n])
    <2>1. CASE n = m
      <3>1. h[m - 1] = g[m - 1] /\ h[m] = SnapshotStep(g[m - 1], log[m])
          BY <1>2, <1>3
      <3> HIDE DEF h
      <3> QED BY <1>2, <2>1, <3>1
    <2>2. CASE n # m
      <3>1. n \in 0 .. m - 1 /\ h[n] = g[n] /\ (n # 0 => h[n - 1] = g[n - 1])
          BY <1>2, <1>3, <2>2
      <3>2. g[n] = IF n = 0 THEN NoSlot ELSE SnapshotStep(g[n - 1], log[n])
          BY <1>4, <3>1
      <3> HIDE DEF h
      <3> QED BY <3>1, <3>2
    <2> QED BY <2>1, <2>2
  <1>6. h = [n \in 0 .. m |->
                       IF n = 0 THEN NoSlot ELSE SnapshotStep(h[n - 1], log[n])]
    <2>1. h = [n \in 0 .. m |-> h[n]]
        OBVIOUS
    <2> HIDE DEF h
    <2> QED BY <1>5, <2>1
  <1>7. P(m)
    <2> HIDE DEF h
    <2> QED BY <1>6
  <1> QED BY <1>7

\* The slot after each envelope, from the one before it.
LEMMA SlotsStep ==
  ASSUME NEW log, Len(log) \in Nat
  PROVE  /\ Slots(log)[0] = NoSlot
         /\ \A n \in 1 .. Len(log) :
              Slots(log)[n] = SnapshotStep(Slots(log)[n - 1], log[n])
  <1>1. Slots(log) = [n \in 0 .. Len(log) |->
             IF n = 0 THEN NoSlot ELSE SnapshotStep(Slots(log)[n - 1], log[n])]
    <2>1. \E g : g = [n \in 0 .. Len(log) |->
             IF n = 0 THEN NoSlot ELSE SnapshotStep(g[n - 1], log[n])]
        BY SlotsExist
    <2> QED BY <2>1, Zenon DEF Slots, NoSlot
  <1> QED BY <1>1

\* One more envelope is one more step.
LEMMA AppendSlots ==
  ASSUME NEW log \in Seq(Envelopes), NEW e \in Envelopes
  PROVE  Slots(Append(log, e))[Len(log) + 1] = SnapshotStep(Slots(log)[Len(log)], e)
  <1> DEFINE more == Append(log, e)
  <1>1. /\ Len(log) \in Nat /\ Len(more) = Len(log) + 1 /\ more[Len(log) + 1] = e
        /\ \A n \in 1 .. Len(log) : more[n] = log[n]
      OBVIOUS
  <1> HIDE DEF more
  <1>2. /\ Slots(more)[0] = NoSlot
        /\ \A n \in 1 .. Len(more) : Slots(more)[n] = SnapshotStep(Slots(more)[n - 1], more[n])
      BY <1>1, SlotsStep
  <1>3. /\ Slots(log)[0] = NoSlot
        /\ \A n \in 1 .. Len(log) : Slots(log)[n] = SnapshotStep(Slots(log)[n - 1], log[n])
      BY <1>1, SlotsStep
  <1>4. \A n \in 0 .. Len(log) : Slots(more)[n] = Slots(log)[n]
    <2> DEFINE Bad == {n \in 0 .. Len(log) : Slots(more)[n] # Slots(log)[n]}
    <2> SUFFICES ASSUME Bad # {} PROVE FALSE
        OBVIOUS
    <2>1. PICK m \in Bad : \A n \in Bad : m <= n
      <3>1. Bad \subseteq Nat
          BY <1>1
      <3> HIDE DEF Bad
      <3> QED BY <3>1, LeastNumber
    <2>2. m # 0
        BY <1>2, <1>3
    <2>3. m \in 1 .. Len(log) /\ m - 1 \in 0 .. Len(log) /\ m - 1 \notin Bad
        BY <1>1, <2>1, <2>2
    <2>4. Slots(more)[m - 1] = Slots(log)[m - 1]
        BY <2>3
    <2>5. m \in 1 .. Len(more) /\ more[m] = log[m]
        BY <1>1, <2>3
    <2>6. Slots(more)[m] = SnapshotStep(Slots(more)[m - 1], more[m])
        BY <1>2, <2>5
    <2>7. Slots(log)[m] = SnapshotStep(Slots(log)[m - 1], log[m])
        BY <1>3, <2>3
    <2> QED BY <2>1, <2>4, <2>5, <2>6, <2>7
  <1>5. Len(log) + 1 \in 1 .. Len(more) /\ (Len(log) + 1) - 1 = Len(log)
        /\ Len(log) \in 0 .. Len(log)
      BY <1>1
  <1>6. Slots(more)[Len(log) + 1]
          = SnapshotStep(Slots(more)[(Len(log) + 1) - 1], more[Len(log) + 1])
      BY <1>2, <1>5
  <1> QED BY <1>1, <1>4, <1>5, <1>6 DEF more

-----------------------------------------------------------------------------
(* The counters of the finished envelope, the single envelopes, and the log.   *)

OfOutcome(what) == {f \in matched : outcome[f] = what}

DoneWell == {j \in Done : ~events[j].failed}
DoneBadly == {j \in Done : events[j].failed}

\* gather() has the outcome of a file from the moment its coroutine is past the
\* call; a batch has its snapshot, and one that returned has all outcomes.
OutcomesFollow ==
  /\ \A f \in matched : outcome[f] = "none" <=> file[f] \in {"waiting", "calling"}
  /\ pc = "gather" => snapshot
  /\ (pc = "returned" /\ snapshot) => \A f \in matched : file[f] = "ended"

\* A success is announced, a failure may be lost; nothing is announced twice.
Announced ==
  /\ Cardinality(DoneWell) = Counted("parsed") + Counted("empty")
  /\ Cardinality(DoneBadly) <= Counted("raised")
  /\ index = Cardinality(DoneWell) + Cardinality(DoneBadly)

\* The terminal envelope counts the outcomes as they are at the end.
TerminalCounts ==
  \A i \in DOMAIN events : events[i].state = "finished" =>
    /\ pc = "returned" /\ snapshot
    /\ events[i] = Finished

\* What the log shows while the files end, and afterwards.
LineOfLog ==
  /\ pc = "start" => LoggedProgress = NoSlot
  /\ pc \in {"gather", "cancelled"} => LoggedProgress = [total |-> Total, done |-> index]
  /\ pc = "returned" =>
       LoggedProgress =
         IF snapshot THEN [total |-> Total, done |-> Counted("parsed") + Counted("raised")]
         ELSE NoSlot

CountInv == NumberedInv /\ OutcomesFollow /\ Announced /\ TerminalCounts /\ LineOfLog

\* The sets that are counted are finite.
LEMMA CountsFinite ==
  ASSUME Typed, Logged
  PROVE  /\ \A what : IsFiniteSet(OfOutcome(what)) /\ Counted(what) = Cardinality(OfOutcome(what))
         /\ IsFiniteSet(DoneWell) /\ Cardinality(DoneWell) \in Nat
         /\ IsFiniteSet(DoneBadly) /\ Cardinality(DoneBadly) \in Nat
  <1>1. IsFiniteSet(matched)
      BY FilesAssumption, FS_Subset DEF Typed
  <1>2. \A what : OfOutcome(what) \subseteq matched
      BY DEF OfOutcome
  <1>3. \A what : IsFiniteSet(OfOutcome(what))
      BY <1>1, <1>2, FS_Subset
  <1>4. Len(events) \in Nat /\ DOMAIN events = 1 .. Len(events)
      BY DEF Logged
  <1>5. IsFiniteSet(DOMAIN events)
      BY <1>4, FS_Interval
  <1>6. DoneWell \subseteq DOMAIN events /\ DoneBadly \subseteq DOMAIN events
      BY DEF DoneWell, DoneBadly, Done
  <1>7. IsFiniteSet(DoneWell) /\ IsFiniteSet(DoneBadly)
      BY <1>5, <1>6, FS_Subset
  <1>8. Cardinality(DoneWell) \in Nat /\ Cardinality(DoneBadly) \in Nat
      BY <1>7, FS_CardinalityType
  <1>9. \A what : Counted(what) = Cardinality(OfOutcome(what))
      BY DEF Counted, OfOutcome
  <1> QED BY <1>3, <1>7, <1>8, <1>9

\* "processed + failed + skipped_empty == total" when all files have ended.
LEMMA OutcomesSum ==
  ASSUME Typed
  PROVE  /\ Counted("parsed") + Counted("empty") + Counted("raised") <= Total
         /\ (\A f \in matched : outcome[f] # "none")
              => Counted("parsed") + Counted("empty") + Counted("raised") = Total
  <1> DEFINE A == OfOutcome("parsed")
             B == OfOutcome("empty")
             C == OfOutcome("raised")
  <1>1. IsFiniteSet(matched)
      BY FilesAssumption, FS_Subset DEF Typed
  <1>2. A \subseteq matched /\ B \subseteq matched /\ C \subseteq matched
        /\ A \cap B = {} /\ (A \cup B) \cap C = {}
      BY DEF OfOutcome
  <1>3. (\A f \in matched : outcome[f] # "none") => (A \cup B) \cup C = matched
      BY DEF OfOutcome, Typed, Outcomes
  <1>4. /\ Counted("parsed") = Cardinality(A) /\ Counted("empty") = Cardinality(B)
        /\ Counted("raised") = Cardinality(C)
      BY DEF Counted, OfOutcome
  <1> HIDE DEF A, B, C
  <1>5. IsFiniteSet(A) /\ IsFiniteSet(B) /\ IsFiniteSet(C) /\ IsFiniteSet(A \cup B)
    <2>1. A \cup B \subseteq matched
        BY <1>2
    <2> QED BY <1>1, <1>2, <2>1, FS_Subset
  <1>6. /\ Cardinality(A) \in Nat /\ Cardinality(B) \in Nat /\ Cardinality(C) \in Nat
        /\ Cardinality(A \cup B) \in Nat
      BY <1>5, FS_CardinalityType
  <1>7. Cardinality(A \cup B) = Cardinality(A) + Cardinality(B) - Cardinality(A \cap B)
      BY <1>5, FS_Union
  <1>8. Cardinality((A \cup B) \cup C)
          = Cardinality(A \cup B) + Cardinality(C) - Cardinality((A \cup B) \cap C)
      BY <1>5, FS_Union
  <1>9. Cardinality((A \cup B) \cup C) = Cardinality(A) + Cardinality(B) + Cardinality(C)
    <2>1. Cardinality(A \cap B) = 0 /\ Cardinality((A \cup B) \cap C) = 0
        BY <1>2, FS_EmptySet
    <2> QED BY <1>6, <1>7, <1>8, <2>1
  <1>10. Cardinality((A \cup B) \cup C) <= Cardinality(matched)
    <2>1. (A \cup B) \cup C \subseteq matched
        BY <1>2
    <2> QED BY <1>1, <2>1, FS_Subset
  <1> QED BY <1>3, <1>4, <1>9, <1>10 DEF Total

\* An outcome that gather() gets adds one to its counter and to no other.
LEMMA OutcomeCounted ==
  ASSUME Typed, Typed', NEW f \in matched, NEW o \in {"parsed", "empty", "raised"},
         outcome[f] = "none", outcome' = [outcome EXCEPT ![f] = o], matched' = matched
  PROVE  /\ Counted(o)' = Counted(o) + 1
         /\ \A w \in {"parsed", "empty", "raised"} \ {o} : Counted(w)' = Counted(w)
  <1>1. OfOutcome(o)' = OfOutcome(o) \cup {f} /\ f \notin OfOutcome(o)
      BY DEF OfOutcome, Typed
  <1>2. \A w \in {"parsed", "empty", "raised"} \ {o} : OfOutcome(w)' = OfOutcome(w)
      BY DEF OfOutcome, Typed
  <1>3. IsFiniteSet(OfOutcome(o))
    <2>1. IsFiniteSet(matched) /\ OfOutcome(o) \subseteq matched
        BY FilesAssumption, FS_Subset DEF Typed, OfOutcome
    <2> QED BY <2>1, FS_Subset
  <1>4. Cardinality(OfOutcome(o)') = Cardinality(OfOutcome(o)) + 1
      BY <1>1, <1>3, FS_AddElement
  <1> QED BY <1>2, <1>4 DEF Counted, OfOutcome

\* The envelope of a file, announced together with its outcome.
LEMMA EmitCounted ==
  ASSUME NumberedInv, Announced, Typed', NEW f \in matched, pc = "gather",
         NEW o \in {"parsed", "empty", "raised"}, outcome[f] = "none",
         outcome' = [outcome EXCEPT ![f] = o], matched' = matched,
         NEW failed \in BOOLEAN, failed <=> o = "raised", EmitFileDone(f, failed)
  PROVE  Announced'
  <1> DEFINE e == FileDone(f, NextIndex, failed)
             n == Len(events) + 1
  <1>1. e.state = "file_done" /\ (e.failed <=> o = "raised") /\ e \in Envelopes
    <2>1. index \in Nat /\ f \in Files
        BY DEF NumberedInv, Typed
    <2>2. e.state = "file_done" /\ e.failed = failed /\ e \in Envelopes
        BY <2>1 DEF FileDone, Envelopes, NextIndex
    <2> QED BY <2>2
  <1>2. events' = Append(events, e) /\ index' = index + 1
      BY DEF EmitFileDone, NextIndex
  <1>3. events \in Seq(Envelopes) /\ index \in Nat /\ Typed /\ Logged
      BY DEF NumberedInv, Typed, Logged
  <1> HIDE DEF e
  <1>4. /\ DOMAIN events' = DOMAIN events \cup {n} /\ n \notin DOMAIN events /\ events'[n] = e
        /\ \A i \in DOMAIN events : events'[i] = events[i]
      BY <1>1, <1>2, <1>3
  <1> HIDE DEF n
  <1>5. /\ o # "raised" => DoneWell' = DoneWell \cup {n} /\ DoneBadly' = DoneBadly
        /\ o = "raised" => DoneBadly' = DoneBadly \cup {n} /\ DoneWell' = DoneWell
        /\ n \notin DoneWell /\ n \notin DoneBadly
      BY <1>1, <1>4 DEF DoneWell, DoneBadly, Done
  <1>6. /\ Counted(o)' = Counted(o) + 1
        /\ \A w \in {"parsed", "empty", "raised"} \ {o} : Counted(w)' = Counted(w)
      BY <1>3, OutcomeCounted
  <1>7. IsFiniteSet(DoneWell) /\ IsFiniteSet(DoneBadly)
        /\ Cardinality(DoneWell) \in Nat /\ Cardinality(DoneBadly) \in Nat
      BY <1>3, CountsFinite
  <1>8. Counted("parsed") \in Nat /\ Counted("empty") \in Nat /\ Counted("raised") \in Nat
      BY <1>3, CountedType
  <1>9. Cardinality(DoneWell \cup {n}) = Cardinality(DoneWell) + 1
        /\ Cardinality(DoneBadly \cup {n}) = Cardinality(DoneBadly) + 1
      BY <1>5, <1>7, FS_AddElement
  <1> HIDE DEF n
  <1>0. /\ Cardinality(DoneWell) = Counted("parsed") + Counted("empty")
        /\ Cardinality(DoneBadly) <= Counted("raised")
        /\ index = Cardinality(DoneWell) + Cardinality(DoneBadly)
        /\ index \in Nat /\ index' = index + 1
      BY <1>2, <1>3 DEF Announced
  <1>10. /\ Cardinality(DoneWell)' = Counted("parsed")' + Counted("empty")'
         /\ Cardinality(DoneBadly)' <= Counted("raised")'
         /\ index' = Cardinality(DoneWell)' + Cardinality(DoneBadly)'
    <2>1. CASE o = "parsed"
      <3>1. Counted("parsed")' = Counted("parsed") + 1 /\ Counted("empty")' = Counted("empty")
            /\ Counted("raised")' = Counted("raised")
          BY <1>6, <2>1
      <3>2. Cardinality(DoneWell)' = Cardinality(DoneWell) + 1
            /\ Cardinality(DoneBadly)' = Cardinality(DoneBadly)
          BY <1>5, <1>9, <2>1
      <3> QED BY <1>7, <1>8, <1>0, <3>1, <3>2
    <2>2. CASE o = "empty"
      <3>1. Counted("parsed")' = Counted("parsed") /\ Counted("empty")' = Counted("empty") + 1
            /\ Counted("raised")' = Counted("raised")
          BY <1>6, <2>2
      <3>2. Cardinality(DoneWell)' = Cardinality(DoneWell) + 1
            /\ Cardinality(DoneBadly)' = Cardinality(DoneBadly)
          BY <1>5, <1>9, <2>2
      <3> QED BY <1>7, <1>8, <1>0, <3>1, <3>2
    <2>3. CASE o = "raised"
      <3>1. Counted("parsed")' = Counted("parsed") /\ Counted("empty")' = Counted("empty")
            /\ Counted("raised")' = Counted("raised") + 1
          BY <1>6, <2>3
      <3>2. Cardinality(DoneWell)' = Cardinality(DoneWell)
            /\ Cardinality(DoneBadly)' = Cardinality(DoneBadly) + 1
          BY <1>5, <1>9, <2>3
      <3> QED BY <1>7, <1>8, <1>0, <3>1, <3>2
    <2> QED BY <2>1, <2>2, <2>3
  <1> QED BY <1>10 DEF Announced

\* ... and its effect on the line of the log and on the terminal envelope.
LEMMA EmitShown ==
  ASSUME NumberedInv, TerminalCounts, LineOfLog, pc = "gather", pc' = pc,
         NEW f \in Files, NEW failed \in BOOLEAN, EmitFileDone(f, failed), matched' = matched
  PROVE  TerminalCounts' /\ LineOfLog'
  <1> DEFINE e == FileDone(f, NextIndex, failed)
  <1>1. e.state = "file_done" /\ e \in Envelopes
      BY DEF FileDone, Envelopes, NextIndex, NumberedInv, Typed
  <1>2. events' = Append(events, e) /\ index' = index + 1
      BY DEF EmitFileDone, NextIndex
  <1>3. events \in Seq(Envelopes) /\ index \in Nat
      BY DEF NumberedInv, Typed, Logged
  <1> HIDE DEF e
  <1>4. \A i \in DOMAIN events' : events'[i].state # "finished"
    <2>1. \A i \in DOMAIN events' : events'[i] = e \/ (i \in DOMAIN events /\ events'[i] = events[i])
        BY <1>1, <1>2, <1>3
    <2> QED BY <1>1, <2>1 DEF TerminalCounts
  <1>5. LoggedProgress' = SnapshotStep(LoggedProgress, e)
    <2>1. Len(events') = Len(events) + 1
        BY <1>1, <1>2, <1>3
    <2>2. LoggedProgress' = Slots(Append(events, e))[Len(events) + 1]
      <3>1. \A log : events' = log => LoggedProgress' = Slots(log)[Len(events')]
          BY DEF LoggedProgress, Slots
      <3> QED BY <1>2, <2>1, <3>1
    <2> QED BY <1>1, <1>3, <2>2, AppendSlots DEF LoggedProgress
  <1>6. LoggedProgress = [total |-> Total, done |-> index]
      BY DEF LineOfLog
  <1>7. LoggedProgress' = [total |-> Total, done |-> index + 1]
      BY <1>1, <1>5, <1>6 DEF SnapshotStep
  <1>8. Total' = Total
      BY DEF Total
  <1> QED BY <1>2, <1>4, <1>7, <1>8 DEF TerminalCounts, LineOfLog

\* What depends on the log and the outcomes only stays as it is with them.
LEMMA CountsStay ==
  ASSUME Announced, UNCHANGED <<events, outcome, matched, index>>
  PROVE  Announced' /\ LoggedProgress' = LoggedProgress /\ Total' = Total /\ Finished' = Finished
         /\ \A w \in {"parsed", "empty", "raised"} : Counted(w)' = Counted(w)
  <1>1. \A w \in {"parsed", "empty", "raised"} : Counted(w)' = Counted(w)
      BY DEF Counted
  <1>2. LoggedProgress' = LoggedProgress /\ Total' = Total
      BY DEF LoggedProgress, Slots, Total
  <1>3. DoneWell' = DoneWell /\ DoneBadly' = DoneBadly
      BY DEF DoneWell, DoneBadly, Done
  <1> QED BY <1>1, <1>2, <1>3 DEF Announced, Finished

LEMMA InitCounts == Init => CountInv
  <1> SUFFICES ASSUME Init PROVE CountInv
      OBVIOUS
  <1>1. NumberedInv /\ Typed /\ Logged
      BY InitNumbered DEF NumberedInv
  <1>2. /\ pc = "start" /\ events = <<>> /\ index = 0
        /\ \A f \in Files : file[f] = "waiting" /\ outcome[f] = "none"
      BY DEF Init
  <1>3. OutcomesFollow
      BY <1>1, <1>2 DEF OutcomesFollow, Typed
  <1>4. Announced
    <2>1. DoneWell = {} /\ DoneBadly = {}
        BY <1>2 DEF DoneWell, DoneBadly, Done
    <2>2. \A w \in {"parsed", "empty", "raised"} : OfOutcome(w) = {}
        BY <1>1, <1>2 DEF OfOutcome, Typed
    <2>3. \A w \in {"parsed", "empty", "raised"} : Counted(w) = 0
        BY <2>2, FS_EmptySet DEF Counted, OfOutcome
    <2> QED BY <1>2, <2>1, <2>3, FS_EmptySet DEF Announced
  <1>5. TerminalCounts
      BY <1>2 DEF TerminalCounts
  <1>6. LineOfLog
    <2>1. Len(events) = 0
        BY <1>2
    <2>2. Slots(events)[0] = NoSlot
        BY <2>1, SlotsStep
    <2> QED BY <1>2, <2>1, <2>2 DEF LineOfLog, LoggedProgress
  <1> QED BY <1>1, <1>3, <1>4, <1>5, <1>6 DEF CountInv

\* The first envelope gives the slot its total.
LEMMA StartCounts == CountInv /\ StartBatch => OutcomesFollow' /\ Announced' /\ TerminalCounts' /\ LineOfLog'
  <1> SUFFICES ASSUME CountInv, StartBatch
               PROVE  OutcomesFollow' /\ Announced' /\ TerminalCounts' /\ LineOfLog'
      OBVIOUS
  <1>1. Typed /\ Logged /\ NumberedInv /\ events = <<>> /\ index = 0
      BY DEF CountInv, NumberedInv, Numbered, StartBatch
  <1>2. /\ UNCHANGED <<snapshot, matched, file, outcome, index>>
        /\ pc' = "gather" /\ events' = Append(events, StartedBatch)
      BY DEF StartBatch, input
  <1>3. StartedBatch \in Envelopes /\ StartedBatch.state = "started_batch"
        /\ StartedBatch.total = Total
      BY <1>1, CountedType DEF StartedBatch, Envelopes
  <1>4. OutcomesFollow'
      BY <1>2 DEF CountInv, OutcomesFollow, StartBatch
  <1>5. DOMAIN events' = {1} /\ events'[1] = StartedBatch /\ DOMAIN events = {} /\ Len(events') = 1
      BY <1>1, <1>2
  <1>6. Announced'
    <2>1. DoneWell' = {} /\ DoneBadly' = {}
        BY <1>3, <1>5 DEF DoneWell, DoneBadly, Done
    <2>2. DoneWell = {} /\ DoneBadly = {}
        BY <1>5 DEF DoneWell, DoneBadly, Done
    <2>3. \A w \in {"parsed", "empty", "raised"} : Counted(w)' = Counted(w)
        BY <1>2 DEF Counted
    <2> QED BY <1>2, <2>1, <2>2, <2>3 DEF CountInv, Announced
  <1>7. TerminalCounts'
      BY <1>3, <1>5 DEF TerminalCounts
  <1>8. LineOfLog'
    <2>1. LoggedProgress = NoSlot /\ Len(events) = 0
        BY <1>1 DEF CountInv, LineOfLog, StartBatch
    <2>2. Slots(Append(events, StartedBatch))[Len(events) + 1]
            = SnapshotStep(LoggedProgress, StartedBatch)
        BY <1>1, <1>3, AppendSlots DEF LoggedProgress, Logged
    <2>3. LoggedProgress' = SnapshotStep(LoggedProgress, StartedBatch)
      <3>1. \A log : events' = log => LoggedProgress' = Slots(log)[Len(events')]
          BY DEF LoggedProgress, Slots
      <3> QED BY <1>2, <1>5, <2>1, <2>2, <3>1
    <2>4. LoggedProgress' = [total |-> Total, done |-> 0]
        BY <1>3, <2>1, <2>3 DEF SnapshotStep, NoSlot
    <2>5. Total' = Total
        BY <1>2 DEF Total
    <2> QED BY <1>1, <1>2, <2>4, <2>5 DEF LineOfLog
  <1> QED BY <1>4, <1>6, <1>7, <1>8

\* The terminal envelope replaces the running count by the counters.
LEMMA FinishCounts == CountInv /\ FinishBatch => OutcomesFollow' /\ Announced' /\ TerminalCounts' /\ LineOfLog'
  <1> SUFFICES ASSUME CountInv, FinishBatch
               PROVE  OutcomesFollow' /\ Announced' /\ TerminalCounts' /\ LineOfLog'
      OBVIOUS
  <1>1. Typed /\ Logged /\ NumberedInv /\ pc = "gather"
      BY DEF CountInv, NumberedInv, FinishBatch
  <1>2. /\ UNCHANGED <<snapshot, matched, file, outcome, index>>
        /\ pc' = "returned" /\ events' = Append(events, Finished)
        /\ \A f \in matched : file[f] = "ended"
      BY DEF FinishBatch, input
  <1>3. /\ Finished \in Envelopes /\ Finished.state = "finished" /\ Finished.total = Total
        /\ Finished.processed = Counted("parsed") /\ Finished.failed = Counted("raised")
      BY <1>1, CountedType DEF Finished, Envelopes
  <1>4. OutcomesFollow'
      BY <1>2 DEF CountInv, OutcomesFollow
  <1>5. /\ DOMAIN events' = DOMAIN events \cup {Len(events) + 1} /\ Len(events) + 1 \notin DOMAIN events
        /\ events'[Len(events) + 1] = Finished /\ Len(events') = Len(events) + 1
        /\ \A i \in DOMAIN events : events'[i] = events[i]
      BY <1>1, <1>2, <1>3 DEF Logged
  <1>6. \A w \in {"parsed", "empty", "raised"} : Counted(w)' = Counted(w)
      BY <1>2 DEF Counted
  <1>7. Total' = Total
      BY <1>2 DEF Total
  <1>8. Announced'
    <2>1. DoneWell' = DoneWell /\ DoneBadly' = DoneBadly
        BY <1>3, <1>5 DEF DoneWell, DoneBadly, Done
    <2> QED BY <1>2, <1>6, <2>1 DEF CountInv, Announced
  <1>9. snapshot
    <2>1. pc = "gather" => snapshot
        BY DEF CountInv, OutcomesFollow
    <2> QED BY <1>1, <2>1
  <1>10. TerminalCounts'
    <2>1. Finished' = Finished
        BY <1>6, <1>7 DEF Finished
    <2>2. \A i \in DOMAIN events : events[i].state # "finished"
        BY <1>1 DEF CountInv, TerminalCounts
    <2> QED BY <1>2, <1>5, <1>9, <2>1, <2>2 DEF TerminalCounts
  <1>11. LineOfLog'
    <2>1. Slots(Append(events, Finished))[Len(events) + 1] = SnapshotStep(LoggedProgress, Finished)
        BY <1>1, <1>3, AppendSlots DEF LoggedProgress, Logged
    <2>2. LoggedProgress' = SnapshotStep(LoggedProgress, Finished)
      <3>1. \A log : events' = log => LoggedProgress' = Slots(log)[Len(events')]
          BY DEF LoggedProgress, Slots
      <3> QED BY <1>2, <1>5, <2>1, <3>1
    <2>3. LoggedProgress' = [total |-> Total, done |-> Counted("parsed") + Counted("raised")]
        BY <1>3, <2>2 DEF SnapshotStep
    <2> QED BY <1>2, <1>6, <1>7, <1>9, <2>3 DEF LineOfLog
  <1> QED BY <1>4, <1>8, <1>10, <1>11

LEMMA StepCounts == CountInv /\ [Next]_vars => CountInv'
  <1> SUFFICES ASSUME CountInv, [Next]_vars
               PROVE  OutcomesFollow' /\ Announced' /\ TerminalCounts' /\ LineOfLog'
      BY StepNumbered DEF CountInv
  <1> DEFINE Goal == OutcomesFollow' /\ Announced' /\ TerminalCounts' /\ LineOfLog'
  <1>0. /\ Typed /\ Logged /\ NumberedInv /\ OutcomesFollow /\ Announced /\ TerminalCounts
        /\ LineOfLog /\ Typed'
      BY StepTyped DEF CountInv, NumberedInv
  <1>1. CASE SkipWithoutSnapshot
    <2>1. UNCHANGED <<snapshot, matched, file, outcome, events, index>> /\ ~snapshot
          /\ pc = "start" /\ pc' = "returned"
        BY <1>1 DEF SkipWithoutSnapshot, input
    <2>2. Announced' /\ LoggedProgress' = LoggedProgress
        BY <1>0, <2>1, CountsStay
    <2>3. OutcomesFollow' /\ TerminalCounts'
        BY <1>0, <2>1 DEF OutcomesFollow, TerminalCounts
    <2>4. LineOfLog'
        BY <1>0, <2>1, <2>2 DEF LineOfLog
    <2> QED BY <2>2, <2>3, <2>4
  <1>2. CASE StartBatch
      BY <1>2, StartCounts
  <1>3. ASSUME NEW f \in Files, EnterSemaphore(f) PROVE Goal
    <2>1. /\ pc = "gather" /\ pc' = pc /\ file[f] = "waiting" /\ f \in matched
          /\ UNCHANGED <<snapshot, matched>>
        BY <1>3 DEF EnterSemaphore, input
    <2>2. outcome[f] = "none"
        BY <1>0, <2>1 DEF OutcomesFollow
    <2>3. CASE f \in empty
      <3>1. EmitFileDone(f, FALSE) /\ outcome' = [outcome EXCEPT ![f] = "empty"]
          BY <1>3, <2>3 DEF EnterSemaphore
      <3>2. file' = [file EXCEPT ![f] = "emitting"]
          BY <3>1 DEF EmitFileDone
      <3>3. Announced'
          BY <1>0, <2>1, <2>2, <3>1, EmitCounted
      <3>4. TerminalCounts' /\ LineOfLog'
          BY <1>0, <2>1, <3>1, EmitShown
      <3>5. OutcomesFollow'
          BY <1>0, <2>1, <3>1, <3>2 DEF OutcomesFollow, Typed
      <3> QED BY <3>3, <3>4, <3>5
    <2>4. CASE f \notin empty
      <3>1. UNCHANGED <<outcome, events, index>> /\ file' = [file EXCEPT ![f] = "calling"]
          BY <1>3, <2>4 DEF EnterSemaphore
      <3>2. Announced' /\ LoggedProgress' = LoggedProgress /\ Total' = Total
          BY <1>0, <2>1, <3>1, CountsStay
      <3>3. OutcomesFollow'
          BY <1>0, <2>1, <2>2, <3>1 DEF OutcomesFollow, Typed
      <3>4. TerminalCounts' /\ LineOfLog'
          BY <1>0, <2>1, <3>1, <3>2 DEF TerminalCounts, LineOfLog
      <3> QED BY <3>2, <3>3, <3>4
    <2> QED BY <2>3, <2>4
  <1>4. ASSUME NEW f \in Files, LlmAnswers(f) PROVE Goal
    <2>1. /\ pc = "gather" /\ pc' = pc /\ file[f] = "calling" /\ UNCHANGED <<snapshot, matched>>
        BY <1>4 DEF LlmAnswers, input
    <2>2. PICK result \in {"parsed", "raised"} :
            outcome' = [outcome EXCEPT ![f] = result] /\ EmitFileDone(f, result = "raised")
        BY <1>4 DEF LlmAnswers
    <2>3. f \in matched
        BY <1>0, <2>1 DEF Typed
    <2>4. outcome[f] = "none" /\ file' = [file EXCEPT ![f] = "emitting"]
        BY <1>0, <2>1, <2>2, <2>3 DEF OutcomesFollow, EmitFileDone
    <2>5. (result = "raised") \in BOOLEAN
        OBVIOUS
    <2>6. Announced'
        BY <1>0, <2>1, <2>2, <2>3, <2>4, <2>5, EmitCounted
    <2>7. TerminalCounts' /\ LineOfLog'
        BY <1>0, <2>1, <2>2, <2>5, EmitShown
    <2>8. OutcomesFollow'
        BY <1>0, <2>1, <2>2, <2>3, <2>4 DEF OutcomesFollow, Typed
    <2> QED BY <2>6, <2>7, <2>8
  <1>5. ASSUME NEW f \in Files, FindingsMalformed(f) PROVE Goal
    <2>1. /\ pc = "gather" /\ pc' = pc /\ file[f] = "calling"
          /\ UNCHANGED <<snapshot, matched, events, index>>
          /\ outcome' = [outcome EXCEPT ![f] = "raised"] /\ file' = [file EXCEPT ![f] = "ended"]
        BY <1>5 DEF FindingsMalformed, input
    <2>2. f \in matched
        BY <1>0, <2>1 DEF Typed
    <2>3. outcome[f] = "none"
        BY <1>0, <2>1, <2>2 DEF OutcomesFollow
    <2>4. OutcomesFollow'
        BY <1>0, <2>1, <2>2 DEF OutcomesFollow, Typed
    <2>5. /\ Counted("raised")' = Counted("raised") + 1
          /\ Counted("parsed")' = Counted("parsed") /\ Counted("empty")' = Counted("empty")
        BY <1>0, <2>1, <2>2, <2>3, OutcomeCounted
    <2>6. /\ Counted("raised") \in Nat /\ Cardinality(DoneBadly) \in Nat
          /\ DoneWell' = DoneWell /\ DoneBadly' = DoneBadly
        BY <1>0, <2>1, CountedType, CountsFinite DEF DoneWell, DoneBadly, Done
    <2>7. Announced'
        BY <1>0, <2>1, <2>5, <2>6 DEF Announced
    <2>8. LoggedProgress' = LoggedProgress /\ Total' = Total
        BY <2>1 DEF LoggedProgress, Slots, Total
    <2>9. TerminalCounts' /\ LineOfLog'
        BY <1>0, <2>1, <2>8 DEF TerminalCounts, LineOfLog
    <2> QED BY <2>4, <2>7, <2>9
  <1>6. ASSUME NEW f \in Files, LeaveSemaphore(f) PROVE Goal
    <2>1. /\ pc = "gather" /\ pc' = pc /\ file[f] = "emitting"
          /\ UNCHANGED <<snapshot, matched, events, index, outcome>>
          /\ file' = [file EXCEPT ![f] = "ended"]
        BY <1>6 DEF LeaveSemaphore, input
    <2>2. Announced' /\ LoggedProgress' = LoggedProgress /\ Total' = Total
        BY <1>0, <2>1, CountsStay
    <2>3. OutcomesFollow'
        BY <1>0, <2>1 DEF OutcomesFollow, Typed
    <2>4. TerminalCounts' /\ LineOfLog'
        BY <1>0, <2>1, <2>2 DEF TerminalCounts, LineOfLog
    <2> QED BY <2>2, <2>3, <2>4
  <1>7. CASE FinishBatch
      BY <1>7, FinishCounts
  <1>8. CASE CancelPass \/ UNCHANGED vars
    <2>1. /\ UNCHANGED <<snapshot, matched, file, outcome, events, index>>
          /\ pc' = pc \/ (pc = "gather" /\ pc' = "cancelled")
        BY <1>8 DEF CancelPass, vars, input
    <2>2. /\ Announced' /\ LoggedProgress' = LoggedProgress /\ Total' = Total /\ Finished' = Finished
          /\ \A w \in {"parsed", "empty", "raised"} : Counted(w)' = Counted(w)
        BY <1>0, <2>1, CountsStay
    <2>3. OutcomesFollow' /\ TerminalCounts'
        BY <1>0, <2>1, <2>2 DEF OutcomesFollow, TerminalCounts
    <2>4. LineOfLog'
        BY <1>0, <2>1, <2>2 DEF LineOfLog
    <2> QED BY <2>2, <2>3, <2>4
  <1> QED BY <1>1, <1>2, <1>3, <1>4, <1>5, <1>6, <1>7, <1>8 DEF Next, FileStep

\* For any files and any concurrency, the counters of the terminal envelope add up
\* to the files of the batch and to what was announced one by one, and the line
\* of the progress log never shows more files done than there are.
THEOREM CountersReconcile == Spec => []CountersAgree
  <1>1. CountInv => CountersAgree
    <2> SUFFICES ASSUME CountInv PROVE CountersAgree
        OBVIOUS
    <2>1. Typed /\ Logged /\ OutcomesFollow /\ Announced /\ TerminalCounts /\ LineOfLog
        BY DEF CountInv, NumberedInv
    <2>2. /\ Counted("parsed") \in Nat /\ Counted("empty") \in Nat /\ Counted("raised") \in Nat
          /\ Total \in Nat
        BY <2>1, CountedType
    <2>3. /\ Counted("parsed") + Counted("empty") + Counted("raised") <= Total
          /\ (pc = "returned" /\ snapshot)
               => Counted("parsed") + Counted("empty") + Counted("raised") = Total
      <3>1. (pc = "returned" /\ snapshot) => \A f \in matched : outcome[f] # "none"
          BY <2>1 DEF OutcomesFollow
      <3> QED BY <2>1, <3>1, OutcomesSum
    <2>4. Cardinality(DoneWell) \in Nat /\ Cardinality(DoneBadly) \in Nat
        BY <2>1, CountsFinite
    <2>5. CountsReconcile
      <3> SUFFICES ASSUME NEW i \in DOMAIN events, events[i].state = "finished"
                   PROVE  LET e == events[i] IN
                            /\ e.processed + e.failed + e.skipped_empty = e.total
                            /\ Cardinality({j \in Done : ~events[j].failed}) = e.processed + e.skipped_empty
                            /\ Cardinality({j \in Done : events[j].failed}) <= e.failed
          BY DEF CountsReconcile
      <3>1. pc = "returned" /\ snapshot /\ events[i] = Finished
          BY <2>1 DEF TerminalCounts
      <3>2. /\ Finished.processed = Counted("parsed") /\ Finished.failed = Counted("raised")
            /\ Finished.skipped_empty = Counted("empty") /\ Finished.total = Total
          BY DEF Finished
      <3>3. /\ Cardinality(DoneWell) = Counted("parsed") + Counted("empty")
            /\ Cardinality(DoneBadly) <= Counted("raised")
          BY <2>1 DEF Announced
      <3> QED BY <2>2, <2>3, <3>1, <3>2, <3>3 DEF DoneWell, DoneBadly
    <2>6. LogStaysWithinTotal
      <3>1. index <= Total
          BY <2>1, <2>2, <2>3, <2>4 DEF Announced
      <3>2. pc \in {"start", "gather", "returned", "cancelled"} /\ snapshot \in BOOLEAN
          BY <2>1 DEF Typed
      <3> QED BY <2>1, <2>2, <2>3, <3>1, <3>2 DEF LineOfLog, LogStaysWithinTotal, NoSlot
    <2> QED BY <2>5, <2>6 DEF CountersAgree
  <1> QED BY <1>1, InitCounts, StepCounts, PTL DEF Spec

-----------------------------------------------------------------------------
(* What is found, from the request to the panel.                             *)

\* Induction over numbers, for a set of them.
LEMMA NumberInduction ==
  ASSUME NEW Q, 0 \in Q, \A n \in Nat : n \in Q => n + 1 \in Q
  PROVE  Nat \subseteq Q
  <1> DEFINE Bad == Nat \ Q
  <1> SUFFICES ASSUME Bad # {} PROVE FALSE
      OBVIOUS
  <1>1. PICK m \in Bad : \A n \in Bad : m <= n
    <2>1. Bad \subseteq Nat
        OBVIOUS
    <2> HIDE DEF Bad
    <2> QED BY <2>1, LeastNumber
  <1>2. m # 0 /\ m - 1 \in Nat /\ ~(m <= m - 1) /\ (m - 1) + 1 = m
      OBVIOUS
  <1>3. m - 1 \in Q
      BY <1>1, <1>2
  <1> QED BY <1>2, <1>3

\* Induction over sequences, for a set of them.
LEMMA SequenceInduction ==
  ASSUME NEW T, NEW Q, <<>> \in Q,
         \A s \in Seq(T) : \A e \in T : s \in Q => Append(s, e) \in Q
  PROVE  Seq(T) \subseteq Q
  <1> DEFINE N == {n \in Nat : \A s \in Seq(T) : Len(s) = n => s \in Q}
  <1>1. 0 \in N
    <2>1. \A s \in Seq(T) : Len(s) = 0 => s = <<>>
        BY EmptySeq
    <2> QED BY <2>1
  <1>2. ASSUME NEW n \in Nat, n \in N PROVE n + 1 \in N
    <2> SUFFICES ASSUME NEW s \in Seq(T), Len(s) = n + 1 PROVE s \in Q
        OBVIOUS
    <2> DEFINE front == SubSeq(s, 1, n)
    <2>1. front \in Seq(T) /\ Len(front) = n /\ s[n + 1] \in T
        OBVIOUS
    <2>2. Append(front, s[n + 1]) = s
        OBVIOUS
    <2>3. front \in Q
        BY <1>2, <2>1
    <2> HIDE DEF front
    <2> QED BY <2>1, <2>2, <2>3
  <1>3. Nat \subseteq N
    <2> HIDE DEF N
    <2> QED BY <1>1, <1>2, NumberInduction
  <1> QED BY <1>3, LenProperties

Repeats(s) == \E i, j \in DOMAIN s : i # j /\ s[i] = s[j]

LEMMA AppendSet ==
  ASSUME NEW T, NEW s \in Seq(T), NEW e \in T
  PROVE  ToSet(Append(s, e)) = ToSet(s) \cup {e}
  <1> DEFINE t == Append(s, e)
  <1>1. DOMAIN t = (DOMAIN s) \cup {Len(s) + 1} /\ t[Len(s) + 1] = e /\ \A i \in DOMAIN s : t[i] = s[i]
      OBVIOUS
  <1> HIDE DEF t
  <1>2. ToSet(t) = ToSet(s) \cup {e}
      BY <1>1 DEF ToSet
  <1> QED BY <1>2 DEF t

LEMMA ConcatSet ==
  ASSUME NEW T, NEW s \in Seq(T), NEW t \in Seq(T)
  PROVE  ToSet(s \o t) = ToSet(s) \cup ToSet(t)
  <1> DEFINE u == s \o t
  <1>1. u \in Seq(T) /\ Len(u) = Len(s) + Len(t) /\ Len(s) \in Nat /\ Len(t) \in Nat
        /\ DOMAIN u = 1 .. Len(u) /\ DOMAIN s = 1 .. Len(s) /\ DOMAIN t = 1 .. Len(t)
        /\ \A i \in 1 .. Len(s) + Len(t) : u[i] = IF i <= Len(s) THEN s[i] ELSE t[i - Len(s)]
      BY ConcatProperties, LenProperties
  <1> HIDE DEF u
  <1>2. ASSUME NEW x \in ToSet(u) PROVE x \in ToSet(s) \cup ToSet(t)
    <2>1. PICK i \in 1 .. Len(s) + Len(t) : x = u[i]
        BY <1>1 DEF ToSet
    <2>2. CASE i <= Len(s)
      <3>1. i \in DOMAIN s /\ x = s[i]
          BY <1>1, <2>1, <2>2
      <3> QED BY <3>1 DEF ToSet
    <2>3. CASE ~(i <= Len(s))
      <3>1. i - Len(s) \in DOMAIN t /\ x = t[i - Len(s)]
          BY <1>1, <2>1, <2>3
      <3> QED BY <3>1 DEF ToSet
    <2> QED BY <2>2, <2>3
  <1>3. ASSUME NEW x \in ToSet(s) PROVE x \in ToSet(u)
    <2>1. PICK i \in 1 .. Len(s) : x = s[i]
        BY <1>1 DEF ToSet
    <2>2. i \in DOMAIN u /\ u[i] = x
        BY <1>1, <2>1
    <2> QED BY <2>2 DEF ToSet
  <1>4. ASSUME NEW x \in ToSet(t) PROVE x \in ToSet(u)
    <2>1. PICK i \in 1 .. Len(t) : x = t[i]
        BY <1>1 DEF ToSet
    <2>2. Len(s) + i \in 1 .. Len(s) + Len(t) /\ ~(Len(s) + i <= Len(s)) /\ (Len(s) + i) - Len(s) = i
        BY <1>1
    <2>3. Len(s) + i \in DOMAIN u /\ u[Len(s) + i] = x
        BY <1>1, <2>1, <2>2
    <2> QED BY <2>3 DEF ToSet
  <1>5. ToSet(u) = ToSet(s) \cup ToSet(t)
      BY <1>2, <1>3, <1>4
  <1> QED BY <1>5 DEF u

LEMMA ConcatAppend ==
  ASSUME NEW T, NEW s \in Seq(T), NEW t \in Seq(T), NEW e \in T
  PROVE  s \o Append(t, e) = Append(s \o t, e)
  <1>1. Append(t, e) = t \o <<e>> /\ Append(s \o t, e) = (s \o t) \o <<e>> /\ <<e>> \in Seq(T)
      OBVIOUS
  <1> QED BY <1>1, ConcatAssociative

LEMMA SetOfEmpty ==
  ASSUME NEW T, NEW s \in Seq(T)
  PROVE  ToSet(s) = {} <=> s = <<>>
  <1>1. s # <<>> => 1 \in DOMAIN s
      BY EmptySeq, LenProperties
  <1>2. DOMAIN <<>> = {}
      OBVIOUS
  <1> QED BY <1>1, <1>2 DEF ToSet

LEMMA DistinctAppend ==
  ASSUME NEW T, NEW s \in Seq(T), NEW e \in T
  PROVE  ~Repeats(Append(s, e)) <=> (~Repeats(s) /\ e \notin ToSet(s))
  <1> DEFINE t == Append(s, e)
  <1>1. DOMAIN t = (DOMAIN s) \cup {Len(s) + 1} /\ t[Len(s) + 1] = e /\ (\A i \in DOMAIN s : t[i] = s[i])
        /\ Len(s) + 1 \notin DOMAIN s
      OBVIOUS
  <1> HIDE DEF t
  <1>2. ~Repeats(t) <=> (~Repeats(s) /\ e \notin ToSet(s))
      BY <1>1 DEF Repeats, ToSet
  <1> QED BY <1>2 DEF t

\* f solves the recursion from base by the steps 1 .. n.
Solves(f, base, step, n) ==
  \A k \in 0 .. n : f[k] = IF k = 0 THEN base ELSE step[k][f[k - 1]]

\* A recursion over 1 .. n has a solution.
LEMMA RecursionSolved ==
  ASSUME NEW V, NEW base \in V, NEW n \in Nat, NEW step \in [1 .. n -> [V -> V]]
  PROVE  \E f \in [0 .. n -> V] : Solves(f, base, step, n)
  <1> USE DEF Solves
  <1> DEFINE N == {m \in Nat : m <= n => \E f \in [0 .. m -> V] : Solves(f, base, step, m)}
  <1>1. 0 \in N
    <2> DEFINE f == [k \in 0 .. 0 |-> base]
    <2>1. f \in [0 .. 0 -> V] /\ Solves(f, base, step, 0)
        OBVIOUS
    <2> QED BY <2>1
  <1>2. ASSUME NEW m \in Nat, m \in N PROVE m + 1 \in N
    <2> SUFFICES ASSUME m + 1 <= n PROVE \E f \in [0 .. m + 1 -> V] : Solves(f, base, step, m + 1)
        OBVIOUS
    <2>1. PICK f \in [0 .. m -> V] : Solves(f, base, step, m)
        BY <1>2
    <2> DEFINE g == [k \in 0 .. m + 1 |-> IF k = m + 1 THEN step[m + 1][f[m]] ELSE f[k]]
    <2>2. g \in [0 .. m + 1 -> V]
      <3>1. step[m + 1][f[m]] \in V
        <4>1. m + 1 \in 1 .. n /\ f[m] \in V
            OBVIOUS
        <4> QED BY <4>1
      <3>2. \A k \in 0 .. m + 1 : k # m + 1 => k \in 0 .. m /\ f[k] \in V
          OBVIOUS
      <3> QED BY <3>1, <3>2
    <2>3. ASSUME NEW k \in 0 .. m + 1
          PROVE  g[k] = IF k = 0 THEN base ELSE step[k][g[k - 1]]
      <3>1. CASE k = m + 1
        <4>1. k # 0 /\ g[k] = step[m + 1][f[m]] /\ k - 1 = m /\ g[m] = f[m]
            BY <3>1
        <4> HIDE DEF g
        <4> QED BY <3>1, <4>1
      <3>2. CASE k # m + 1
        <4>1. k \in 0 .. m /\ g[k] = f[k] /\ (k # 0 => g[k - 1] = f[k - 1])
            BY <3>2
        <4> HIDE DEF g
        <4> QED BY <2>1, <4>1
      <3> QED BY <3>1, <3>2
    <2> HIDE DEF g
    <2> QED BY <2>2, <2>3
  <1>3. Nat \subseteq N
    <2> HIDE DEF N
    <2> QED BY <1>1, <1>2, NumberInduction
  <1> QED BY <1>3

-----------------------------------------------------------------------------
(* Keep.                                                                    *)

\* f is what is kept after each element of s.
Keeps(f, s, S) ==
  /\ f[0] = <<>>
  /\ \A k \in 1 .. Len(s) : /\ s[k] \in S => f[k] = Append(f[k - 1], s[k])
                            /\ s[k] \notin S => f[k] = f[k - 1]

LEMMA KeepRecursion ==
  ASSUME NEW T, NEW S, NEW s \in Seq(T)
  PROVE  \E f \in [0 .. Len(s) -> Seq(T)] : Keeps(f, s, S) /\ Keep(s, S) = f[Len(s)]
  <1> DEFINE V == Seq(T)
             n == Len(s)
             step == [k \in 1 .. n |-> [v \in V |-> IF s[k] \in S THEN Append(v, s[k]) ELSE v]]
             Solution(g) == g = [k \in 0 .. n |->
                IF k = 0 THEN <<>>
                ELSE IF s[k] \in S THEN Append(g[k - 1], s[k]) ELSE g[k - 1]]
  <1>1. n \in Nat /\ <<>> \in V /\ s \in [1 .. n -> T]
      OBVIOUS
  <1>2. step \in [1 .. n -> [V -> V]]
    <2>1. \A k \in 1 .. n : \A v \in V : (IF s[k] \in S THEN Append(v, s[k]) ELSE v) \in V
        BY <1>1
    <2> HIDE DEF V
    <2> QED BY <2>1
  <1>3. PICK f \in [0 .. n -> V] :
          \A k \in 0 .. n : f[k] = IF k = 0 THEN <<>> ELSE step[k][f[k - 1]]
    <2> HIDE DEF V, n, step
    <2>1. \E f \in [0 .. n -> V] : Solves(f, <<>>, step, n)
        BY <1>1, <1>2, RecursionSolved
    <2> QED BY <2>1 DEF Solves
  <1>4. ASSUME NEW k \in 1 .. n PROVE k \in 0 .. n /\ k # 0 /\ k - 1 \in 0 .. n /\ f[k - 1] \in V
    <2> HIDE DEF V, step
    <2> QED BY <1>1
  <1>5. \A k \in 1 .. n : step[k][f[k - 1]]
                            = IF s[k] \in S THEN Append(f[k - 1], s[k]) ELSE f[k - 1]
      BY <1>4
  <1> HIDE DEF step
  <1>6. Solution(f)
    <2>1. ASSUME NEW k \in 0 .. n
          PROVE  f[k] = IF k = 0 THEN <<>>
                        ELSE IF s[k] \in S THEN Append(f[k - 1], s[k]) ELSE f[k - 1]
      <3>1. k = 0 \/ k \in 1 .. n
          BY <1>1
      <3> QED BY <1>3, <1>5, <3>1
    <2>2. f = [k \in 0 .. n |-> f[k]]
        OBVIOUS
    <2> QED BY <2>1, <2>2
  <1> DEFINE h == CHOOSE g : Solution(g)
  <1>7. Solution(h)
      BY <1>6, Zenon
  <1>8. Keep(s, S) = h[n]
      BY DEF Keep
  <1> HIDE DEF h
  <1>9. h = f
    <2> DEFINE N == {k \in Nat : k <= n => h[k] = f[k]}
    <2>0. 0 \in N
        BY <1>1, <1>6, <1>7
    <2>1. ASSUME NEW k \in Nat, k \in N PROVE k + 1 \in N
      <3> SUFFICES ASSUME k + 1 <= n PROVE h[k + 1] = f[k + 1]
          OBVIOUS
      <3>1. k + 1 \in 0 .. n /\ k + 1 # 0 /\ (k + 1) - 1 = k /\ h[k] = f[k]
          BY <1>1, <2>1
      <3>2. h[k + 1] = IF s[k + 1] \in S THEN Append(h[k], s[k + 1]) ELSE h[k]
          BY <1>7, <3>1
      <3>3. f[k + 1] = IF s[k + 1] \in S THEN Append(f[k], s[k + 1]) ELSE f[k]
          BY <1>6, <3>1
      <3> QED BY <3>1, <3>2, <3>3
    <2>2. Nat \subseteq N
      <3> HIDE DEF N
      <3> QED BY <2>0, <2>1, NumberInduction
    <2>3. \A k \in 0 .. n : h[k] = f[k]
        BY <1>1, <2>2
    <2>4. h = [k \in 0 .. n |-> h[k]] /\ f = [k \in 0 .. n |-> f[k]]
        BY <1>6, <1>7
    <2> QED BY <2>3, <2>4
  <1>10. f[0] = <<>>
      BY <1>1, <1>3
  <1>11. \A k \in 1 .. n : f[k] = IF s[k] \in S THEN Append(f[k - 1], s[k]) ELSE f[k - 1]
      BY <1>3, <1>4, <1>5
  <1>12. f \in [0 .. n -> V] /\ Keep(s, S) = f[n]
      BY <1>8, <1>9
  <1>13. Keeps(f, s, S)
      BY <1>10, <1>11 DEF Keeps
  <1> QED BY <1>12, <1>13

\* The equations that the recursion amounts to.
LEMMA KeepEmpty == ASSUME NEW S PROVE Keep(<<>>, S) = <<>>
  <1>1. <<>> \in Seq({}) /\ Len(<<>>) = 0
      OBVIOUS
  <1> DEFINE s == <<>>
  <1>2. PICK f \in [0 .. Len(s) -> Seq({})] : Keeps(f, s, S) /\ Keep(s, S) = f[Len(s)]
    <2>1. s \in Seq({})
        BY <1>1
    <2> HIDE DEF s
    <2> QED BY <2>1, KeepRecursion
  <1> QED BY <1>1, <1>2 DEF Keeps

LEMMA KeepType ==
  ASSUME NEW T, NEW S, NEW s \in Seq(T) PROVE Keep(s, S) \in Seq(T)
  <1>1. Len(s) \in 0 .. Len(s)
      OBVIOUS
  <1> QED BY <1>1, KeepRecursion

LEMMA KeepAppend ==
  ASSUME NEW T, NEW S, NEW s \in Seq(T), NEW e \in T
  PROVE  /\ e \in S => Keep(Append(s, e), S) = Append(Keep(s, S), e)
         /\ e \notin S => Keep(Append(s, e), S) = Keep(s, S)
  <1> DEFINE t == Append(s, e)
             n == Len(s)
  <1>1. t \in Seq(T) /\ Len(t) = n + 1 /\ n \in Nat /\ t[n + 1] = e
        /\ \A k \in 1 .. n : t[k] = s[k]
      OBVIOUS
  <1>0. n \in Nat
      OBVIOUS
  <1>2. PICK f \in [0 .. n -> Seq(T)] : Keeps(f, s, S) /\ Keep(s, S) = f[n]
      BY KeepRecursion
  <1> HIDE DEF t
  <1>3. PICK g \in [0 .. n + 1 -> Seq(T)] : Keeps(g, t, S) /\ Keep(t, S) = g[n + 1]
    <2>1. PICK g \in [0 .. Len(t) -> Seq(T)] : Keeps(g, t, S) /\ Keep(t, S) = g[Len(t)]
        BY <1>1, KeepRecursion
    <2> QED BY <1>1, <2>1
  <1> HIDE DEF n
  <1> DEFINE N == {k \in Nat : k <= n => g[k] = f[k]}
  <1>4. 0 \in N
      BY <1>2, <1>3 DEF Keeps
  <1>5. ASSUME NEW k \in Nat, k \in N PROVE k + 1 \in N
    <2> SUFFICES ASSUME k + 1 <= n PROVE g[k + 1] = f[k + 1]
        OBVIOUS
    <2>0. k <= n => g[k] = f[k]
        BY <1>5
    <2> HIDE DEF N
    <2>1. k + 1 \in 1 .. n /\ k + 1 \in 1 .. n + 1 /\ (k + 1) - 1 = k /\ g[k] = f[k]
        BY <1>0, <2>0
    <2>2. /\ s[k + 1] \in S => f[k + 1] = Append(f[k], s[k + 1])
          /\ s[k + 1] \notin S => f[k + 1] = f[k]
        BY <1>2, <2>1 DEF Keeps, n
    <2>3. /\ t[k + 1] \in S => g[k + 1] = Append(g[k], t[k + 1])
          /\ t[k + 1] \notin S => g[k + 1] = g[k]
        BY <1>1, <1>3, <2>1 DEF Keeps
    <2> QED BY <1>1, <2>1, <2>2, <2>3
  <1>6. Nat \subseteq N
    <2> HIDE DEF N
    <2> QED BY <1>4, <1>5, NumberInduction
  <1>7. g[n] = f[n]
      BY <1>1, <1>6
  <1>8. /\ t[n + 1] \in S => g[n + 1] = Append(g[n], t[n + 1])
        /\ t[n + 1] \notin S => g[n + 1] = g[n]
    <2>1. n + 1 \in 1 .. n + 1 /\ (n + 1) - 1 = n
        BY <1>1
    <2> QED BY <1>1, <1>3, <2>1 DEF Keeps
  <1>9. /\ e \in S => Keep(t, S) = Append(Keep(s, S), e)
        /\ e \notin S => Keep(t, S) = Keep(s, S)
      BY <1>1, <1>2, <1>3, <1>7, <1>8
  <1> QED BY <1>9 DEF t

\* What is kept is what there is of S.
LEMMA KeepSet ==
  ASSUME NEW T, NEW S, NEW s \in Seq(T)
  PROVE  ToSet(Keep(s, S)) = ToSet(s) \cap S
  <1> DEFINE Q == {r \in Seq(T) : ToSet(Keep(r, S)) = ToSet(r) \cap S}
  <1>1. <<>> \in Q
      BY KeepEmpty DEF ToSet
  <1>2. ASSUME NEW r \in Seq(T), NEW e \in T, r \in Q PROVE Append(r, e) \in Q
    <2>1. Keep(r, S) \in Seq(T) /\ Append(r, e) \in Seq(T)
        BY KeepType
    <2>2. ToSet(Append(r, e)) = ToSet(r) \cup {e}
        BY AppendSet
    <2>3. ToSet(Append(Keep(r, S), e)) = ToSet(Keep(r, S)) \cup {e}
        BY <2>1, AppendSet
    <2>4. /\ e \in S => Keep(Append(r, e), S) = Append(Keep(r, S), e)
          /\ e \notin S => Keep(Append(r, e), S) = Keep(r, S)
        BY KeepAppend
    <2>5. ToSet(Keep(r, S)) = ToSet(r) \cap S
        BY <1>2
    <2>6. ToSet(Keep(Append(r, e), S)) = ToSet(Append(r, e)) \cap S
        BY <2>2, <2>3, <2>4, <2>5
    <2> QED BY <2>1, <2>6
  <1> HIDE DEF Q
  <1>3. s \in Q
      BY <1>1, <1>2, SequenceInduction
  <1> QED BY <1>3 DEF Q

LEMMA KeepConcat ==
  ASSUME NEW T, NEW S, NEW s \in Seq(T), NEW t \in Seq(T)
  PROVE  Keep(s \o t, S) = Keep(s, S) \o Keep(t, S)
  <1> DEFINE Q == {r \in Seq(T) : Keep(s \o r, S) = Keep(s, S) \o Keep(r, S)}
  <1>0. Keep(s, S) \in Seq(T)
      BY KeepType
  <1>1. <<>> \in Q
      BY <1>0, KeepEmpty, ConcatEmptySeq
  <1>2. ASSUME NEW r \in Seq(T), NEW e \in T, r \in Q PROVE Append(r, e) \in Q
    <2>1. Keep(r, S) \in Seq(T) /\ Append(r, e) \in Seq(T) /\ s \o r \in Seq(T)
        BY KeepType
    <2>2. s \o Append(r, e) = Append(s \o r, e)
        BY ConcatAppend
    <2>3. Keep(s, S) \o Append(Keep(r, S), e) = Append(Keep(s, S) \o Keep(r, S), e)
        BY <1>0, <2>1, ConcatAppend
    <2>4. /\ e \in S => Keep(Append(s \o r, e), S) = Append(Keep(s \o r, S), e)
          /\ e \notin S => Keep(Append(s \o r, e), S) = Keep(s \o r, S)
      <3> DEFINE u == s \o r
      <3>1. u \in Seq(T)
          BY <2>1
      <3> HIDE DEF u
      <3>2. /\ e \in S => Keep(Append(u, e), S) = Append(Keep(u, S), e)
            /\ e \notin S => Keep(Append(u, e), S) = Keep(u, S)
          BY <3>1, KeepAppend
      <3> QED BY <3>2 DEF u
    <2>5. /\ e \in S => Keep(Append(r, e), S) = Append(Keep(r, S), e)
          /\ e \notin S => Keep(Append(r, e), S) = Keep(r, S)
        BY KeepAppend
    <2> QED BY <1>2, <2>1, <2>2, <2>3, <2>4, <2>5
  <1> HIDE DEF Q
  <1>3. t \in Q
      BY <1>1, <1>2, SequenceInduction
  <1> QED BY <1>3 DEF Q

LEMMA KeepNone ==
  ASSUME NEW T, NEW S, NEW s \in Seq(T), \A i \in DOMAIN s : s[i] \notin S
  PROVE  Keep(s, S) = <<>>
  <1>1. Keep(s, S) \in Seq(T) /\ ToSet(Keep(s, S)) = {}
      BY KeepType, KeepSet DEF ToSet
  <1> QED BY <1>1, SetOfEmpty

LEMMA KeepAll ==
  ASSUME NEW T, NEW S, NEW s \in Seq(T), \A i \in DOMAIN s : s[i] \in S
  PROVE  Keep(s, S) = s
  <1> DEFINE Q == {r \in Seq(T) : ToSet(r) \subseteq S => Keep(r, S) = r}
  <1>1. <<>> \in Q
      BY KeepEmpty
  <1>2. ASSUME NEW r \in Seq(T), NEW e \in T, r \in Q PROVE Append(r, e) \in Q
    <2>1. Append(r, e) \in Seq(T) /\ ToSet(Append(r, e)) = ToSet(r) \cup {e}
        BY AppendSet
    <2> QED BY <1>2, <2>1, KeepAppend
  <1> HIDE DEF Q
  <1>3. s \in Q
      BY <1>1, <1>2, SequenceInduction
  <1> QED BY <1>3 DEF Q, ToSet

LEMMA KeepShorter ==
  ASSUME NEW T, NEW S, NEW s \in Seq(T)
  PROVE  Len(Keep(s, S)) <= Len(s)
  <1> DEFINE Q == {r \in Seq(T) : Len(Keep(r, S)) <= Len(r)}
  <1>1. <<>> \in Q
      BY KeepEmpty
  <1>2. ASSUME NEW r \in Seq(T), NEW e \in T, r \in Q PROVE Append(r, e) \in Q
    <2>1. Keep(r, S) \in Seq(T) /\ Append(r, e) \in Seq(T)
        BY KeepType
    <2>2. /\ e \in S => Keep(Append(r, e), S) = Append(Keep(r, S), e)
          /\ e \notin S => Keep(Append(r, e), S) = Keep(r, S)
        BY KeepAppend
    <2> QED BY <1>2, <2>1, <2>2
  <1> HIDE DEF Q
  <1>3. s \in Q
      BY <1>1, <1>2, SequenceInduction
  <1> QED BY <1>3 DEF Q

\* Keep of a sequence without repetitions is without repetitions.
LEMMA KeepDistinct ==
  ASSUME NEW T, NEW S, NEW s \in Seq(T), ~Repeats(s)
  PROVE  ~Repeats(Keep(s, S))
  <1> DEFINE Q == {r \in Seq(T) : ~Repeats(r) => ~Repeats(Keep(r, S))}
  <1>1. <<>> \in Q
      BY KeepEmpty DEF Repeats
  <1>2. ASSUME NEW r \in Seq(T), NEW e \in T, r \in Q PROVE Append(r, e) \in Q
    <2>1. Keep(r, S) \in Seq(T) /\ Append(r, e) \in Seq(T) /\ ToSet(Keep(r, S)) = ToSet(r) \cap S
        BY KeepType, KeepSet
    <2> SUFFICES ASSUME ~Repeats(Append(r, e)) PROVE ~Repeats(Keep(Append(r, e), S))
        BY <2>1
    <2>2. ~Repeats(r) /\ e \notin ToSet(r)
        BY DistinctAppend
    <2>3. ~Repeats(Keep(r, S)) /\ e \notin ToSet(Keep(r, S))
        BY <1>2, <2>1, <2>2
    <2>4. ~Repeats(Append(Keep(r, S), e))
        BY <2>1, <2>3, DistinctAppend
    <2> QED BY <2>3, <2>4, KeepAppend
  <1> HIDE DEF Q
  <1>3. s \in Q
      BY <1>1, <1>2, SequenceInduction
  <1> QED BY <1>3 DEF Q

-----------------------------------------------------------------------------
(* FlattenSeq.                                                              *)

\* f holds the first k sequences of ss, joined.
JoinedUp(f, ss) ==
  /\ f[0] = <<>>
  /\ \A k \in 1 .. Len(ss) : f[k] = f[k - 1] \o ss[k]

LEMMA FlattenRecursion ==
  ASSUME NEW T, NEW ss \in Seq(Seq(T))
  PROVE  \E f \in [0 .. Len(ss) -> Seq(T)] : JoinedUp(f, ss) /\ FlattenSeq(ss) = f[Len(ss)]
  <1> DEFINE V == Seq(T)
             n == Len(ss)
             step == [k \in 1 .. n |-> [v \in V |-> v \o ss[k]]]
             Solution(g) == g = [k \in 1 .. n |-> IF k = 1 THEN ss[k] ELSE g[k - 1] \o ss[k]]
  <1>1. n \in Nat /\ <<>> \in V /\ ss \in [1 .. n -> V]
      OBVIOUS
  <1>2. step \in [1 .. n -> [V -> V]]
    <2>1. \A k \in 1 .. n : \A v \in V : v \o ss[k] \in V
        BY <1>1
    <2> HIDE DEF V
    <2> QED BY <2>1
  <1>3. PICK f \in [0 .. n -> V] :
          \A k \in 0 .. n : f[k] = IF k = 0 THEN <<>> ELSE step[k][f[k - 1]]
    <2> HIDE DEF V, n, step
    <2>1. \E f \in [0 .. n -> V] : Solves(f, <<>>, step, n)
        BY <1>1, <1>2, RecursionSolved
    <2> QED BY <2>1 DEF Solves
  <1>4. ASSUME NEW k \in 1 .. n PROVE k \in 0 .. n /\ k # 0 /\ k - 1 \in 0 .. n /\ f[k - 1] \in V
    <2>1. n \in Nat
        BY <1>1
    <2> HIDE DEF V, step, n
    <2>2. k \in 0 .. n /\ k # 0 /\ k - 1 \in 0 .. n
        BY <2>1
    <2> QED BY <2>2
  <1>5. \A k \in 1 .. n : step[k][f[k - 1]] = f[k - 1] \o ss[k]
      BY <1>4
  <1> HIDE DEF step
  <1>6. f[0] = <<>> /\ \A k \in 1 .. n : f[k] = f[k - 1] \o ss[k]
    <2>1. n \in Nat /\ 0 \in 0 .. n
        BY <1>1
    <2> HIDE DEF n, V
    <2> QED BY <1>3, <1>4, <1>5, <2>1
  <1>7. JoinedUp(f, ss)
      BY <1>6 DEF JoinedUp
  <1>8. CASE n = 0
    <2>1. ss = <<>> /\ FlattenSeq(ss) = ss
        BY <1>8 DEF FlattenSeq
    <2> QED BY <1>3, <1>6, <1>7, <1>8, <2>1
  <1>9. CASE n # 0
    <2> DEFINE e == [k \in 1 .. n |-> f[k]]
               h == CHOOSE g : Solution(g)
    <2>1. Solution(e)
      <3>1. ASSUME NEW k \in 1 .. n PROVE e[k] = IF k = 1 THEN ss[k] ELSE e[k - 1] \o ss[k]
        <4>1. CASE k = 1
          <5>1. ss[1] \in V /\ k - 1 = 0
              BY <1>1, <4>1
          <5>2. <<>> \o ss[1] = ss[1]
              BY <5>1
          <5> QED BY <1>6, <4>1, <5>1, <5>2
        <4>2. CASE k # 1
          <5>1. k - 1 \in 1 .. n
              BY <1>1, <4>2
          <5> QED BY <1>6, <4>2, <5>1
        <4> QED BY <4>1, <4>2
      <3>2. e = [k \in 1 .. n |-> e[k]]
          OBVIOUS
      <3> HIDE DEF e
      <3> QED BY <3>1, <3>2
    <2>2. Solution(h)
        BY <2>1, Zenon
    <2>3. FlattenSeq(ss) = h[n]
        BY <1>9 DEF FlattenSeq
    <2> HIDE DEF h
    <2> DEFINE N == {k \in Nat : k <= n /\ k # 0 => h[k] = f[k]}
    <2>4. 0 \in N
        OBVIOUS
    <2>5. ASSUME NEW k \in Nat, k \in N PROVE k + 1 \in N
      <3> SUFFICES ASSUME k + 1 <= n PROVE h[k + 1] = f[k + 1]
          OBVIOUS
      <3>0. k # 0 => h[k] = f[k]
          BY <1>1, <2>5
      <3> HIDE DEF N
      <3>1. k + 1 \in 1 .. n /\ (k + 1) - 1 = k
          BY <1>1
      <3>2. h[k + 1] = IF k + 1 = 1 THEN ss[k + 1] ELSE h[k] \o ss[k + 1]
          BY <2>2, <3>1
      <3>3. f[k + 1] = f[k] \o ss[k + 1]
          BY <1>6, <3>1
      <3>4. CASE k = 0
        <4>1. ss[1] \in V /\ 1 \in 1 .. n
            BY <1>1, <3>1, <3>4
        <4>2. <<>> \o ss[1] = ss[1]
            BY <4>1
        <4>3. k + 1 = 1 /\ f[k] = <<>>
            BY <1>6, <3>4
        <4>4. h[k + 1] = ss[1] /\ f[k + 1] = <<>> \o ss[1]
            BY <3>2, <3>3, <4>3
        <4> QED BY <4>2, <4>4
      <3>5. CASE k # 0
        <4>1. k + 1 # 1 /\ h[k] = f[k]
            BY <3>0, <3>5
        <4>2. h[k + 1] = h[k] \o ss[k + 1]
            BY <3>2, <4>1
        <4> QED BY <3>3, <4>1, <4>2
      <3> QED BY <3>4, <3>5
    <2>6. Nat \subseteq N
      <3> HIDE DEF N
      <3> QED BY <2>4, <2>5, NumberInduction
    <2>7. h[n] = f[n]
        BY <1>1, <1>9, <2>6
    <2> QED BY <1>3, <1>7, <2>3, <2>7
  <1> QED BY <1>8, <1>9

LEMMA FlattenType ==
  ASSUME NEW T, NEW ss \in Seq(Seq(T)) PROVE FlattenSeq(ss) \in Seq(T)
  <1>1. Len(ss) \in 0 .. Len(ss)
      OBVIOUS
  <1> QED BY <1>1, FlattenRecursion

LEMMA FlattenEmpty == FlattenSeq(<<>>) = <<>>
  BY DEF FlattenSeq

LEMMA FlattenAppend ==
  ASSUME NEW T, NEW ss \in Seq(Seq(T)), NEW u \in Seq(T)
  PROVE  FlattenSeq(Append(ss, u)) = FlattenSeq(ss) \o u
  <1> DEFINE t == Append(ss, u)
             n == Len(ss)
  <1>0. n \in Nat
      OBVIOUS
  <1>1. t \in Seq(Seq(T)) /\ Len(t) = n + 1 /\ t[n + 1] = u /\ \A k \in 1 .. n : t[k] = ss[k]
      OBVIOUS
  <1>2. PICK f \in [0 .. n -> Seq(T)] : JoinedUp(f, ss) /\ FlattenSeq(ss) = f[n]
      BY FlattenRecursion
  <1> HIDE DEF t
  <1>3. PICK g \in [0 .. n + 1 -> Seq(T)] : JoinedUp(g, t) /\ FlattenSeq(t) = g[n + 1]
    <2>1. PICK g \in [0 .. Len(t) -> Seq(T)] : JoinedUp(g, t) /\ FlattenSeq(t) = g[Len(t)]
        BY <1>1, FlattenRecursion
    <2> QED BY <1>1, <2>1
  <1> HIDE DEF n
  <1> DEFINE N == {k \in Nat : k <= n => g[k] = f[k]}
  <1>4. 0 \in N
      BY <1>2, <1>3 DEF JoinedUp
  <1>5. ASSUME NEW k \in Nat, k \in N PROVE k + 1 \in N
    <2> SUFFICES ASSUME k + 1 <= n PROVE g[k + 1] = f[k + 1]
        OBVIOUS
    <2>0. k <= n => g[k] = f[k]
        BY <1>5
    <2> HIDE DEF N
    <2>1. k + 1 \in 1 .. n /\ k + 1 \in 1 .. n + 1 /\ (k + 1) - 1 = k /\ g[k] = f[k]
        BY <1>0, <2>0
    <2>2. f[k + 1] = f[k] \o ss[k + 1]
        BY <1>2, <2>1 DEF JoinedUp, n
    <2>3. g[k + 1] = g[k] \o t[k + 1]
        BY <1>1, <1>3, <2>1 DEF JoinedUp
    <2> QED BY <1>1, <2>1, <2>2, <2>3
  <1>6. Nat \subseteq N
    <2> HIDE DEF N
    <2> QED BY <1>4, <1>5, NumberInduction
  <1>7. g[n] = f[n]
      BY <1>0, <1>6
  <1>8. g[n + 1] = g[n] \o t[n + 1]
    <2>1. n + 1 \in 1 .. n + 1 /\ (n + 1) - 1 = n
        BY <1>0
    <2> QED BY <1>1, <1>3, <2>1 DEF JoinedUp
  <1>9. FlattenSeq(t) = FlattenSeq(ss) \o u
      BY <1>1, <1>2, <1>3, <1>7, <1>8
  <1> QED BY <1>9 DEF t

\* The elements of the sequences in ss.
AllOf(ss) == UNION {ToSet(ss[i]) : i \in DOMAIN ss}

LEMMA FlattenElements ==
  ASSUME NEW T, NEW ss \in Seq(Seq(T))
  PROVE  ToSet(FlattenSeq(ss)) = AllOf(ss)
  <1> DEFINE Q == {r \in Seq(Seq(T)) : ToSet(FlattenSeq(r)) = AllOf(r)}
  <1>1. <<>> \in Q
      BY FlattenEmpty DEF ToSet, AllOf
  <1>2. ASSUME NEW r \in Seq(Seq(T)), NEW u \in Seq(T), r \in Q PROVE Append(r, u) \in Q
    <2> DEFINE t == Append(r, u)
    <2>1. t \in Seq(Seq(T)) /\ DOMAIN t = (DOMAIN r) \cup {Len(r) + 1} /\ t[Len(r) + 1] = u
          /\ \A i \in DOMAIN r : t[i] = r[i]
        OBVIOUS
    <2>2. FlattenSeq(t) = FlattenSeq(r) \o u /\ FlattenSeq(r) \in Seq(T)
        BY FlattenAppend, FlattenType
    <2> HIDE DEF t
    <2>3. ToSet(FlattenSeq(t)) = ToSet(FlattenSeq(r)) \cup ToSet(u)
        BY <2>2, ConcatSet
    <2>4. AllOf(t) = AllOf(r) \cup ToSet(u)
        BY <2>1 DEF AllOf
    <2>5. ToSet(FlattenSeq(r)) = AllOf(r)
        BY <1>2
    <2>6. t \in Q
        BY <2>1, <2>3, <2>4, <2>5
    <2> QED BY <2>6 DEF t
  <1> HIDE DEF Q
  <1>3. ss \in Q
      BY <1>1, <1>2, SequenceInduction
  <1>4. ToSet(FlattenSeq(ss)) = AllOf(ss)
      BY <1>3 DEF Q
  <1> QED BY <1>4

-----------------------------------------------------------------------------
(* Counting.                                                                *)

Countable(T) == \A x \in T : x.count \in Nat

\* f holds the sums of the counts of the first lines.
SumsUp(f, s) ==
  /\ f[0] = 0
  /\ \A k \in 1 .. Len(s) : f[k] = f[k - 1] + s[k].count

LEMMA SumRecursion ==
  ASSUME NEW T, Countable(T), NEW s \in Seq(T)
  PROVE  \E f \in [0 .. Len(s) -> Nat] : SumsUp(f, s) /\ CountSum(s) = f[Len(s)]
  <1> DEFINE n == Len(s)
             step == [k \in 1 .. n |-> [v \in Nat |-> v + s[k].count]]
             Solution(g) == g = [k \in 0 .. n |-> IF k = 0 THEN 0 ELSE g[k - 1] + s[k].count]
  <1>1. n \in Nat /\ \A k \in 1 .. n : s[k].count \in Nat
      BY DEF Countable
  <1>2. step \in [1 .. n -> [Nat -> Nat]]
      BY <1>1
  <1>3. PICK f \in [0 .. n -> Nat] :
          \A k \in 0 .. n : f[k] = IF k = 0 THEN 0 ELSE step[k][f[k - 1]]
    <2> HIDE DEF n, step
    <2>1. \E f \in [0 .. n -> Nat] : Solves(f, 0, step, n)
        BY <1>1, <1>2, RecursionSolved
    <2> QED BY <2>1 DEF Solves
  <1>4. ASSUME NEW k \in 1 .. n PROVE k \in 0 .. n /\ k # 0 /\ k - 1 \in 0 .. n /\ f[k - 1] \in Nat
    <2>1. n \in Nat
        BY <1>1
    <2> HIDE DEF step, n
    <2>2. k \in 0 .. n /\ k # 0 /\ k - 1 \in 0 .. n
        BY <2>1
    <2> QED BY <2>2
  <1>5. \A k \in 1 .. n : step[k][f[k - 1]] = f[k - 1] + s[k].count
      BY <1>4
  <1> HIDE DEF step
  <1>6. f[0] = 0 /\ \A k \in 1 .. n : f[k] = f[k - 1] + s[k].count
    <2>1. n \in Nat /\ 0 \in 0 .. n
        BY <1>1
    <2> HIDE DEF n
    <2> QED BY <1>3, <1>4, <1>5, <2>1
  <1>7. SumsUp(f, s)
      BY <1>6 DEF SumsUp
  <1> DEFINE h == CHOOSE g : Solution(g)
  <1>8. Solution(f)
    <2>1. ASSUME NEW k \in 0 .. n PROVE f[k] = IF k = 0 THEN 0 ELSE f[k - 1] + s[k].count
      <3>1. k = 0 \/ k \in 1 .. n
          BY <1>1
      <3> QED BY <1>6, <3>1
    <2>2. f = [k \in 0 .. n |-> f[k]]
        OBVIOUS
    <2> QED BY <2>1, <2>2
  <1>9. Solution(h)
      BY <1>8, Zenon
  <1>10. CountSum(s) = h[n]
      BY DEF CountSum
  <1> HIDE DEF h
  <1> DEFINE N == {k \in Nat : k <= n => h[k] = f[k]}
  <1>11. 0 \in N
      BY <1>1, <1>6, <1>9
  <1>12. ASSUME NEW k \in Nat, k \in N PROVE k + 1 \in N
    <2> SUFFICES ASSUME k + 1 <= n PROVE h[k + 1] = f[k + 1]
        OBVIOUS
    <2>1. k + 1 \in 0 .. n /\ k + 1 \in 1 .. n /\ k + 1 # 0 /\ (k + 1) - 1 = k /\ h[k] = f[k]
        BY <1>1, <1>12
    <2>2. h[k + 1] = h[k] + s[k + 1].count
        BY <1>9, <2>1
    <2>3. f[k + 1] = f[k] + s[k + 1].count
        BY <1>6, <2>1
    <2> QED BY <2>1, <2>2, <2>3
  <1>13. Nat \subseteq N
    <2> HIDE DEF N
    <2> QED BY <1>11, <1>12, NumberInduction
  <1>14. h[n] = f[n]
      BY <1>1, <1>13
  <1> QED BY <1>3, <1>7, <1>10, <1>14

LEMMA SumType ==
  ASSUME NEW T, Countable(T), NEW s \in Seq(T) PROVE CountSum(s) \in Nat
  <1>1. Len(s) \in 0 .. Len(s)
      OBVIOUS
  <1> QED BY <1>1, SumRecursion

LEMMA SumEmpty == CountSum(<<>>) = 0
  <1> DEFINE s == <<>>
  <1>1. s \in Seq({}) /\ Len(s) = 0 /\ Countable({})
      BY DEF Countable
  <1> HIDE DEF s
  <1>2. PICK f \in [0 .. Len(s) -> Nat] : SumsUp(f, s) /\ CountSum(s) = f[Len(s)]
      BY <1>1, SumRecursion
  <1>3. CountSum(s) = 0
      BY <1>1, <1>2 DEF SumsUp
  <1> QED BY <1>3 DEF s

LEMMA SumAppend ==
  ASSUME NEW T, Countable(T), NEW s \in Seq(T), NEW e \in T
  PROVE  CountSum(Append(s, e)) = CountSum(s) + e.count
  <1> DEFINE t == Append(s, e)
             n == Len(s)
  <1>0. n \in Nat
      OBVIOUS
  <1>1. t \in Seq(T) /\ Len(t) = n + 1 /\ t[n + 1] = e /\ \A k \in 1 .. n : t[k] = s[k]
      OBVIOUS
  <1>2. PICK f \in [0 .. n -> Nat] : SumsUp(f, s) /\ CountSum(s) = f[n]
      BY SumRecursion
  <1> HIDE DEF t
  <1>3. PICK g \in [0 .. n + 1 -> Nat] : SumsUp(g, t) /\ CountSum(t) = g[n + 1]
    <2>1. PICK g \in [0 .. Len(t) -> Nat] : SumsUp(g, t) /\ CountSum(t) = g[Len(t)]
        BY <1>1, SumRecursion
    <2> QED BY <1>1, <2>1
  <1> HIDE DEF n
  <1> DEFINE N == {k \in Nat : k <= n => g[k] = f[k]}
  <1>4. 0 \in N
      BY <1>2, <1>3 DEF SumsUp
  <1>5. ASSUME NEW k \in Nat, k \in N PROVE k + 1 \in N
    <2> SUFFICES ASSUME k + 1 <= n PROVE g[k + 1] = f[k + 1]
        OBVIOUS
    <2>0. k <= n => g[k] = f[k]
        BY <1>5
    <2> HIDE DEF N
    <2>1. k + 1 \in 1 .. n /\ k + 1 \in 1 .. n + 1 /\ (k + 1) - 1 = k /\ g[k] = f[k]
        BY <1>0, <2>0
    <2>2. f[k + 1] = f[k] + s[k + 1].count
        BY <1>2, <2>1 DEF SumsUp, n
    <2>3. g[k + 1] = g[k] + t[k + 1].count
        BY <1>1, <1>3, <2>1 DEF SumsUp
    <2>4. t[k + 1] = s[k + 1]
        BY <1>1, <2>1
    <2> QED BY <2>1, <2>2, <2>3, <2>4
  <1>6. Nat \subseteq N
    <2> HIDE DEF N
    <2> QED BY <1>4, <1>5, NumberInduction
  <1>7. g[n] = f[n]
      BY <1>0, <1>6
  <1>8. g[n + 1] = g[n] + t[n + 1].count
    <2>1. n + 1 \in 1 .. n + 1 /\ (n + 1) - 1 = n
        BY <1>0
    <2> QED BY <1>1, <1>3, <2>1 DEF SumsUp
  <1>9. CountSum(t) = CountSum(s) + e.count
      BY <1>1, <1>2, <1>3, <1>7, <1>8
  <1> QED BY <1>9 DEF t

LEMMA SumConcat ==
  ASSUME NEW T, Countable(T), NEW s \in Seq(T), NEW t \in Seq(T)
  PROVE  CountSum(s \o t) = CountSum(s) + CountSum(t)
  <1> DEFINE Q == {r \in Seq(T) : CountSum(s \o r) = CountSum(s) + CountSum(r)}
  <1>0. CountSum(s) \in Nat
      BY SumType
  <1>1. <<>> \in Q
      BY <1>0, SumEmpty, ConcatEmptySeq
  <1>2. ASSUME NEW r \in Seq(T), NEW e \in T, r \in Q PROVE Append(r, e) \in Q
    <2> DEFINE u == s \o r
    <2>1. u \in Seq(T) /\ s \o Append(r, e) = Append(u, e) /\ Append(r, e) \in Seq(T)
        BY ConcatAppend
    <2>2. CountSum(u) = CountSum(s) + CountSum(r)
        BY <1>2
    <2> HIDE DEF u
    <2>3. CountSum(Append(u, e)) = CountSum(u) + e.count /\ CountSum(Append(r, e)) = CountSum(r) + e.count
        BY <2>1, SumAppend
    <2>4. CountSum(r) \in Nat /\ e.count \in Nat
        BY SumType DEF Countable
    <2>5. CountSum(s \o Append(r, e)) = CountSum(s) + CountSum(Append(r, e))
        BY <1>0, <2>1, <2>2, <2>3, <2>4
    <2> QED BY <2>1, <2>5
  <1> HIDE DEF Q
  <1>3. t \in Q
      BY <1>1, <1>2, SequenceInduction
  <1> QED BY <1>3 DEF Q

\* Four sets of which each element is in exactly one.
InOneOf(x, A, B, C, D) ==
  \/ x \in A /\ x \notin B /\ x \notin C /\ x \notin D
  \/ x \notin A /\ x \in B /\ x \notin C /\ x \notin D
  \/ x \notin A /\ x \notin B /\ x \in C /\ x \notin D
  \/ x \notin A /\ x \notin B /\ x \notin C /\ x \in D

LEMMA KeepFour ==
  ASSUME NEW T, NEW A, NEW B, NEW C, NEW D, NEW s \in Seq(T),
         \A i \in DOMAIN s : InOneOf(s[i], A, B, C, D)
  PROVE  Len(Keep(s, A)) + Len(Keep(s, B)) + Len(Keep(s, C)) + Len(Keep(s, D)) = Len(s)
  <1> DEFINE Q == {r \in Seq(T) : (\A x \in ToSet(r) : InOneOf(x, A, B, C, D)) =>
               Len(Keep(r, A)) + Len(Keep(r, B)) + Len(Keep(r, C)) + Len(Keep(r, D)) = Len(r)}
  <1>1. <<>> \in Q
      BY KeepEmpty
  <1>2. ASSUME NEW r \in Seq(T), NEW e \in T, r \in Q PROVE Append(r, e) \in Q
    <2> DEFINE t == Append(r, e)
    <2> SUFFICES ASSUME \A x \in ToSet(t) : InOneOf(x, A, B, C, D)
                 PROVE  Len(Keep(t, A)) + Len(Keep(t, B)) + Len(Keep(t, C)) + Len(Keep(t, D)) = Len(t)
        OBVIOUS
    <2>1. ToSet(t) = ToSet(r) \cup {e}
        BY AppendSet
    <2>2. /\ InOneOf(e, A, B, C, D)
          /\ Len(Keep(r, A)) + Len(Keep(r, B)) + Len(Keep(r, C)) + Len(Keep(r, D)) = Len(r)
        BY <1>2, <2>1
    <2>3. \A S : /\ Keep(r, S) \in Seq(T) /\ Len(Keep(r, S)) \in Nat
                 /\ e \in S => Len(Keep(t, S)) = Len(Keep(r, S)) + 1
                 /\ e \notin S => Len(Keep(t, S)) = Len(Keep(r, S))
        BY KeepType, KeepAppend
    <2>4. Len(t) = Len(r) + 1 /\ Len(r) \in Nat
        OBVIOUS
    <2> HIDE DEF t, Q
    <2> QED BY <2>2, <2>3, <2>4 DEF InOneOf
  <1> HIDE DEF Q
  <1>3. s \in Q
      BY <1>1, <1>2, SequenceInduction
  <1> QED BY <1>3 DEF Q, ToSet

\* What is kept of two sequences whose elements correspond.
LEMMA KeepCompare ==
  ASSUME NEW T, NEW U, NEW A, NEW B, NEW s \in Seq(T), NEW t \in Seq(U), Len(s) = Len(t),
         \A i \in 1 .. Len(s) : s[i] \in A => t[i] \in B
  PROVE  Len(Keep(s, A)) <= Len(Keep(t, B))
  <1> DEFINE Like(r, v) == Len(r) = Len(v) /\ \A i \in 1 .. Len(r) : r[i] \in A => v[i] \in B
             Q == {r \in Seq(T) : \A v \in Seq(U) : Like(r, v) => Len(Keep(r, A)) <= Len(Keep(v, B))}
  <1>1. <<>> \in Q
    <2>1. \A v \in Seq(U) : Len(Keep(v, B)) \in Nat
        BY KeepType
    <2> QED BY <2>1, KeepEmpty
  <1>2. ASSUME NEW r \in Seq(T), NEW e \in T, r \in Q PROVE Append(r, e) \in Q
    <2> DEFINE w == Append(r, e)
    <2>0. w \in Seq(T)
        OBVIOUS
    <2> SUFFICES ASSUME NEW v \in Seq(U), Like(w, v)
                 PROVE  Len(Keep(w, A)) <= Len(Keep(v, B))
        BY <2>0
    <2> DEFINE n == Len(r)
               front == SubSeq(v, 1, n)
               last == v[n + 1]
    <2>1. n \in Nat /\ Len(w) = n + 1 /\ w[n + 1] = e /\ \A i \in 1 .. n : w[i] = r[i]
        OBVIOUS
    <2>2. Len(v) = n + 1
        BY <2>1
    <2>3. front \in Seq(U) /\ Len(front) = n /\ last \in U /\ Append(front, last) = v
          /\ \A i \in 1 .. n : front[i] = v[i]
        BY <2>1, <2>2
    <2>4. Like(r, front) /\ (e \in A => last \in B)
      <3>1. \A i \in 1 .. n + 1 : w[i] \in A => v[i] \in B
          BY <2>1
      <3> HIDE DEF front, last, w
      <3>2. n + 1 \in 1 .. n + 1 /\ \A i \in 1 .. n : i \in 1 .. n + 1
          BY <2>1
      <3> QED BY <2>1, <2>3, <3>1, <3>2 DEF last
    <2>5. Len(Keep(r, A)) <= Len(Keep(front, B))
      <3> HIDE DEF front, Like
      <3> QED BY <1>2, <2>3, <2>4
    <2>6. /\ Len(Keep(r, A)) \in Nat
          /\ e \in A => Len(Keep(w, A)) = Len(Keep(r, A)) + 1
          /\ e \notin A => Len(Keep(w, A)) = Len(Keep(r, A))
      <3>1. Keep(r, A) \in Seq(T)
          BY KeepType
      <3> QED BY <3>1, KeepAppend
    <2> HIDE DEF front, last, w, Q, Like
    <2>7. /\ Len(Keep(front, B)) \in Nat
          /\ last \in B => Len(Keep(v, B)) = Len(Keep(front, B)) + 1
          /\ last \notin B => Len(Keep(v, B)) = Len(Keep(front, B))
      <3>1. Keep(front, B) \in Seq(U)
          BY <2>3, KeepType
      <3>2. /\ last \in B => Keep(Append(front, last), B) = Append(Keep(front, B), last)
            /\ last \notin B => Keep(Append(front, last), B) = Keep(front, B)
          BY <2>3, KeepAppend
      <3> QED BY <2>3, <3>1, <3>2
    <2> QED BY <2>4, <2>5, <2>6, <2>7
  <1>3. s \in Q
    <2> HIDE DEF Q
    <2> QED BY <1>1, <1>2, SequenceInduction
  <1> QED BY <1>3

\* What is kept depends on the elements there are.
LEMMA KeepAgree ==
  ASSUME NEW T, NEW A, NEW B, NEW s \in Seq(T),
         \A x \in ToSet(s) : x \in A <=> x \in B
  PROVE  Keep(s, A) = Keep(s, B)
  <1> DEFINE Q == {r \in Seq(T) : (\A x \in ToSet(r) : x \in A <=> x \in B)
                                    => Keep(r, A) = Keep(r, B)}
  <1>1. <<>> \in Q
      BY KeepEmpty
  <1>2. ASSUME NEW r \in Seq(T), NEW e \in T, r \in Q PROVE Append(r, e) \in Q
    <2> DEFINE t == Append(r, e)
    <2>0. t \in Seq(T)
        OBVIOUS
    <2> SUFFICES ASSUME \A x \in ToSet(t) : x \in A <=> x \in B
                 PROVE  Keep(t, A) = Keep(t, B)
        BY <2>0
    <2>1. ToSet(t) = ToSet(r) \cup {e}
        BY AppendSet
    <2>2. (e \in A <=> e \in B) /\ Keep(r, A) = Keep(r, B)
        BY <1>2, <2>1
    <2>3. \A S : /\ e \in S => Keep(t, S) = Append(Keep(r, S), e)
                 /\ e \notin S => Keep(t, S) = Keep(r, S)
        BY KeepAppend
    <2> HIDE DEF t, Q
    <2> QED BY <2>2, <2>3
  <1> HIDE DEF Q
  <1>3. s \in Q
      BY <1>1, <1>2, SequenceInduction
  <1> QED BY <1>3 DEF Q

\* A sequence that is not empty is one more element after another sequence.
LEMMA FrontAndLast ==
  ASSUME NEW U, NEW v \in Seq(U), NEW n \in Nat, Len(v) = n + 1
  PROVE  \E front \in Seq(U), last \in U :
           /\ v = Append(front, last) /\ Len(front) = n /\ v[n + 1] = last
           /\ \A i \in 1 .. n : v[i] = front[i]
  <1> DEFINE front == SubSeq(v, 1, n)
             last == v[n + 1]
  <1>1. front \in Seq(U) /\ Len(front) = n /\ last \in U /\ Append(front, last) = v
        /\ \A i \in 1 .. n : v[i] = front[i]
      OBVIOUS
  <1>2. v[n + 1] = last
      OBVIOUS
  <1> HIDE DEF front, last
  <1> QED BY <1>1, <1>2

\* Sequences of sequences whose members have as many elements of S as the
\* others have elements.
LEMMA FlattenKeepLens ==
  ASSUME NEW T, NEW U, NEW S, NEW ss \in Seq(Seq(T)), NEW us \in Seq(Seq(U)),
         Len(ss) = Len(us), \A i \in 1 .. Len(ss) : Len(Keep(ss[i], S)) = Len(us[i])
  PROVE  Len(Keep(FlattenSeq(ss), S)) = Len(FlattenSeq(us))
  <1> DEFINE Like(r, v) == Len(r) = Len(v) /\ \A i \in 1 .. Len(r) : Len(Keep(r[i], S)) = Len(v[i])
             Q == {r \in Seq(Seq(T)) : \A v \in Seq(Seq(U)) :
                     Like(r, v) => Len(Keep(FlattenSeq(r), S)) = Len(FlattenSeq(v))}
  <1>1. <<>> \in Q
    <2>1. \A v \in Seq(Seq(U)) : Like(<<>>, v) => v = <<>>
        BY EmptySeq
    <2> QED BY <2>1, KeepEmpty, FlattenEmpty
  <1>2. ASSUME NEW r \in Seq(Seq(T)), NEW e \in Seq(T), r \in Q PROVE Append(r, e) \in Q
    <2> DEFINE w == Append(r, e)
               n == Len(r)
    <2>0. w \in Seq(Seq(T))
        OBVIOUS
    <2> SUFFICES ASSUME NEW v \in Seq(Seq(U)), Like(w, v)
                 PROVE  Len(Keep(FlattenSeq(w), S)) = Len(FlattenSeq(v))
        BY <2>0
    <2>1. n \in Nat /\ Len(w) = n + 1 /\ w[n + 1] = e /\ \A i \in 1 .. n : w[i] = r[i]
        OBVIOUS
    <2>2. Len(v) = n + 1 /\ \A i \in 1 .. n + 1 : Len(Keep(w[i], S)) = Len(v[i])
        BY <2>1
    <2>3. PICK front \in Seq(Seq(U)), last \in Seq(U) :
            /\ v = Append(front, last) /\ Len(front) = n /\ v[n + 1] = last
            /\ \A i \in 1 .. n : v[i] = front[i]
        BY <2>1, <2>2, FrontAndLast
    <2> HIDE DEF w
    <2>4. Like(r, front) /\ Len(Keep(e, S)) = Len(last)
      <3>1. n + 1 \in 1 .. n + 1 /\ \A i \in 1 .. n : i \in 1 .. n + 1
          BY <2>1
      <3> QED BY <2>1, <2>2, <2>3, <3>1
    <2>5. Len(Keep(FlattenSeq(r), S)) = Len(FlattenSeq(front))
      <3> HIDE DEF Like
      <3> QED BY <1>2, <2>4
    <2>6. Keep(FlattenSeq(w), S) = Keep(FlattenSeq(r), S) \o Keep(e, S)
      <3>1. FlattenSeq(w) = FlattenSeq(r) \o e /\ FlattenSeq(r) \in Seq(T)
          BY FlattenAppend, FlattenType DEF w
      <3> QED BY <3>1, KeepConcat
    <2>7. FlattenSeq(v) = FlattenSeq(front) \o last /\ FlattenSeq(front) \in Seq(U)
        BY <2>3, FlattenAppend, FlattenType
    <2>8. Keep(FlattenSeq(r), S) \in Seq(T) /\ Keep(e, S) \in Seq(T)
        BY FlattenType, KeepType
    <2>9. Len(Keep(FlattenSeq(w), S)) = Len(Keep(FlattenSeq(r), S)) + Len(Keep(e, S))
        BY <2>6, <2>8, ConcatProperties
    <2>10. Len(FlattenSeq(v)) = Len(FlattenSeq(front)) + Len(last)
        BY <2>7, ConcatProperties
    <2> QED BY <2>4, <2>5, <2>9, <2>10
  <1>3. ss \in Q
    <2> HIDE DEF Q
    <2> QED BY <1>1, <1>2, SequenceInduction
  <1> QED BY <1>3

LEMMA FlattenCounts ==
  ASSUME NEW T, NEW U, Countable(T), NEW ss \in Seq(Seq(T)), NEW us \in Seq(Seq(U)),
         Len(ss) = Len(us), \A i \in 1 .. Len(ss) : CountSum(ss[i]) = Len(us[i])
  PROVE  CountSum(FlattenSeq(ss)) = Len(FlattenSeq(us))
  <1> DEFINE Like(r, v) == Len(r) = Len(v) /\ \A i \in 1 .. Len(r) : CountSum(r[i]) = Len(v[i])
             Q == {r \in Seq(Seq(T)) : \A v \in Seq(Seq(U)) :
                     Like(r, v) => CountSum(FlattenSeq(r)) = Len(FlattenSeq(v))}
  <1>1. <<>> \in Q
    <2>1. \A v \in Seq(Seq(U)) : Like(<<>>, v) => v = <<>>
        BY EmptySeq
    <2> QED BY <2>1, SumEmpty, FlattenEmpty
  <1>2. ASSUME NEW r \in Seq(Seq(T)), NEW e \in Seq(T), r \in Q PROVE Append(r, e) \in Q
    <2> DEFINE w == Append(r, e)
               n == Len(r)
    <2>0. w \in Seq(Seq(T))
        OBVIOUS
    <2> SUFFICES ASSUME NEW v \in Seq(Seq(U)), Like(w, v)
                 PROVE  CountSum(FlattenSeq(w)) = Len(FlattenSeq(v))
        BY <2>0
    <2>1. n \in Nat /\ Len(w) = n + 1 /\ w[n + 1] = e /\ \A i \in 1 .. n : w[i] = r[i]
        OBVIOUS
    <2>2. Len(v) = n + 1 /\ \A i \in 1 .. n + 1 : CountSum(w[i]) = Len(v[i])
        BY <2>1
    <2>3. PICK front \in Seq(Seq(U)), last \in Seq(U) :
            /\ v = Append(front, last) /\ Len(front) = n /\ v[n + 1] = last
            /\ \A i \in 1 .. n : v[i] = front[i]
        BY <2>1, <2>2, FrontAndLast
    <2> HIDE DEF w
    <2>4. Like(r, front) /\ CountSum(e) = Len(last)
      <3>1. n + 1 \in 1 .. n + 1 /\ \A i \in 1 .. n : i \in 1 .. n + 1
          BY <2>1
      <3> QED BY <2>1, <2>2, <2>3, <3>1
    <2>5. CountSum(FlattenSeq(r)) = Len(FlattenSeq(front))
      <3> HIDE DEF Like
      <3> QED BY <1>2, <2>4
    <2>6. CountSum(FlattenSeq(w)) = CountSum(FlattenSeq(r)) + CountSum(e)
      <3>1. FlattenSeq(w) = FlattenSeq(r) \o e /\ FlattenSeq(r) \in Seq(T)
          BY FlattenAppend, FlattenType DEF w
      <3> QED BY <3>1, SumConcat
    <2>7. FlattenSeq(v) = FlattenSeq(front) \o last /\ FlattenSeq(front) \in Seq(U)
        BY <2>3, FlattenAppend, FlattenType
    <2>8. Len(FlattenSeq(v)) = Len(FlattenSeq(front)) + Len(last)
        BY <2>7, ConcatProperties
    <2> QED BY <2>4, <2>5, <2>6, <2>8
  <1>3. ss \in Q
    <2> HIDE DEF Q
    <2> QED BY <1>1, <1>2, SequenceInduction
  <1> QED BY <1>3

\* One of several joined sequences.
LEMMA FlattenPart ==
  ASSUME NEW T, NEW S, NEW ss \in Seq(Seq(T)), NEW i \in DOMAIN ss
  PROVE  Len(Keep(ss[i], S)) <= Len(Keep(FlattenSeq(ss), S))
  <1> DEFINE Q == {r \in Seq(Seq(T)) :
                     \A k \in DOMAIN r : Len(Keep(r[k], S)) <= Len(Keep(FlattenSeq(r), S))}
  <1>1. <<>> \in Q
      OBVIOUS
  <1>2. ASSUME NEW r \in Seq(Seq(T)), NEW e \in Seq(T), r \in Q PROVE Append(r, e) \in Q
    <2> DEFINE w == Append(r, e)
               n == Len(r)
    <2>1. w \in Seq(Seq(T)) /\ w[n + 1] = e /\ (\A k \in DOMAIN r : w[k] = r[k])
          /\ \A k \in DOMAIN w : k \in DOMAIN r \/ k = n + 1
        OBVIOUS
    <2>2. Keep(FlattenSeq(w), S) = Keep(FlattenSeq(r), S) \o Keep(e, S)
      <3>1. FlattenSeq(w) = FlattenSeq(r) \o e /\ FlattenSeq(r) \in Seq(T)
          BY FlattenAppend, FlattenType
      <3> HIDE DEF w
      <3> QED BY <3>1, KeepConcat
    <2>3. Keep(FlattenSeq(r), S) \in Seq(T) /\ Keep(e, S) \in Seq(T)
        BY FlattenType, KeepType
    <2> HIDE DEF w
    <2>4. /\ Len(Keep(FlattenSeq(w), S)) = Len(Keep(FlattenSeq(r), S)) + Len(Keep(e, S))
          /\ Len(Keep(FlattenSeq(r), S)) \in Nat /\ Len(Keep(e, S)) \in Nat
        BY <2>2, <2>3, ConcatProperties, LenProperties
    <2>5. ASSUME NEW k \in DOMAIN w PROVE Len(Keep(w[k], S)) <= Len(Keep(FlattenSeq(w), S))
      <3>1. CASE k \in DOMAIN r
        <4>1. Len(Keep(r[k], S)) <= Len(Keep(FlattenSeq(r), S)) /\ w[k] = r[k]
            BY <1>2, <2>1, <3>1
        <4>2. r[k] \in Seq(T)
            BY <3>1
        <4>3. Len(Keep(r[k], S)) \in Nat
            BY <4>2, KeepType, LenProperties
        <4> QED BY <2>4, <4>1, <4>3
      <3>2. CASE k = n + 1
        <4>1. w[k] = e
            BY <2>1, <3>2
        <4> QED BY <2>4, <4>1
      <3> QED BY <2>1, <3>1, <3>2
    <2>6. w \in Q
        BY <2>1, <2>5
    <2> QED BY <2>6 DEF w
  <1>3. ss \in Q
    <2> HIDE DEF Q
    <2> QED BY <1>1, <1>2, SequenceInduction
  <1> QED BY <1>3

-----------------------------------------------------------------------------
(* The first and the last place.                                            *)

LEMMA LeastOf ==
  ASSUME NEW S, S \subseteq Nat, S # {}
  PROVE  Min(S) \in S /\ \A n \in S : Min(S) <= n
  <1>1. \E x \in S : \A y \in S : x <= y
      BY LeastNumber
  <1> QED BY <1>1 DEF Min

LEMMA GreatestOf ==
  ASSUME NEW k \in Nat, NEW S, S \subseteq 0 .. k, S # {}
  PROVE  Max(S) \in S /\ \A n \in S : n <= Max(S)
  <1> DEFINE D == {m \in Nat : m <= k /\ k - m \in S}
  <1>1. \A n \in S : n \in Nat /\ n <= k /\ k - n \in Nat /\ k - (k - n) = n
      OBVIOUS
  <1>0. ASSUME NEW n \in S PROVE k - n \in D
    <2>1. k - n \in Nat /\ k - n <= k
        OBVIOUS
    <2>2. k - (k - n) \in S
        BY <1>1
    <2> QED BY <2>1, <2>2
  <1>2. D \subseteq Nat /\ D # {} /\ \A n \in S : k - n \in D
    <2>1. D \subseteq Nat
        OBVIOUS
    <2> HIDE DEF D
    <2>2. PICK n \in S : TRUE
        OBVIOUS
    <2> QED BY <1>0, <2>1, <2>2
  <1>3. PICK m \in D : \A n \in D : m <= n
    <2> HIDE DEF D
    <2> QED BY <1>2, LeastNumber
  <1>4. k - m \in S /\ m \in Nat /\ m <= k
      OBVIOUS
  <1>5. ASSUME NEW n \in S PROVE k - m >= n
    <2>1. m <= k - n
        BY <1>2, <1>3
    <2> QED BY <1>1, <1>4, <2>1
  <1>6. \E x \in S : \A y \in S : x >= y
      BY <1>4, <1>5
  <1>7. Max(S) \in S /\ \A y \in S : Max(S) >= y
      BY <1>6 DEF Max
  <1> QED BY <1>1, <1>7

-----------------------------------------------------------------------------
(* Types, severities and the reviews that count.                            *)

\* The strings, among them those the code itself writes.
Text ==
  STRING \cup {"", "raw", "info", "minor", "major", "critical", "high", "truncated", "no findings",
               "dependency", "injection", "owasp", "configuration",
               "title", "no reviewers ran", "overall", "breakdown", "count", "callout", "section",
               "summary", "finding", "### TL;DR", "tldr"}

FindingRec == [file : Text, line : Text, exact : BOOLEAN, severity : Text, text : Text]

ParsedType ==
  [findings : Seq(FindingRec), sound : BOOLEAN, summary : Seq(Text), severity : Text]

ReviewType ==
  [role : Text, findings : Seq(FindingRec), sound : BOOLEAN, summary : Seq(Text),
   severity : Text, passed : BOOLEAN]

LineType ==
  [kind : Text, role : Text, severity : Text, file : Text, line : Text, text : Text, count : Nat]

RowFindingType == [role : Text, file : Text, line : Text, severity : Text, text : Text]

LEMMA FourSeverities == Severities = {"info", "minor", "major", "critical"}
  <1>1. DOMAIN Ladder = 1 .. 4 /\ Ladder[1] = "info" /\ Ladder[2] = "minor"
        /\ Ladder[3] = "major" /\ Ladder[4] = "critical"
      BY DEF Ladder
  <1> QED BY <1>1 DEF Severities, ToSet

LEMMA RankType == \A severity : Rank(severity) \in 0 .. 3
  <1> SUFFICES ASSUME NEW severity, severity \in Severities PROVE Rank(severity) \in 0 .. 3
      BY DEF Rank
  <1> DEFINE I == {i \in 1 .. Len(Ladder) : Ladder[i] = severity}
  <1>1. Len(Ladder) = 4 /\ DOMAIN Ladder = 1 .. 4
      BY DEF Ladder
  <1>2. I # {} /\ I \subseteq 1 .. 4
      BY <1>1 DEF Severities, ToSet
  <1>3. Rank(severity) = Min(I) - 1
    <2>1. Rank(severity) = SelectInSeq(Ladder, LAMBDA s : s = severity) - 1
        BY DEF Rank
    <2> QED BY <1>2, <2>1 DEF SelectInSeq
  <1> HIDE DEF I
  <1>4. Min(I) \in I
    <2>1. I \subseteq Nat
        BY <1>2
    <2> QED BY <1>2, <2>1, LeastOf
  <1>5. Min(I) \in 1 .. 4
      BY <1>2, <1>4
  <1> QED BY <1>3, <1>5

LEMMA LabelType == \A rank \in 0 .. 3 : Label(rank) \in Severities
  <1> TAKE rank \in 0 .. 3
  <1>1. rank = 0 \/ rank = 1 \/ rank = 2 \/ rank = 3
      OBVIOUS
  <1>2. Ladder[1] = "info" /\ Ladder[2] = "minor" /\ Ladder[3] = "major" /\ Ladder[4] = "critical"
      BY DEF Ladder
  <1> QED BY <1>1, <1>2, FourSeverities DEF Label

\* The label of the highest of some ranks.
LEMMA HighestLabel ==
  ASSUME NEW R, R \subseteq 0 .. 3 PROVE Label(Max({0} \cup R)) \in Severities
  <1>1. Max({0} \cup R) \in {0} \cup R
    <2>1. {0} \cup R \subseteq 0 .. 3 /\ {0} \cup R # {}
        OBVIOUS
    <2> QED BY <2>1, GreatestOf
  <1>2. {0} \cup R \subseteq 0 .. 3
      OBVIOUS
  <1> HIDE DEF Label
  <1> QED BY <1>1, <1>2, LabelType

LEMMA SeverityText == Severities \subseteq Text
  BY FourSeverities DEF Text

LEMMA NormalizeType == ASSUME NEW raw PROVE NormalizeSeverity(raw) \in Severities
  BY FourSeverities DEF NormalizeSeverity

LEMMA StoredType == ASSUME NEW raw PROVE StoredSeverity(raw) \in Severities
  BY FourSeverities DEF StoredSeverity

LEMMA WiderSeq == ASSUME NEW S, NEW T, S \subseteq T, NEW s \in Seq(S) PROVE s \in Seq(T)
  OBVIOUS

LEMMA OneElement == ASSUME NEW T, NEW e \in T PROVE <<e>> \in Seq(T)
  OBVIOUS

LEMMA ParsedIsTyped ==
  ASSUME NEW answer \in AnswerType
  PROVE  Parsed(answer) \in ParsedType /\ "truncated" \notin ToSet(Parsed(answer).summary)
  <1>1. answer.findings \in Seq(FindingType) /\ answer.sound \in BOOLEAN
        /\ answer.summary \in Seq(STRING \ {"truncated"})
      BY DEF AnswerType
  <1>2. answer.findings \in Seq(FindingRec)
    <2>1. FindingType \subseteq FindingRec
        BY DEF FindingType, FindingRec, Text
    <2> QED BY <1>1, <2>1
  <1>3. answer.summary \in Seq(Text) /\ "truncated" \notin ToSet(answer.summary)
    <2>1. STRING \ {"truncated"} \subseteq Text
        BY DEF Text
    <2>2. \A i \in DOMAIN answer.summary : answer.summary[i] # "truncated"
        BY <1>1
    <2>3. answer.summary \in Seq(Text)
        BY <1>1, <2>1, WiderSeq
    <2> QED BY <2>2, <2>3 DEF ToSet
  <1>4. <<Finding(None, None, FALSE, None, "raw")>> \in Seq(FindingRec)
    <2>1. Finding(None, None, FALSE, None, "raw") \in FindingRec
        BY DEF Finding, FindingRec, None, Text
    <2> QED BY <2>1, OneElement
  <1>5. NormalizeSeverity(answer.severity) \in Text /\ "info" \in Text
      BY NormalizeType, SeverityText DEF Text
  <1>6. CASE answer.kind = "prose"
      BY <1>3, <1>4, <1>5, <1>6 DEF Parsed, ParsedType
  <1>7. CASE answer.kind # "prose"
      BY <1>1, <1>2, <1>3, <1>5, <1>7 DEF Parsed, ParsedType
  <1> QED BY <1>6, <1>7

LEMMA ReviewIsTyped ==
  ASSUME NEW role \in Text, NEW parsed \in ParsedType
  PROVE  AgentReview(role, parsed) \in ReviewType
  BY DEF AgentReview, ReviewType, ParsedType

LEMMA TaggedIsTyped ==
  ASSUME NEW findings \in Seq(FindingRec), NEW path \in PathType
  PROVE  Tagged(findings, path) \in Seq(FindingRec)
  <1> DEFINE new(i) == IF findings[i].file = None THEN [findings[i] EXCEPT !.file = path.name.text]
                       ELSE findings[i]
  <1>1. path.name.text \in Text
      BY DEF PathType, NameType, Text
  <1>2. ASSUME NEW i \in DOMAIN findings PROVE new(i) \in FindingRec
    <2>1. findings[i] \in FindingRec
        OBVIOUS
    <2> QED BY <1>1, <2>1 DEF FindingRec
  <1>3. DOMAIN findings = 1 .. Len(findings) /\ Len(findings) \in Nat
      OBVIOUS
  <1>4. Tagged(findings, path) = [i \in 1 .. Len(findings) |-> new(i)]
      BY <1>3 DEF Tagged
  <1>5. [i \in 1 .. Len(findings) |-> new(i)] \in Seq(FindingRec)
    <2> HIDE DEF new
    <2> QED BY <1>2, <1>3
  <1> QED BY <1>4, <1>5

\* The last review of a role is one of that role.
LEMMA LastReview ==
  ASSUME NEW reviews \in Seq(ReviewType), NEW i \in DOMAIN reviews
  PROVE  LET m == SelectLastInSeq(reviews, LAMBDA q : q.role = reviews[i].role)
         IN m \in DOMAIN reviews /\ reviews[m].role = reviews[i].role
  <1> DEFINE m == SelectLastInSeq(reviews, LAMBDA q : q.role = reviews[i].role)
             I == {j \in 1 .. Len(reviews) : reviews[j].role = reviews[i].role}
  <1>1. Len(reviews) \in Nat /\ DOMAIN reviews = 1 .. Len(reviews)
      OBVIOUS
  <1>2. i \in I
      BY <1>1
  <1>3. m = Max(I)
    <2>1. m = IF I # {} THEN Max(I) ELSE 0
        BY DEF SelectLastInSeq
    <2> QED BY <1>2, <2>1
  <1>4. I \subseteq 0 .. Len(reviews)
      OBVIOUS
  <1>5. Max(I) \in I
    <2> HIDE DEF I
    <2> QED BY <1>1, <1>2, <1>4, GreatestOf
  <1> HIDE DEF m
  <1>6. m \in DOMAIN reviews /\ reviews[m].role = reviews[i].role
      BY <1>1, <1>3, <1>5
  <1> QED BY <1>6 DEF m

\* The numbers of the places of a sequence.
LEMMA PlacesAreSeq ==
  ASSUME NEW T, NEW s \in Seq(T)
  PROVE  /\ [i \in DOMAIN s |-> i] \in Seq(DOMAIN s)
         /\ ToSet([i \in DOMAIN s |-> i]) = DOMAIN s
         /\ ~Repeats([i \in DOMAIN s |-> i])
  <1>1. Len(s) \in Nat /\ DOMAIN s = 1 .. Len(s)
      OBVIOUS
  <1> DEFINE p == [i \in DOMAIN s |-> i]
  <1>2. p \in Seq(DOMAIN s)
      BY <1>1
  <1>3. DOMAIN p = DOMAIN s /\ \A i \in DOMAIN s : p[i] = i
      OBVIOUS
  <1> HIDE DEF p
  <1>4. ToSet(p) = DOMAIN s
      BY <1>3 DEF ToSet
  <1>5. ~Repeats(p)
      BY <1>3 DEF Repeats
  <1> QED BY <1>2, <1>4, <1>5 DEF p

SomeRepeat(reviews) == \E i, j \in DOMAIN reviews : i # j /\ reviews[i].role = reviews[j].role

\* What LatestByRole shows are reviews of the run: all, if each role has one.
LEMMA LatestAreReviews ==
  ASSUME NEW reviews \in Seq(ReviewType)
  PROVE  /\ LatestByRole(reviews) \in Seq(ReviewType)
         /\ ToSet(LatestByRole(reviews)) \subseteq ToSet(reviews)
         /\ ~SomeRepeat(reviews) => ToSet(LatestByRole(reviews)) = ToSet(reviews)
  <1> DEFINE places == [i \in DOMAIN reviews |-> i]
             leads == {i \in DOMAIN reviews :
                         \A j \in 1 .. i - 1 : reviews[j].role # reviews[i].role}
             first == Keep(places, leads)
             last(role) == SelectLastInSeq(reviews, LAMBDA q : q.role = role)
             latest == LatestByRole(reviews)
             from(k) == last(reviews[first[k]].role)
  <1>0. Len(reviews) \in Nat /\ DOMAIN reviews = 1 .. Len(reviews)
      OBVIOUS
  <1>1. places \in Seq(DOMAIN reviews) /\ ToSet(places) = DOMAIN reviews
      BY PlacesAreSeq
  <1>2. leads \subseteq DOMAIN reviews
      OBVIOUS
  <1>3. latest = [k \in DOMAIN first |-> reviews[from(k)]]
      BY DEF LatestByRole
  <1> HIDE DEF places, leads
  <1>4. first \in Seq(DOMAIN reviews) /\ ToSet(first) = leads
    <2>1. first \in Seq(DOMAIN reviews)
        BY <1>1, KeepType
    <2>2. ToSet(first) = ToSet(places) \cap leads
        BY <1>1, KeepSet
    <2> HIDE DEF first
    <2> QED BY <1>1, <1>2, <2>1, <2>2
  <1> HIDE DEF first
  <1>5. ASSUME NEW i \in DOMAIN reviews
        PROVE  last(reviews[i].role) \in DOMAIN reviews
               /\ reviews[last(reviews[i].role)].role = reviews[i].role
      BY LastReview
  <1> HIDE DEF last, latest
  <1>6. ASSUME NEW k \in DOMAIN first PROVE from(k) \in DOMAIN reviews
    <2>1. first[k] \in DOMAIN reviews
        BY <1>4
    <2> QED BY <1>5, <2>1
  <1>7. latest \in Seq(ReviewType)
    <2>1. DOMAIN first = 1 .. Len(first) /\ Len(first) \in Nat
        BY <1>4
    <2>2. \A k \in 1 .. Len(first) : reviews[from(k)] \in ReviewType
        BY <1>6, <2>1
    <2> HIDE DEF from
    <2>3. [k \in 1 .. Len(first) |-> reviews[from(k)]] \in Seq(ReviewType)
        BY <2>1, <2>2
    <2> QED BY <1>3, <2>1, <2>3
  <1>8. ToSet(latest) \subseteq ToSet(reviews)
    <2> HIDE DEF from
    <2> QED BY <1>3, <1>6 DEF ToSet
  <1>9. ASSUME ~SomeRepeat(reviews) PROVE ToSet(reviews) \subseteq ToSet(latest)
    <2> SUFFICES ASSUME NEW i \in DOMAIN reviews PROVE reviews[i] \in ToSet(latest)
        BY DEF ToSet
    <2>1. i \in leads
      <3>1. \A j \in 1 .. i - 1 : j \in DOMAIN reviews /\ j # i
          BY <1>0
      <3> QED BY <1>9, <3>1 DEF leads, SomeRepeat
    <2>2. PICK k \in DOMAIN first : first[k] = i
        BY <1>4, <2>1 DEF ToSet
    <2>3. from(k) = i
        BY <1>5, <1>9, <2>2 DEF SomeRepeat
    <2> HIDE DEF from
    <2>4. latest[k] = reviews[i] /\ k \in DOMAIN latest
        BY <1>3, <2>2, <2>3
    <2> QED BY <2>4 DEF ToSet
  <1> QED BY <1>7, <1>8, <1>9 DEF latest

\* The summary of a pass over files says it was cut when it was, and its findings
\* are of files with an answer.
LEMMA RepoReviewFacts ==
  ASSUME NEW role \in Text, NEW paths \in Seq(PathType), NEW parsed, NEW truncated \in Nat,
         DOMAIN parsed \subseteq DOMAIN paths,
         \A i \in DOMAIN parsed : parsed[i] \in ParsedType /\ "truncated" \notin ToSet(parsed[i].summary)
  PROVE  /\ RepoReview(role, paths, parsed, truncated) \in ReviewType
         /\ RepoReview(role, paths, parsed, truncated).role = role
         /\ "truncated" \in ToSet(RepoReview(role, paths, parsed, truncated).summary)
              <=> truncated > 0
         /\ RepoReview(role, paths, parsed, truncated).findings # <<>> =>
              \E i \in DOMAIN parsed : parsed[i].sound
  <1> DEFINE places == [i \in DOMAIN paths |-> i]
             good == {i \in DOMAIN parsed : parsed[i].sound}
             processed == Keep(places, good)
             tag(k) == Tagged(parsed[processed[k]].findings, paths[processed[k]])
             tagged == [k \in DOMAIN processed |-> tag(k)]
             note(k) == IF tagged[k] = <<>> THEN <<>> ELSE parsed[processed[k]].summary
             notes == [k \in DOMAIN processed |-> note(k)]
             noted == FlattenSeq(notes)
             summary == (IF truncated > 0 THEN <<"truncated">> ELSE <<>>)
                          \o (IF noted = <<>> THEN <<"no findings">> ELSE noted)
             ranks == {Rank(parsed[i].severity) : i \in ToSet(processed)}
             whole == [findings |-> FlattenSeq(tagged), sound |-> TRUE,
                       summary |-> summary, severity |-> Label(Max({0} \cup ranks))]
  <1>1. RepoReview(role, paths, parsed, truncated) = AgentReview(role, whole)
      BY DEF RepoReview
  <1>2. places \in Seq(DOMAIN paths) /\ ToSet(places) = DOMAIN paths
      BY PlacesAreSeq
  <1> HIDE DEF places
  <1>3. processed \in Seq(DOMAIN paths) /\ ToSet(processed) = good
      BY <1>2, KeepType, KeepSet
  <1> HIDE DEF processed
  <1>4. ASSUME NEW k \in DOMAIN processed
        PROVE  /\ parsed[processed[k]] \in ParsedType /\ paths[processed[k]] \in PathType
               /\ "truncated" \notin ToSet(parsed[processed[k]].summary)
    <2>1. processed[k] \in good
        BY <1>3 DEF ToSet
    <2> QED BY <2>1
  <1>5. tagged \in Seq(Seq(FindingRec))
    <2>1. \A k \in DOMAIN processed : tag(k) \in Seq(FindingRec)
      <3>1. \A k \in DOMAIN processed : parsed[processed[k]].findings \in Seq(FindingRec)
          BY <1>4 DEF ParsedType
      <3> QED BY <1>4, <3>1, TaggedIsTyped
    <2>2. DOMAIN processed = 1 .. Len(processed) /\ Len(processed) \in Nat
        BY <1>3
    <2> HIDE DEF tag
    <2> QED BY <2>1, <2>2
  <1>6. notes \in Seq(Seq(Text \ {"truncated"}))
    <2>1. ASSUME NEW k \in DOMAIN processed PROVE note(k) \in Seq(Text \ {"truncated"})
      <3>1. parsed[processed[k]].summary \in Seq(Text)
          BY <1>4 DEF ParsedType
      <3> DEFINE w == parsed[processed[k]].summary
      <3>2. w \in Seq(Text) /\ "truncated" \notin ToSet(w)
          BY <1>4, <3>1
      <3>3. note(k) = <<>> \/ note(k) = w
          OBVIOUS
      <3> HIDE DEF w, note
      <3>4. w \in Seq(Text \ {"truncated"})
        <4>1. \A i \in 1 .. Len(w) : w[i] \in Text \ {"truncated"}
            BY <3>2 DEF ToSet
        <4> QED BY <3>2, <4>1
      <3>5. <<>> \in Seq(Text \ {"truncated"})
          OBVIOUS
      <3> QED BY <3>3, <3>4, <3>5
    <2>2. DOMAIN processed = 1 .. Len(processed) /\ Len(processed) \in Nat
        BY <1>3
    <2> HIDE DEF note
    <2> QED BY <2>1, <2>2
  <1>12. ASSUME good = {} PROVE FlattenSeq(tagged) = <<>>
    <2>1. processed = <<>>
      <3> HIDE DEF good
      <3>1. \A k \in DOMAIN processed : processed[k] \in good
          BY <1>3 DEF ToSet
      <3>2. 1 \notin DOMAIN processed
          BY <1>12, <3>1
      <3> QED BY <1>3, <3>2
    <2>2. tagged = <<>>
        BY <2>1
    <2> HIDE DEF tagged
    <2> QED BY <2>2, FlattenEmpty
  <1> HIDE DEF tagged, notes
  <1>7. FlattenSeq(tagged) \in Seq(FindingRec) /\ noted \in Seq(Text \ {"truncated"})
      BY <1>5, <1>6, FlattenType
  <1> HIDE DEF noted
  <1>8. summary \in Seq(Text) /\ ("truncated" \in ToSet(summary) <=> truncated > 0)
    <2> DEFINE a == IF truncated > 0 THEN <<"truncated">> ELSE <<>>
               b == IF noted = <<>> THEN <<"no findings">> ELSE noted
    <2>1. a \in Seq(Text) /\ ("truncated" \in ToSet(a) <=> truncated > 0)
      <3>1. <<"truncated">> \in Seq(Text) /\ <<>> \in Seq(Text)
        <4>1. "truncated" \in Text
            BY DEF Text
        <4> QED BY <4>1, OneElement
      <3>2. "truncated" \in ToSet(<<"truncated">>) /\ "truncated" \notin ToSet(<<>>)
          BY DEF ToSet
      <3> QED BY <3>1, <3>2
    <2>2. b \in Seq(Text) /\ "truncated" \notin ToSet(b)
      <3>1. <<"no findings">> \in Seq(Text \ {"truncated"})
        <4>1. "no findings" \in Text \ {"truncated"}
            BY DEF Text
        <4> QED BY <4>1, OneElement
      <3>2. b \in Seq(Text \ {"truncated"})
          BY <1>7, <3>1
      <3> HIDE DEF b
      <3>3. b \in Seq(Text) /\ \A i \in DOMAIN b : b[i] # "truncated"
          BY <3>2
      <3> QED BY <3>3 DEF ToSet
    <2> HIDE DEF a, b
    <2>3. a \o b \in Seq(Text) /\ ToSet(a \o b) = ToSet(a) \cup ToSet(b)
        BY <2>1, <2>2, ConcatSet
    <2>4. "truncated" \in ToSet(a \o b) <=> truncated > 0
        BY <2>1, <2>2, <2>3
    <2>5. summary = a \o b
        BY DEF a, b
    <2> QED BY <2>3, <2>4, <2>5
  <1> HIDE DEF summary
  <1>9. Label(Max({0} \cup ranks)) \in Text
    <2>1. ranks \subseteq 0 .. 3
        BY RankType
    <2> HIDE DEF ranks
    <2> QED BY <2>1, HighestLabel, SeverityText
  <1> HIDE DEF ranks
  <1>10. whole \in ParsedType /\ whole.summary = summary /\ whole.findings = FlattenSeq(tagged)
      BY <1>7, <1>8, <1>9 DEF ParsedType
  <1> HIDE DEF whole
  <1>11. AgentReview(role, whole) \in ReviewType /\ AgentReview(role, whole).role = role
         /\ AgentReview(role, whole).summary = summary
         /\ AgentReview(role, whole).findings = FlattenSeq(tagged)
      BY <1>10, ReviewIsTyped DEF AgentReview
  <1> QED BY <1>1, <1>8, <1>10, <1>11, <1>12

-----------------------------------------------------------------------------
(* What the validator turns away and the reviewers do not read.             *)

LEMMA Categories ==
  /\ DOMAIN CategoryOrder = 1 .. 6 /\ Len(CategoryOrder) = 6
  /\ CategoryOrder[1] = "vendored" /\ CategoryOrder[2] = "generated" /\ CategoryOrder[3] = "test"
  /\ CategoryOrder[4] = "docs" /\ CategoryOrder[5] = "infra" /\ CategoryOrder[6] = "core"
  BY DEF CategoryOrder

\* A file is in no later category than one that it fits.
LEMMA EarlyCategory ==
  ASSUME NEW path, NEW i \in 1 .. 6, Fits(CategoryOrder[i], path)
  PROVE  \E m \in 1 .. i : classify_file(path) = CategoryOrder[m]
  <1> DEFINE I == {j \in 1 .. Len(CategoryOrder) : Fits(CategoryOrder[j], path)}
  <1>1. i \in I /\ I \subseteq Nat
    <2> HIDE DEF Fits
    <2> QED BY Categories
  <1>2. classify_file(path) = CategoryOrder[Min(I)]
    <2> HIDE DEF CategoryOrder, Fits
    <2>1. SelectInSeq(CategoryOrder, LAMBDA category : Fits(category, path))
            = IF I # {} THEN Min(I) ELSE 0
        BY DEF SelectInSeq
    <2>2. SelectInSeq(CategoryOrder, LAMBDA category : Fits(category, path)) = Min(I)
        BY <1>1, <2>1
    <2> QED BY <2>2 DEF classify_file
  <1>3. \A j \in I : j \in 1 .. 6
      BY Categories
  <1> HIDE DEF I
  <1>4. Min(I) \in I /\ Min(I) <= i
      BY <1>1, LeastOf
  <1>5. Min(I) \in 1 .. i
      BY <1>3, <1>4
  <1> QED BY <1>2, <1>5

LEMMA VendoredIsSkipped ==
  ASSUME NEW path, NEW role, IsVendored(path) PROVE ~InScope(role, path)
  <1>1. Fits(CategoryOrder[1], path)
      BY Categories DEF Fits
  <1>2. \E m \in 1 .. 1 : classify_file(path) = CategoryOrder[m]
      BY <1>1, EarlyCategory
  <1>3. classify_file(path) = "vendored"
      BY <1>2, Categories
  <1> QED BY <1>3 DEF InScope, SkipCategories

LEMMA GeneratedIsSkipped ==
  ASSUME NEW path, NEW role, IsGenerated(path.name) PROVE ~InScope(role, path)
  <1>1. Fits(CategoryOrder[2], path)
      BY Categories DEF Fits
  <1>2. \E m \in 1 .. 2 : classify_file(path) = CategoryOrder[m]
      BY <1>1, EarlyCategory
  <1>3. classify_file(path) \in {"vendored", "generated"}
    <2>1. PICK m \in 1 .. 2 : classify_file(path) = CategoryOrder[m]
        BY <1>2
    <2>2. m = 1 \/ m = 2
        OBVIOUS
    <2> QED BY <2>1, <2>2, Categories
  <1> QED BY <1>3 DEF InScope, SkipCategories

LEMMA DocsAreSkipped ==
  ASSUME NEW path, NEW role, IsDocs(path) PROVE ~InScope(role, path)
  <1>1. Fits(CategoryOrder[4], path)
      BY Categories DEF Fits
  <1>2. \E m \in 1 .. 4 : classify_file(path) = CategoryOrder[m]
      BY <1>1, EarlyCategory
  <1>3. classify_file(path) \in {"vendored", "generated", "test", "docs"}
    <2>1. PICK m \in 1 .. 4 : classify_file(path) = CategoryOrder[m]
        BY <1>2
    <2>2. m = 1 \/ m = 2 \/ m = 3 \/ m = 4
        OBVIOUS
    <2> QED BY <2>1, <2>2, Categories
  <1> QED BY <1>3 DEF InScope, SkipCategories

\* What the whitelist of a role asks of a name.
LEMMA Whitelisted ==
  ASSUME NEW role \in LlmRoles, NEW name, MatchesPath(role, name)
  PROVE  \/ HasEnding(name, SourceEndings \cup {"sql", "sh", "bash"} \cup ConfigEndings)
         \/ name.stem = "Dockerfile"
         \/ name.text = ".dockerignore"
         \/ name.stem = "" /\ Head(name.dots) = "env"
  BY DEF LlmRoles, MatchesPath, HasEnding

LEMMA OneOrNone ==
  ASSUME NEW T, NEW s \in Seq(T), ~(Len(s) > 1)
  PROVE  Len(s) <= 1 /\ (s # <<>> => Len(s) = 1)
  <1> DEFINE n == Len(s)
  <1>1. n \in Nat /\ (s # <<>> => n # 0)
      BY EmptySeq
  <1>2. ~(n > 1)
      OBVIOUS
  <1> HIDE DEF n
  <1>3. n <= 1 /\ (n # 0 => n = 1)
      BY <1>1, <1>2
  <1> QED BY <1>1, <1>3 DEF n

LEMMA AutogenIsSkipped ==
  ASSUME NEW path \in PathType, NEW role \in LlmRoles, WellSplit(path.name), IsAutogenFile(path),
         InScope(role, path)
  PROVE  "gen" \in ToSet(path.dirs)
  <1>1. ~IsVendored(path) /\ ~IsGenerated(path.name)
      BY VendoredIsSkipped, GeneratedIsSkipped
  <1>2. path.name.text # "go.sum"
    <2> SUFFICES ASSUME path.name.text = "go.sum" PROVE FALSE
        OBVIOUS
    <2>1. path.name.stem = "go" /\ path.name.dots = <<"sum">>
      <3>1. [text |-> "go.sum", stem |-> "go", dots |-> <<"sum">>] \in KnownNames
          BY DEF KnownNames
      <3> QED BY <3>1 DEF WellSplit
    <2>2. ~HasEnding(path.name, SourceEndings \cup {"sql", "sh", "bash"} \cup ConfigEndings)
      <3>1. Last(path.name.dots) = "sum"
          BY <2>1 DEF Last
      <3> QED BY <3>1 DEF HasEnding, SourceEndings, ConfigEndings
    <2> QED BY <2>1, <2>2, Whitelisted DEF InScope
  <1>3. path.name.text \notin {"package-lock.json", "yarn.lock", "poetry.lock", "Cargo.lock"}
      BY <1>1 DEF IsGenerated
  <1>4. ~HasEndings(path.name, "min", {"js", "css"}) /\ ~HasEndings(path.name, "pb", {"go"})
    <2> HIDE DEF HasEndings
    <2>1. \A marker, E, F : E \subseteq F /\ HasEndings(path.name, marker, E)
            => HasEndings(path.name, marker, F)
        BY DEF HasEndings
    <2> QED BY <1>1, <2>1 DEF IsGenerated
  <1>5. ~(path.name.affix = "_pb2" /\ path.name.dots = <<"py">>)
      BY <1>1 DEF IsGenerated
  <1>6. ToSet(path.dirs) \cap {"dist", "build", "gen"} # {}
      BY <1>2, <1>3, <1>4, <1>5 DEF IsAutogenFile
  <1>7. "dist" \notin ToSet(path.dirs) /\ "build" \notin ToSet(path.dirs)
      BY <1>1 DEF IsVendored, VendoredDirs, Parts
  <1> QED BY <1>6, <1>7

LEMMA DocFileIsSkipped ==
  ASSUME NEW path \in PathType, NEW role \in LlmRoles, WellSplit(path.name), IsDocFile(path)
  PROVE  ~InScope(role, path)
  <1> SUFFICES ASSUME InScope(role, path) PROVE FALSE
      OBVIOUS
  <1>1. ~IsDocs(path)
      BY DocsAreSkipped
  <1>2. MatchesPath(role, path.name)
      BY DEF InScope
  <1>3. path.dirs \in Seq(STRING) /\ path.name.dots \in Seq(STRING)
      BY DEF PathType, NameType
  <1>4. CASE path.name.text \in {"LICENSE", "CHANGELOG", "AUTHORS", "CONTRIBUTORS", "NOTICE"}
    <2>1. [text |-> path.name.text, stem |-> path.name.text, dots |-> <<>>] \in KnownNames
        BY <1>4 DEF KnownNames
    <2>2. path.name.stem = path.name.text /\ path.name.dots = <<>>
        BY <2>1 DEF WellSplit
    <2>3. ~HasEnding(path.name, SourceEndings \cup {"sql", "sh", "bash"} \cup ConfigEndings)
        BY <2>2 DEF HasEnding
    <2> QED BY <1>2, <1>4, <2>2, <2>3, Whitelisted
  <1>5. CASE FirstPart(path) \in {"docs", "doc"} /\ path.dirs # <<>>
    <2>1. FirstPart(path) = path.dirs[1] /\ 1 \in DOMAIN path.dirs
        BY <1>3, <1>5 DEF FirstPart
    <2>2. FirstPart(path) \in Parts(path)
        BY <2>1 DEF Parts, ToSet
    <2> QED BY <1>1, <1>5, <2>2 DEF IsDocs
  <1>6. CASE HasEnding(path.name, {"md", "rst", "txt", "adoc"})
    <2>1. path.name.dots # <<>> /\ Last(path.name.dots) \in {"md", "rst", "txt", "adoc"}
        BY <1>6 DEF HasEnding
    <2>2. ~HasEnding(path.name, SourceEndings \cup {"sql", "sh", "bash"} \cup ConfigEndings)
        BY <2>1 DEF HasEnding, SourceEndings, ConfigEndings
    <2>3. path.name.stem = "" /\ ~(Len(path.name.dots) > 1)
      <3>1. HasEnding(path.name, {"md", "rst", "adoc", "txt"} \cup Templates)
          BY <2>1 DEF HasEnding
      <3>2. ~(path.name.stem # "" \/ Len(path.name.dots) > 1)
          BY <1>1, <3>1 DEF IsDocs, HasSuffix
      <3> QED BY <3>2
    <2>4. Head(path.name.dots) = Last(path.name.dots)
      <3> DEFINE dots == path.name.dots
      <3>1. dots \in Seq(STRING) /\ dots # <<>> /\ ~(Len(dots) > 1)
          BY <1>3, <2>1, <2>3
      <3> HIDE DEF dots
      <3>2. Len(dots) = 1
          BY <3>1, OneOrNone
      <3>3. Head(dots) = Last(dots)
          BY <3>1, <3>2 DEF Last
      <3> QED BY <3>3 DEF dots
    <2>5. path.name.text # ".dockerignore"
      <3> SUFFICES ASSUME path.name.text = ".dockerignore" PROVE FALSE
          OBVIOUS
      <3>1. [text |-> ".dockerignore", stem |-> "", dots |-> <<"dockerignore">>] \in KnownNames
          BY DEF KnownNames
      <3>2. path.name.dots = <<"dockerignore">>
          BY <3>1 DEF WellSplit
      <3> QED BY <2>1, <3>2 DEF Last
    <2> QED BY <1>2, <2>1, <2>2, <2>3, <2>4, <2>5, Whitelisted
  <1> QED BY <1>4, <1>5, <1>6 DEF IsDocFile

-----------------------------------------------------------------------------
(* The files of a pass.                                                     *)

\* A sequence of which no element occurs twice has as many as it is long.
LEMMA DistinctCount ==
  ASSUME NEW T, NEW s \in Seq(T), ~Repeats(s)
  PROVE  Cardinality(ToSet(s)) = Len(s)
  <1> DEFINE n == Len(s)
             S == 1 .. n
  <1>1. n \in Nat /\ DOMAIN s = S /\ s \in [S -> T]
      BY LenProperties
  <1>2. s \in Surjection(S, ToSet(s)) /\ s \in Injection(S, ToSet(s))
    <2>1. s \in [S -> ToSet(s)]
        BY <1>1 DEF ToSet
    <2>2. \A x \in ToSet(s) : \E i \in S : s[i] = x
        BY <1>1 DEF ToSet
    <2>3. \A i, j \in S : s[i] = s[j] => i = j
        BY <1>1 DEF Repeats
    <2> HIDE DEF S
    <2> QED BY <1>1, <2>1, <2>2, <2>3 DEF Surjection, Injection, IsInjective
  <1>3. IsFiniteSet(S) /\ Cardinality(S) = n
    <2>1. n \in Int /\ 1 \in Int
        BY <1>1
    <2>2. /\ IsFiniteSet(1 .. n)
          /\ Cardinality(1 .. n) = IF 1 > n THEN 0 ELSE n - 1 + 1
        BY <2>1, FS_Interval
    <2>3. Cardinality(1 .. n) = n
      <3>1. (1 > n => n = 0) /\ n - 1 + 1 = n
          BY <1>1
      <3> HIDE DEF n
      <3> QED BY <2>2, <3>1
    <2> QED BY <2>2, <2>3
  <1> HIDE DEF S, n
  <1>4. Cardinality(ToSet(s)) = Cardinality(S)
      BY <1>2, <1>3, FS_Surjection
  <1> QED BY <1>3, <1>4 DEF n

\* No two files of a list have the same path.
PathsDiffer(files) == \A i, j \in DOMAIN files : files[i].path = files[j].path => i = j

PathsOf(files) == [i \in DOMAIN files |-> files[i].path]

LEMMA ListedType ==
  ASSUME NEW tree \in Seq(EntryType)
  PROVE  Listed(tree) \in Seq(EntryType) /\ ToSet(Listed(tree)) \subseteq ToSet(tree)
  <1> DEFINE S == {entry \in ToSet(tree) : /\ entry.kind = "file"
                                           /\ FirstPart(entry.path) # ".git"
                                           /\ ~entry.large}
  <1>1. Listed(tree) = Keep(tree, S)
      BY DEF Listed
  <1> HIDE DEF S
  <1> QED BY <1>1, KeepType, KeepSet

LEMMA MatchedFacts ==
  ASSUME NEW role, NEW files \in Seq(EntryType), PathsDiffer(files)
  PROVE  /\ Matched(role, files) \in Seq(EntryType)
         /\ ToSet(Matched(role, files))
              = {entry \in ToSet(files) : InScope(role, entry.path)}
         /\ PathsDiffer(Matched(role, files))
  <1> DEFINE S == {entry \in ToSet(files) : InScope(role, entry.path)}
             fitting == Matched(role, files)
  <1>1. fitting = Keep(files, S)
      BY DEF Matched
  <1>2. S \subseteq ToSet(files)
      OBVIOUS
  <1>3. ~Repeats(files)
      BY DEF PathsDiffer, Repeats
  <1>4. fitting \in Seq(EntryType) /\ ToSet(fitting) = S /\ ~Repeats(fitting)
    <2> HIDE DEF S, fitting
    <2>1. ToSet(fitting) = ToSet(files) \cap S
        BY <1>1, KeepSet
    <2>2. fitting \in Seq(EntryType)
        BY <1>1, KeepType
    <2>3. ~Repeats(fitting)
        BY <1>1, <1>3, KeepDistinct
    <2> QED BY <1>2, <2>1, <2>2, <2>3
  <1>5. ASSUME NEW i \in DOMAIN fitting, NEW j \in DOMAIN fitting,
               fitting[i].path = fitting[j].path
        PROVE  i = j
    <2> HIDE DEF fitting, S
    <2>1. fitting[i] \in ToSet(files) /\ fitting[j] \in ToSet(files)
        BY <1>2, <1>4 DEF ToSet
    <2>2. fitting[i] = fitting[j]
        BY <1>5, <2>1 DEF PathsDiffer, ToSet
    <2> QED BY <1>4, <2>2 DEF Repeats
  <1>6. PathsDiffer(fitting)
      BY <1>5 DEF PathsDiffer
  <1> HIDE DEF fitting
  <1> QED BY <1>4, <1>6 DEF fitting

\* What a pass reads, and what it says of the rest.
LEMMA ScannedFacts ==
  ASSUME NEW role, NEW files \in Seq(EntryType), PathsDiffer(files)
  PROVE  LET scanned == Scanned(role, files)
             read == ToSet(PathsOf(scanned))
             missed == {entry \in ToSet(files) : InScope(role, entry.path) /\ entry.path \notin read}
         IN /\ scanned \in Seq(EntryType)
            /\ PathsOf(scanned) \in Seq(PathType)
            /\ \A path \in read : \E entry \in ToSet(files) :
                 entry.path = path /\ InScope(role, path)
            /\ Truncated(role, files) \in Nat
            /\ missed # {} <=> Truncated(role, files) > 0
            /\ missed # {} => Cardinality(read) = MAX_FILES_PER_AGENT
  <1> DEFINE scanned == Scanned(role, files)
             fitting == Matched(role, files)
             paths == PathsOf(scanned)
             read == ToSet(paths)
             missed == {entry \in ToSet(files) : InScope(role, entry.path) /\ entry.path \notin read}
             n == Len(fitting)
             m == Len(scanned)
             MAX == MAX_FILES_PER_AGENT
  <1>1. /\ fitting \in Seq(EntryType) /\ PathsDiffer(fitting)
        /\ ToSet(fitting) = {entry \in ToSet(files) : InScope(role, entry.path)}
      BY MatchedFacts
  <1>2. /\ n <= MAX => scanned = fitting
        /\ ~(n <= MAX) => scanned = SubSeq(fitting, 1, MAX)
      BY DEF Scanned, Capped
  <1>3. Truncated(role, files) = n - m
      BY DEF Truncated
  <1> HIDE DEF fitting, scanned
  <1>4. n \in Nat /\ MAX \in Nat /\ DOMAIN fitting = 1 .. n
      BY <1>1, MaxFilesAssumption, LenProperties
  <1>5. /\ scanned \in Seq(EntryType)
        /\ m <= n
        /\ (n <= MAX => m = n) /\ (~(n <= MAX) => m = MAX)
        /\ \A i \in 1 .. m : scanned[i] = fitting[i]
    <2>1. CASE n <= MAX
      <3>1. scanned = fitting
          BY <1>2, <2>1
      <3>2. m = n
          BY <3>1
      <3> HIDE DEF n, m, MAX
      <3> QED BY <1>1, <1>4, <2>1, <3>1, <3>2
    <2>2. CASE ~(n <= MAX)
      <3>1. 1 <= MAX + 1 /\ MAX <= n /\ 1 \in Int /\ MAX \in Int
          BY <1>4, <2>2
      <3>2. scanned = SubSeq(fitting, 1, MAX)
          BY <1>2, <2>2
      <3>3. scanned \in Seq(EntryType) /\ m = MAX /\ \A i \in 1 .. m : scanned[i] = fitting[i]
          BY <1>1, <1>4, <3>1, <3>2
      <3> QED BY <2>2, <3>1, <3>3
    <2> QED BY <2>1, <2>2
  <1>6. m \in Nat /\ DOMAIN scanned = 1 .. m
      BY <1>5, LenProperties
  <1>7. DOMAIN paths = 1 .. m /\ (\A i \in 1 .. m : paths[i] = fitting[i].path)
      BY <1>5, <1>6 DEF PathsOf
  <1>8. paths \in Seq(PathType) /\ Len(paths) = m
    <2>1. ASSUME NEW i \in 1 .. m PROVE scanned[i].path \in PathType
      <3>1. scanned[i] \in EntryType
          BY <1>5, <1>6
      <3> QED BY <3>1 DEF EntryType
    <2>2. paths = [i \in 1 .. m |-> scanned[i].path]
        BY <1>6 DEF PathsOf
    <2> QED BY <1>6, <2>1, <2>2
  <1> HIDE DEF paths, n, m, MAX
  <1>9. \A path \in read : \E entry \in ToSet(files) : entry.path = path /\ InScope(role, path)
    <2>1. ASSUME NEW i \in 1 .. m
          PROVE  fitting[i] \in ToSet(files) /\ InScope(role, fitting[i].path)
      <3>1. i \in DOMAIN fitting
          BY <1>4, <1>5, <1>6
      <3> QED BY <1>1, <3>1 DEF ToSet
    <2> QED BY <1>7, <2>1 DEF ToSet
  <1>10. Truncated(role, files) \in Nat /\ (Truncated(role, files) > 0 <=> n > MAX)
      BY <1>3, <1>4, <1>5, <1>6
  <1>11. ASSUME n <= MAX PROVE missed = {}
    <2>1. m = n
        BY <1>5, <1>11
    <2>2. ASSUME NEW entry \in ToSet(fitting) PROVE entry.path \in read
      <3>1. PICK i \in 1 .. n : fitting[i] = entry
          BY <1>4 DEF ToSet
      <3> QED BY <1>7, <2>1, <3>1 DEF ToSet
    <2> QED BY <1>1, <2>2
  <1>12. ASSUME n > MAX PROVE missed # {}
    <2>1. m = MAX /\ MAX + 1 \in 1 .. n
        BY <1>4, <1>5, <1>12
    <2> DEFINE entry == fitting[MAX + 1]
    <2>2. entry \in ToSet(fitting)
        BY <1>4, <2>1 DEF ToSet
    <2>3. entry.path \notin read
      <3> SUFFICES ASSUME entry.path \in read PROVE FALSE
          OBVIOUS
      <3>1. PICK i \in 1 .. m : fitting[i].path = entry.path
          BY <1>7 DEF ToSet
      <3>2. i = MAX + 1
        <4>1. i \in DOMAIN fitting /\ MAX + 1 \in DOMAIN fitting
            BY <1>4, <1>5, <1>6, <2>1
        <4> QED BY <1>1, <3>1, <4>1 DEF PathsDiffer
      <3> QED BY <1>4, <2>1, <3>2
    <2> QED BY <1>1, <2>2, <2>3
  <1>13. ASSUME n > MAX PROVE Cardinality(read) = MAX
    <2>1. m = MAX
        BY <1>4, <1>5, <1>13
    <2>2. ~Repeats(paths)
      <3> SUFFICES ASSUME NEW i \in 1 .. m, NEW j \in 1 .. m, fitting[i].path = fitting[j].path
                   PROVE  i = j
          BY <1>7 DEF Repeats
      <3>1. i \in DOMAIN fitting /\ j \in DOMAIN fitting
          BY <1>4, <1>5, <1>6
      <3> QED BY <1>1, <3>1 DEF PathsDiffer
    <2>3. Cardinality(read) = Len(paths)
        BY <1>8, <2>2, DistinctCount
    <2> QED BY <1>8, <2>1, <2>3
  <1>14. missed # {} <=> n > MAX
      BY <1>4, <1>11, <1>12
  <1> HIDE DEF missed, read
  <1>15. /\ missed # {} <=> Truncated(role, files) > 0
         /\ missed # {} => Cardinality(read) = MAX
      BY <1>10, <1>13, <1>14
  <1> QED BY <1>5, <1>8, <1>9, <1>10, <1>15 DEF scanned, paths, read, missed, MAX

-----------------------------------------------------------------------------
(* The lines of a report.                                                   *)

LEMMA LineFacts == ASSUME NEW kind \in Text PROVE Line(kind) \in LineType /\ Line(kind).kind = kind
  <1>1. "" \in Text
      BY DEF Text
  <1> QED BY <1>1 DEF Line, LineType, None

LEMMA FindingLineFacts ==
  ASSUME NEW kind \in Text, NEW role \in Text, NEW finding \in FindingRec
  PROVE  /\ FindingLine(kind, role, finding) \in LineType
         /\ FindingLine(kind, role, finding).kind = kind
         /\ FindingLine(kind, role, finding).role = role
         /\ FindingLine(kind, role, finding).file = finding.file
         /\ FindingLine(kind, role, finding).text = finding.text
         /\ FindingLine(kind, role, finding).severity
              = IF finding.severity = None THEN "info" ELSE finding.severity
  <1>1. Line(kind) \in LineType /\ Line(kind).kind = kind
      BY LineFacts
  <1>2. (IF finding.severity = None THEN "info" ELSE finding.severity) \in Text
      BY DEF FindingRec, Text
  <1>3. finding.file \in Text /\ finding.line \in Text /\ finding.text \in Text
      BY DEF FindingRec
  <1> QED BY <1>1, <1>2, <1>3 DEF FindingLine, LineType

\* The lines of a kind.
OfKind(kind) == {l \in LineType : l.kind = kind}

LEMMA LinesAreKept ==
  ASSUME NEW body \in Seq(LineType), NEW kind
  PROVE  Lines(body, kind) = Keep(body, OfKind(kind))
  <1> DEFINE S == {l \in ToSet(body) : l.kind = kind}
  <1>1. Lines(body, kind) = Keep(body, S)
      BY DEF Lines
  <1>2. \A x \in ToSet(body) : x \in S <=> x \in OfKind(kind)
    <2>1. ToSet(body) \subseteq LineType
        BY DEF ToSet
    <2> QED BY <2>1 DEF OfKind
  <1> HIDE DEF S
  <1> QED BY <1>1, <1>2, KeepAgree

LEMMA CountableLines == Countable(LineType)
  BY DEF Countable, LineType

-----------------------------------------------------------------------------
(* The findings of a review by severity.                                    *)

Bucketed(severity) == {f \in FindingRec : Bucket(f.severity) = severity}

LEMMA OfSeverityFacts ==
  ASSUME NEW rev \in ReviewType, NEW severity
  PROVE  /\ OfSeverity(rev, severity) = Keep(rev.findings, Bucketed(severity))
         /\ OfSeverity(rev, severity) \in Seq(FindingRec)
         /\ ToSet(OfSeverity(rev, severity)) = ToSet(rev.findings) \cap Bucketed(severity)
  <1> DEFINE S == {f \in ToSet(rev.findings) : Bucket(f.severity) = severity}
  <1>1. rev.findings \in Seq(FindingRec)
      BY DEF ReviewType
  <1>2. OfSeverity(rev, severity) = Keep(rev.findings, S)
      BY DEF OfSeverity
  <1>3. \A x \in ToSet(rev.findings) : x \in S <=> x \in Bucketed(severity)
    <2>1. ToSet(rev.findings) \subseteq FindingRec
        BY <1>1 DEF ToSet
    <2> QED BY <2>1 DEF Bucketed
  <1> HIDE DEF S
  <1>4. OfSeverity(rev, severity) = Keep(rev.findings, Bucketed(severity))
      BY <1>1, <1>2, <1>3, KeepAgree
  <1> QED BY <1>1, <1>4, KeepType, KeepSet

\* Each finding is in one bucket.
LEMMA BucketsPartition ==
  ASSUME NEW f \in FindingRec
  PROVE  InOneOf(f, Bucketed("critical"), Bucketed("major"), Bucketed("minor"), Bucketed("info"))
  <1>1. Bucket(f.severity) \in {"info", "minor", "major", "critical"}
      BY FourSeverities DEF Bucket
  <1> QED BY <1>1 DEF InOneOf, Bucketed

LEMMA BucketsCount ==
  ASSUME NEW rev \in ReviewType
  PROVE  Len(OfSeverity(rev, "critical")) + Len(OfSeverity(rev, "major"))
           + Len(OfSeverity(rev, "minor")) + Len(OfSeverity(rev, "info"))
         = Len(rev.findings)
  <1>1. rev.findings \in Seq(FindingRec)
      BY DEF ReviewType
  <1>2. \A i \in DOMAIN rev.findings :
          InOneOf(rev.findings[i], Bucketed("critical"), Bucketed("major"),
                  Bucketed("minor"), Bucketed("info"))
    <2>1. \A i \in DOMAIN rev.findings : rev.findings[i] \in FindingRec
        BY <1>1
    <2> QED BY <2>1, BucketsPartition
  <1> DEFINE s == rev.findings
  <1>3. Len(Keep(s, Bucketed("critical"))) + Len(Keep(s, Bucketed("major")))
          + Len(Keep(s, Bucketed("minor"))) + Len(Keep(s, Bucketed("info"))) = Len(s)
    <2>1. s \in Seq(FindingRec) /\ \A i \in DOMAIN s : InOneOf(s[i], Bucketed("critical"),
            Bucketed("major"), Bucketed("minor"), Bucketed("info"))
        BY <1>1, <1>2
    <2> HIDE DEF s, InOneOf
    <2> QED BY <2>1, KeepFour
  <1> QED BY <1>3, OfSeverityFacts

LEMMA JoinFacts ==
  ASSUME NEW T, NEW s \in Seq(T), NEW t \in Seq(T)
  PROVE  s \o t \in Seq(T) /\ Len(s \o t) = Len(s) + Len(t) /\ ToSet(s \o t) = ToSet(s) \cup ToSet(t)
  BY ConcatProperties, ConcatSet

LEMMA SortedFacts ==
  ASSUME NEW rev \in ReviewType
  PROVE  /\ SortedFindings(rev) \in Seq(FindingRec)
         /\ Len(SortedFindings(rev)) = Len(rev.findings)
         /\ ToSet(SortedFindings(rev)) = ToSet(rev.findings)
  <1> DEFINE A == OfSeverity(rev, "critical")
             B == OfSeverity(rev, "major")
             C == OfSeverity(rev, "minor")
             D == OfSeverity(rev, "info")
  <1>1. A \in Seq(FindingRec) /\ B \in Seq(FindingRec) /\ C \in Seq(FindingRec)
        /\ D \in Seq(FindingRec)
      BY OfSeverityFacts
  <1>2. ToSet(A) \cup ToSet(B) \cup ToSet(C) \cup ToSet(D) = ToSet(rev.findings)
    <2>1. /\ ToSet(A) = ToSet(rev.findings) \cap Bucketed("critical")
          /\ ToSet(B) = ToSet(rev.findings) \cap Bucketed("major")
          /\ ToSet(C) = ToSet(rev.findings) \cap Bucketed("minor")
          /\ ToSet(D) = ToSet(rev.findings) \cap Bucketed("info")
        BY OfSeverityFacts
    <2>2. ToSet(rev.findings) \subseteq FindingRec
        BY DEF ReviewType, ToSet
    <2>3. \A f \in ToSet(rev.findings) :
            InOneOf(f, Bucketed("critical"), Bucketed("major"), Bucketed("minor"), Bucketed("info"))
        BY <2>2, BucketsPartition
    <2> HIDE DEF A, B, C, D
    <2> QED BY <2>1, <2>3 DEF InOneOf
  <1>3. Len(A) + Len(B) + Len(C) + Len(D) = Len(rev.findings)
      BY BucketsCount
  <1>4. SortedFindings(rev) = A \o B \o C \o D
      BY DEF SortedFindings
  <1> HIDE DEF A, B, C, D
  <1>5. /\ A \o B \in Seq(FindingRec) /\ Len(A \o B) = Len(A) + Len(B)
        /\ ToSet(A \o B) = ToSet(A) \cup ToSet(B)
      BY <1>1, JoinFacts
  <1>6. /\ (A \o B) \o C \in Seq(FindingRec) /\ Len((A \o B) \o C) = Len(A) + Len(B) + Len(C)
        /\ ToSet((A \o B) \o C) = ToSet(A) \cup ToSet(B) \cup ToSet(C)
    <2> DEFINE X == A \o B
    <2>1. X \in Seq(FindingRec) /\ Len(X) = Len(A) + Len(B) /\ ToSet(X) = ToSet(A) \cup ToSet(B)
        BY <1>5
    <2> HIDE DEF X
    <2>2. X \o C \in Seq(FindingRec) /\ Len(X \o C) = Len(X) + Len(C)
          /\ ToSet(X \o C) = ToSet(X) \cup ToSet(C)
      <3>1. X \in Seq(FindingRec) /\ C \in Seq(FindingRec)
          BY <1>1, <2>1
      <3> QED BY <3>1, JoinFacts
    <2>3. X \o C \in Seq(FindingRec) /\ Len(X \o C) = Len(A) + Len(B) + Len(C)
          /\ ToSet(X \o C) = ToSet(A) \cup ToSet(B) \cup ToSet(C)
        BY <2>1, <2>2
    <2> QED BY <2>3 DEF X
  <1>7. /\ ((A \o B) \o C) \o D \in Seq(FindingRec)
        /\ Len(((A \o B) \o C) \o D) = Len(A) + Len(B) + Len(C) + Len(D)
        /\ ToSet(((A \o B) \o C) \o D) = ToSet(A) \cup ToSet(B) \cup ToSet(C) \cup ToSet(D)
    <2> DEFINE X == (A \o B) \o C
    <2>1. X \in Seq(FindingRec) /\ Len(X) = Len(A) + Len(B) + Len(C)
          /\ ToSet(X) = ToSet(A) \cup ToSet(B) \cup ToSet(C)
        BY <1>6
    <2> HIDE DEF X
    <2>2. X \o D \in Seq(FindingRec) /\ Len(X \o D) = Len(X) + Len(D)
          /\ ToSet(X \o D) = ToSet(X) \cup ToSet(D)
      <3>1. X \in Seq(FindingRec) /\ D \in Seq(FindingRec)
          BY <1>1, <2>1
      <3> QED BY <3>1, JoinFacts
    <2>3. X \o D \in Seq(FindingRec) /\ Len(X \o D) = Len(A) + Len(B) + Len(C) + Len(D)
          /\ ToSet(X \o D) = ToSet(A) \cup ToSet(B) \cup ToSet(C) \cup ToSet(D)
        BY <2>1, <2>2
    <2> QED BY <2>3 DEF X
  <1> QED BY <1>2, <1>3, <1>4, <1>7

-----------------------------------------------------------------------------
(* The counts.                                                              *)

Cell(rev, severity) ==
  [Line("count") EXCEPT !.role = rev.role, !.severity = severity,
                        !.count = Len(OfSeverity(rev, severity))]

Cells(rev) == [k \in DOMAIN Ladder |-> Cell(rev, Ladder[k])]

LEMMA CellFacts ==
  ASSUME NEW rev \in ReviewType, NEW severity \in Text
  PROVE  /\ Cell(rev, severity) \in LineType
         /\ Cell(rev, severity).kind = "count"
         /\ Cell(rev, severity).role = rev.role
         /\ Cell(rev, severity).severity = severity
         /\ Cell(rev, severity).count = Len(OfSeverity(rev, severity))
  <1>1. Line("count") \in LineType /\ Line("count").kind = "count"
    <2>1. "count" \in Text
        BY DEF Text
    <2> QED BY <2>1, LineFacts
  <1>2. rev.role \in Text /\ Len(OfSeverity(rev, severity)) \in Nat
      BY OfSeverityFacts, LenProperties DEF ReviewType
  <1> QED BY <1>1, <1>2 DEF Cell, LineType

LEMMA AppendFacts ==
  ASSUME NEW T, NEW s \in Seq(T), NEW e \in T
  PROVE  /\ Append(s, e) \in Seq(T) /\ Len(Append(s, e)) = Len(s) + 1
         /\ Append(s, e)[Len(s) + 1] = e /\ \A i \in 1 .. Len(s) : Append(s, e)[i] = s[i]
  OBVIOUS

LEMMA CellsFacts ==
  ASSUME NEW rev \in ReviewType
  PROVE  /\ Cells(rev) \in Seq(LineType)
         /\ CountSum(Cells(rev)) = Len(rev.findings)
         /\ \A l \in ToSet(Cells(rev)) : \E severity \in Severities : l = Cell(rev, severity)
  <1> DEFINE cells == Cells(rev)
             c(severity) == Cell(rev, severity)
  <1>0. /\ "critical" \in Text /\ "major" \in Text /\ "minor" \in Text /\ "info" \in Text
      BY DEF Text
  <1>1. DOMAIN Ladder = 1 .. 4 /\ Ladder[1] = "info" /\ Ladder[2] = "minor"
        /\ Ladder[3] = "major" /\ Ladder[4] = "critical"
      BY DEF Ladder
  <1>2. cells = [k \in 1 .. 4 |-> c(Ladder[k])]
      BY <1>1 DEF Cells
  <1>3. \A k \in 1 .. 4 : k = 1 \/ k = 2 \/ k = 3 \/ k = 4
      OBVIOUS
  <1>4. /\ c("info") \in LineType /\ c("minor") \in LineType /\ c("major") \in LineType
        /\ c("critical") \in LineType
      BY <1>0, CellFacts
  <1>5. /\ c("info").count = Len(OfSeverity(rev, "info"))
        /\ c("minor").count = Len(OfSeverity(rev, "minor"))
        /\ c("major").count = Len(OfSeverity(rev, "major"))
        /\ c("critical").count = Len(OfSeverity(rev, "critical"))
      BY <1>0, CellFacts
  <1>6. /\ c("info").count \in Nat /\ c("minor").count \in Nat /\ c("major").count \in Nat
        /\ c("critical").count \in Nat
      BY <1>4, CountableLines DEF Countable
  <1>7. \A l \in ToSet(cells) : \E severity \in Severities : l = c(severity)
    <2> HIDE DEF c
    <2>1. \A k \in 1 .. 4 : Ladder[k] \in Severities
        BY <1>1 DEF Severities, ToSet
    <2> QED BY <1>2, <2>1 DEF ToSet
  <1> HIDE DEF c, cells
  <1>8. cells = Append(Append(Append(Append(<<>>, c("info")), c("minor")), c("major")), c("critical"))
    <2> DEFINE a == Append(<<>>, c("info"))
               b == Append(a, c("minor"))
               d == Append(b, c("major"))
               e == Append(d, c("critical"))
    <2>1. a \in Seq(LineType) /\ Len(a) = 1 /\ a[1] = c("info")
        BY <1>4
    <2> HIDE DEF a
    <2>2. b \in Seq(LineType) /\ Len(b) = 2 /\ b[1] = c("info") /\ b[2] = c("minor")
      <3>1. a \in Seq(LineType) /\ c("minor") \in LineType 
          BY <1>4, <2>1
      <3>2. /\ b \in Seq(LineType) /\ Len(b) = Len(a) + 1 /\ b[Len(a) + 1] = c("minor")
            /\ \A i \in 1 .. Len(a) : b[i] = a[i]
          BY <3>1, AppendFacts
      <3> HIDE DEF b
      <3>3. 1 + 1 = 2 /\ 1 \in 1 .. 1
          OBVIOUS
      <3>4. Len(a) = 1
          BY <2>1
      <3> QED BY <2>1, <3>2, <3>3, <3>4
    <2> HIDE DEF b
    <2>3. d \in Seq(LineType) /\ Len(d) = 3 /\ d[1] = c("info") /\ d[2] = c("minor")
          /\ d[3] = c("major")
      <3>1. b \in Seq(LineType) /\ c("major") \in LineType 
          BY <1>4, <2>2
      <3>2. /\ d \in Seq(LineType) /\ Len(d) = Len(b) + 1 /\ d[Len(b) + 1] = c("major")
            /\ \A i \in 1 .. Len(b) : d[i] = b[i]
          BY <3>1, AppendFacts
      <3> HIDE DEF d
      <3>3. 2 + 1 = 3 /\ 1 \in 1 .. 2 /\ 2 \in 1 .. 2
          OBVIOUS
      <3>4. Len(b) = 2
          BY <2>2
      <3> QED BY <2>2, <3>2, <3>3, <3>4
    <2> HIDE DEF d
    <2>4. e \in Seq(LineType) /\ Len(e) = 4 /\ e[1] = c("info") /\ e[2] = c("minor")
          /\ e[3] = c("major") /\ e[4] = c("critical")
      <3>1. d \in Seq(LineType) /\ c("critical") \in LineType 
          BY <1>4, <2>3
      <3>2. /\ e \in Seq(LineType) /\ Len(e) = Len(d) + 1 /\ e[Len(d) + 1] = c("critical")
            /\ \A i \in 1 .. Len(d) : e[i] = d[i]
          BY <3>1, AppendFacts
      <3> HIDE DEF e
      <3>3. 3 + 1 = 4 /\ 1 \in 1 .. 3 /\ 2 \in 1 .. 3 /\ 3 \in 1 .. 3
          OBVIOUS
      <3>4. Len(d) = 3
          BY <2>3
      <3> QED BY <2>3, <3>2, <3>3, <3>4
    <2> HIDE DEF e
    <2>5. \A k \in 1 .. 4 : e[k] = c(Ladder[k])
        BY <1>1, <1>3, <2>4
    <2>6. e = cells
        BY <1>2, <2>4, <2>5
    <2> QED BY <2>6 DEF a, b, d, e
  <1>9. cells \in Seq(LineType)
        /\ CountSum(cells) = c("info").count + c("minor").count + c("major").count
                               + c("critical").count
    <2> DEFINE z == <<>>
               a == Append(z, c("info"))
               b == Append(a, c("minor"))
               d == Append(b, c("major"))
               e == Append(d, c("critical"))
    <2>0. z \in Seq(LineType) /\ CountSum(z) = 0
        BY SumEmpty
    <2> HIDE DEF z
    <2>1. a \in Seq(LineType) /\ CountSum(a) = c("info").count
        BY <1>4, <1>6, <2>0, SumAppend, CountableLines
    <2> HIDE DEF a
    <2>2. b \in Seq(LineType) /\ CountSum(b) = c("info").count + c("minor").count
        BY <1>4, <2>1, SumAppend, CountableLines
    <2> HIDE DEF b
    <2>3. d \in Seq(LineType) /\ CountSum(d) = c("info").count + c("minor").count + c("major").count
        BY <1>4, <2>2, SumAppend, CountableLines
    <2> HIDE DEF d
    <2>4. e \in Seq(LineType) /\ CountSum(e) = c("info").count + c("minor").count
                                                 + c("major").count + c("critical").count
        BY <1>4, <2>3, SumAppend, CountableLines
    <2>5. e = cells
        BY <1>8 DEF z, a, b, d
    <2> QED BY <2>4, <2>5
  <1>10. CountSum(cells) = Len(rev.findings)
    <2>1. \A s : Len(OfSeverity(rev, s)) \in Nat
        BY OfSeverityFacts, LenProperties
    <2> DEFINE n(s) == Len(OfSeverity(rev, s))
    <2>2. CountSum(cells) = n("info") + n("minor") + n("major") + n("critical")
        BY <1>5, <1>9
    <2>3. n("critical") + n("major") + n("minor") + n("info") = Len(rev.findings)
        BY BucketsCount
    <2>4. n("info") \in Nat /\ n("minor") \in Nat /\ n("major") \in Nat /\ n("critical") \in Nat
        BY <2>1
    <2> HIDE DEF n
    <2> QED BY <2>2, <2>3, <2>4
  <1> QED BY <1>7, <1>9, <1>10 DEF cells, c

-----------------------------------------------------------------------------
(* The sections.                                                            *)

SectionKinds == {"summary", "finding", "### TL;DR"}

\* A line of a section is of the role of the line before it.
Runs(s) == \A k \in DOMAIN s : s[k].kind \in SectionKinds => k > 1 /\ s[k].role = s[k - 1].role

LEMMA JoinFirst ==
  ASSUME NEW T, NEW s \in Seq(T), NEW t \in Seq(T), Len(s) >= 1
  PROVE  (s \o t)[1] = s[1] /\ Len(s \o t) >= 1
  <1> DEFINE u == s \o t
             n == Len(s)
             m == Len(t)
  <1>1. /\ Len(u) = n + m /\ n \in Nat /\ m \in Nat
        /\ \A i \in 1 .. n + m : i <= n => u[i] = s[i]
      BY ConcatProperties, LenProperties
  <1>2. 1 <= n
      OBVIOUS
  <1> HIDE DEF u, n, m
  <1>3. 1 \in 1 .. n + m /\ n + m >= 1
      BY <1>1, <1>2
  <1>4. u[1] = s[1] /\ Len(u) >= 1
      BY <1>1, <1>2, <1>3
  <1> QED BY <1>4 DEF u

LEMMA RunsJoin ==
  ASSUME NEW s \in Seq(LineType), NEW t \in Seq(LineType), Runs(s), Runs(t)
  PROVE  Runs(s \o t)
  <1> DEFINE u == s \o t
             n == Len(s)
             m == Len(t)
  <1>1. /\ n \in Nat /\ m \in Nat /\ DOMAIN s = 1 .. n /\ DOMAIN t = 1 .. m
        /\ u \in Seq(LineType) /\ DOMAIN u = 1 .. n + m
      BY LenProperties, ConcatProperties
  <1>2. /\ \A k \in 1 .. n : u[k] = s[k]
        /\ \A k \in 1 .. m : u[n + k] = t[k]
    <2>1. \A k \in 1 .. n + m : /\ k <= n => u[k] = s[k]
                                /\ ~(k <= n) => u[k] = t[k - n]
        BY ConcatProperties
    <2>2. \A k \in 1 .. n : k \in 1 .. n + m /\ k <= n
        BY <1>1
    <2>3. \A k \in 1 .. m : n + k \in 1 .. n + m /\ ~(n + k <= n) /\ n + k - n = k
        BY <1>1
    <2> HIDE DEF u, n, m
    <2>4. \A k \in 1 .. n : u[k] = s[k]
        BY <2>1, <2>2
    <2>5. ASSUME NEW k \in 1 .. m PROVE u[n + k] = t[k]
      <3> DEFINE j == n + k
      <3>1. j \in 1 .. n + m /\ ~(j <= n) /\ j - n = k
          BY <1>1
      <3> HIDE DEF j
      <3>2. u[j] = t[j - n]
          BY <2>1, <3>1
      <3> QED BY <3>1, <3>2 DEF j
    <2> QED BY <2>4, <2>5
  <1> HIDE DEF u, n, m
  <1>3. SUFFICES ASSUME NEW k \in 1 .. n + m, u[k].kind \in SectionKinds
                 PROVE  k > 1 /\ u[k].role = u[k - 1].role
      BY <1>1 DEF Runs, u
  <1>4. CASE k <= n
    <2>1. k \in 1 .. n /\ u[k] = s[k]
        BY <1>1, <1>2, <1>4
    <2>2. k > 1 /\ s[k].role = s[k - 1].role
        BY <1>1, <1>3, <2>1 DEF Runs
    <2>3. k - 1 \in 1 .. n
        BY <1>1, <2>1, <2>2
    <2> QED BY <1>2, <2>1, <2>2, <2>3
  <1>5. CASE ~(k <= n)
    <2> DEFINE j == k - n
    <2>1. j \in 1 .. m /\ k = n + j
        BY <1>1, <1>5
    <2> HIDE DEF j
    <2>2. u[k] = t[j]
        BY <1>2, <2>1
    <2>3. j > 1 /\ t[j].role = t[j - 1].role
        BY <1>1, <1>3, <2>1, <2>2 DEF Runs
    <2>4. j - 1 \in 1 .. m /\ n + (j - 1) = k - 1 /\ k > 1
        BY <1>1, <2>1, <2>3
    <2>5. u[k - 1] = t[j - 1]
        BY <1>2, <2>4
    <2> QED BY <2>2, <2>3, <2>4, <2>5
  <1> QED BY <1>4, <1>5

LEMMA RunsFlatten ==
  ASSUME NEW ss \in Seq(Seq(LineType)), \A i \in DOMAIN ss : Runs(ss[i])
  PROVE  Runs(FlattenSeq(ss))
  <1> DEFINE Q == {r \in Seq(Seq(LineType)) : (\A x \in ToSet(r) : Runs(x)) => Runs(FlattenSeq(r))}
  <1>1. <<>> \in Q
      BY FlattenEmpty DEF Runs
  <1>2. ASSUME NEW r \in Seq(Seq(LineType)), NEW e \in Seq(LineType), r \in Q
        PROVE  Append(r, e) \in Q
    <2>0. Append(r, e) \in Seq(Seq(LineType))
        OBVIOUS
    <2> SUFFICES ASSUME \A x \in ToSet(Append(r, e)) : Runs(x)
                 PROVE  Runs(FlattenSeq(Append(r, e)))
        BY <2>0
    <2>1. Runs(e) /\ \A x \in ToSet(r) : Runs(x)
        BY AppendSet
    <2>2. FlattenSeq(Append(r, e)) = FlattenSeq(r) \o e /\ FlattenSeq(r) \in Seq(LineType)
        BY FlattenAppend, FlattenType
    <2>3. Runs(FlattenSeq(r))
        BY <1>2, <2>1
    <2>4. Runs(FlattenSeq(r) \o e)
        BY <2>1, <2>2, <2>3, RunsJoin
    <2> HIDE DEF Runs
    <2> QED BY <2>2, <2>4
  <1>3. ss \in Q
    <2> HIDE DEF Q
    <2> QED BY <1>1, <1>2, SequenceInduction
  <1>4. \A x \in ToSet(ss) : Runs(x)
      BY DEF ToSet
  <1> HIDE DEF Runs
  <1> QED BY <1>3, <1>4

SectionHead(r) == <<[Line("section") EXCEPT !.role = r.role, !.severity = r.severity]>>

SummaryLine(r, k) ==
  [Line(IF r.summary[k] = "### TL;DR" THEN "### TL;DR" ELSE "summary")
     EXCEPT !.role = r.role, !.text = r.summary[k]]

SummaryLines(r) == [k \in DOMAIN r.summary |-> SummaryLine(r, k)]

FindingLines(r) ==
  [k \in DOMAIN SortedFindings(r) |-> FindingLine("finding", r.role, SortedFindings(r)[k])]

SectionFindings(r) == {FindingLine("finding", r.role, f) : f \in ToSet(r.findings)}

LEMMA HeadFacts ==
  ASSUME NEW r \in ReviewType
  PROVE  /\ SectionHead(r) \in Seq(LineType) /\ Len(SectionHead(r)) = 1
         /\ SectionHead(r)[1].kind = "section" /\ SectionHead(r)[1].role = r.role
  <1> DEFINE h == [Line("section") EXCEPT !.role = r.role, !.severity = r.severity]
  <1>1. Line("section") \in LineType /\ Line("section").kind = "section"
    <2>1. "section" \in Text
        BY DEF Text
    <2> QED BY <2>1, LineFacts
  <1>2. h \in LineType /\ h.kind = "section" /\ h.role = r.role
      BY <1>1 DEF LineType, ReviewType
  <1>3. SectionHead(r) = <<h>>
      BY DEF SectionHead
  <1> HIDE DEF h
  <1> QED BY <1>2, <1>3, OneElement

LEMMA SummaryFacts ==
  ASSUME NEW r \in ReviewType
  PROVE  /\ SummaryLines(r) \in Seq(LineType)
         /\ \A l \in ToSet(SummaryLines(r)) :
              /\ l.role = r.role
              /\ l.kind = "summary" \/ (l.kind = "### TL;DR" /\ "### TL;DR" \in ToSet(r.summary))
  <1>1. r.summary \in Seq(Text) /\ r.role \in Text
      BY DEF ReviewType
  <1>2. ASSUME NEW k \in DOMAIN r.summary
        PROVE  /\ SummaryLine(r, k) \in LineType /\ SummaryLine(r, k).role = r.role
               /\ SummaryLine(r, k).kind
                    = IF r.summary[k] = "### TL;DR" THEN "### TL;DR" ELSE "summary"
    <2> DEFINE kind == IF r.summary[k] = "### TL;DR" THEN "### TL;DR" ELSE "summary"
    <2>1. kind \in Text
        BY DEF Text
    <2> HIDE DEF kind
    <2>2. Line(kind) \in LineType /\ Line(kind).kind = kind
        BY <2>1, LineFacts
    <2>3. r.summary[k] \in Text
        BY <1>1
    <2>4. SummaryLine(r, k) = [Line(kind) EXCEPT !.role = r.role, !.text = r.summary[k]]
        BY DEF SummaryLine, kind
    <2>5. SummaryLine(r, k) \in LineType /\ SummaryLine(r, k).role = r.role
          /\ SummaryLine(r, k).kind = kind
        BY <1>1, <2>2, <2>3, <2>4 DEF LineType
    <2> QED BY <2>5 DEF kind
  <1>3. SummaryLines(r) \in Seq(LineType)
    <2>1. DOMAIN r.summary = 1 .. Len(r.summary) /\ Len(r.summary) \in Nat
        BY <1>1
    <2> DEFINE e(k) == SummaryLine(r, k)
    <2>2. \A k \in DOMAIN r.summary : e(k) \in LineType
        BY <1>2
    <2>3. SummaryLines(r) = [k \in DOMAIN r.summary |-> e(k)]
        BY DEF SummaryLines
    <2> HIDE DEF e
    <2> QED BY <2>1, <2>2, <2>3
  <1>4. ASSUME NEW l \in ToSet(SummaryLines(r))
        PROVE  /\ l.role = r.role
               /\ l.kind = "summary" \/ (l.kind = "### TL;DR" /\ "### TL;DR" \in ToSet(r.summary))
    <2>1. PICK k \in DOMAIN r.summary : l = SummaryLine(r, k)
        BY DEF SummaryLines, ToSet
    <2>2. r.summary[k] \in ToSet(r.summary)
        BY DEF ToSet
    <2> QED BY <1>2, <2>1, <2>2
  <1> QED BY <1>3, <1>4

LEMMA FindingLinesFacts ==
  ASSUME NEW r \in ReviewType
  PROVE  /\ FindingLines(r) \in Seq(LineType)
         /\ Len(FindingLines(r)) = Len(r.findings)
         /\ ToSet(FindingLines(r)) = SectionFindings(r)
         /\ \A l \in ToSet(FindingLines(r)) : l.kind = "finding" /\ l.role = r.role
  <1> DEFINE sorted == SortedFindings(r)
             shown(k) == FindingLine("finding", r.role, sorted[k])
  <1>1. /\ sorted \in Seq(FindingRec) /\ Len(sorted) = Len(r.findings)
        /\ ToSet(sorted) = ToSet(r.findings)
      BY SortedFacts
  <1>2. "finding" \in Text /\ r.role \in Text
      BY DEF Text, ReviewType
  <1>3. FindingLines(r) = [k \in DOMAIN sorted |-> shown(k)]
      BY DEF FindingLines
  <1> HIDE DEF sorted
  <1>4. ASSUME NEW k \in DOMAIN sorted
        PROVE  /\ shown(k) \in LineType /\ shown(k).kind = "finding" /\ shown(k).role = r.role
               /\ shown(k) \in SectionFindings(r)
    <2>1. sorted[k] \in FindingRec /\ sorted[k] \in ToSet(r.findings)
      <3>1. sorted[k] \in FindingRec
          BY <1>1
      <3>2. sorted[k] \in ToSet(sorted)
          BY DEF ToSet
      <3> QED BY <1>1, <3>1, <3>2
    <2> QED BY <1>2, <2>1, FindingLineFacts DEF SectionFindings
  <1>5. ASSUME NEW f \in ToSet(r.findings)
        PROVE  \E k \in DOMAIN sorted : shown(k) = FindingLine("finding", r.role, f)
      BY <1>1 DEF ToSet
  <1>6. DOMAIN sorted = 1 .. Len(sorted) /\ Len(sorted) \in Nat
      BY <1>1
  <1>7. ToSet(FindingLines(r)) = SectionFindings(r)
    <2>1. ToSet(FindingLines(r)) \subseteq SectionFindings(r)
      <3> HIDE DEF shown
      <3> QED BY <1>3, <1>4 DEF ToSet
    <2>2. SectionFindings(r) \subseteq ToSet(FindingLines(r))
      <3> SUFFICES ASSUME NEW f \in ToSet(r.findings)
                   PROVE  FindingLine("finding", r.role, f) \in ToSet(FindingLines(r))
          BY DEF SectionFindings
      <3>1. PICK k \in DOMAIN sorted : shown(k) = FindingLine("finding", r.role, f)
          BY <1>5
      <3> HIDE DEF shown
      <3> QED BY <1>3, <3>1 DEF ToSet
    <2> QED BY <2>1, <2>2
  <1> HIDE DEF shown
  <1> QED BY <1>1, <1>3, <1>4, <1>6, <1>7 DEF ToSet

LEMMA SectionFacts ==
  ASSUME NEW r \in ReviewType
  PROVE  /\ Section(r) \in Seq(LineType)
         /\ Runs(Section(r))
         /\ \A l \in ToSet(Section(r)) :
              \/ l.kind \in {"section", "summary", "finding"}
              \/ l.kind = "### TL;DR" /\ "### TL;DR" \in ToSet(r.summary)
         /\ Len(Keep(Section(r), OfKind("finding"))) = Len(r.findings)
         /\ ToSet(Section(r)) \cap OfKind("finding") = SectionFindings(r)
  <1> DEFINE H == SectionHead(r)
             S == SummaryLines(r)
             F == FindingLines(r)
             sec == (H \o S) \o F
  <1>1. Section(r) = sec
      BY DEF Section, SectionHead, SummaryLines, SummaryLine, FindingLines
  <1>2. H \in Seq(LineType) /\ Len(H) = 1 /\ H[1].kind = "section" /\ H[1].role = r.role
      BY HeadFacts
  <1>3. S \in Seq(LineType) /\ \A l \in ToSet(S) :
              /\ l.role = r.role
              /\ l.kind = "summary" \/ (l.kind = "### TL;DR" /\ "### TL;DR" \in ToSet(r.summary))
      BY SummaryFacts
  <1>4. /\ F \in Seq(LineType) /\ Len(F) = Len(r.findings) /\ ToSet(F) = SectionFindings(r)
        /\ \A l \in ToSet(F) : l.kind = "finding" /\ l.role = r.role
      BY FindingLinesFacts
  <1> HIDE DEF H, S, F
  <1>13. H \in Seq(LineType) /\ S \in Seq(LineType) /\ F \in Seq(LineType) /\ Len(H) = 1
      BY <1>2, <1>3, <1>4
  <1>5. ToSet(H) = {H[1]}
      BY <1>2 DEF ToSet
  <1>6. H \o S \in Seq(LineType) /\ ToSet(H \o S) = ToSet(H) \cup ToSet(S)
      BY <1>13, JoinFacts
  <1>7. sec \in Seq(LineType) /\ ToSet(sec) = ToSet(H \o S) \cup ToSet(F)
    <2> DEFINE X == H \o S
    <2>1. X \in Seq(LineType)
        BY <1>6
    <2> HIDE DEF X
    <2>2. X \o F \in Seq(LineType) /\ ToSet(X \o F) = ToSet(X) \cup ToSet(F)
        BY <1>13, <2>1, JoinFacts
    <2> QED BY <2>2 DEF X
  <1>8. sec[1] = H[1] /\ Len(sec) \in Nat
    <2>1. (H \o S)[1] = H[1] /\ Len(H \o S) >= 1
      <3>1. Len(H) >= 1
          BY <1>13
      <3> QED BY <1>13, <3>1, JoinFirst
    <2> DEFINE X == H \o S
    <2>2. X \in Seq(LineType) /\ X[1] = H[1] /\ Len(X) >= 1
        BY <1>6, <2>1
    <2> HIDE DEF X
    <2>3. (X \o F)[1] = H[1]
        BY <1>13, <2>2, JoinFirst
    <2> QED BY <1>7, <2>3 DEF X
  <1>9. \A l \in ToSet(sec) :
          /\ l.role = r.role
          /\ \/ l.kind \in {"section", "summary", "finding"}
             \/ l.kind = "### TL;DR" /\ "### TL;DR" \in ToSet(r.summary)
      BY <1>2, <1>3, <1>4, <1>5, <1>6, <1>7
  <1>10. Runs(sec)
    <2> SUFFICES ASSUME NEW k \in DOMAIN sec, sec[k].kind \in SectionKinds
                 PROVE  k > 1 /\ sec[k].role = sec[k - 1].role
      <3> HIDE DEF sec
      <3> QED BY DEF Runs
    <2> HIDE DEF sec
    <2>1. DOMAIN sec = 1 .. Len(sec)
        BY <1>7
    <2>2. k # 1
        BY <1>2, <1>8 DEF SectionKinds
    <2>3. k > 1 /\ k - 1 \in DOMAIN sec
        BY <1>8, <2>1, <2>2
    <2>4. sec[k] \in ToSet(sec) /\ sec[k - 1] \in ToSet(sec)
        BY <2>3 DEF ToSet
    <2> QED BY <1>9, <2>3, <2>4
  <1>11. Len(Keep(sec, OfKind("finding"))) = Len(r.findings)
    <2>1. Keep(sec, OfKind("finding"))
            = Keep(H \o S, OfKind("finding")) \o Keep(F, OfKind("finding"))
        BY <1>4, <1>6, KeepConcat
    <2>2. Keep(H \o S, OfKind("finding")) = <<>>
      <3>1. \A l \in ToSet(H \o S) : l \notin OfKind("finding")
          BY <1>2, <1>3, <1>5, <1>6 DEF OfKind
      <3> DEFINE X == H \o S
      <3>2. X \in Seq(LineType) /\ \A i \in DOMAIN X : X[i] \notin OfKind("finding")
          BY <1>6, <3>1 DEF ToSet
      <3> HIDE DEF X
      <3>3. Keep(X, OfKind("finding")) = <<>>
          BY <3>2, KeepNone
      <3> QED BY <3>3 DEF X
    <2>3. Keep(F, OfKind("finding")) = F
      <3>1. \A i \in DOMAIN F : F[i] \in OfKind("finding")
        <4>1. \A i \in DOMAIN F : F[i] \in ToSet(F) /\ F[i] \in LineType
            BY <1>4 DEF ToSet
        <4> QED BY <1>4, <4>1 DEF OfKind
      <3> QED BY <1>4, <3>1, KeepAll
    <2>4. Keep(sec, OfKind("finding")) = F
        BY <1>4, <2>1, <2>2, <2>3, ConcatEmptySeq
    <2> HIDE DEF sec
    <2> QED BY <1>4, <2>4
  <1>12. ToSet(sec) \cap OfKind("finding") = SectionFindings(r)
    <2>1. \A l \in ToSet(H) \cup ToSet(S) : l.kind # "finding"
        BY <1>2, <1>3, <1>5
    <2>2. \A l \in ToSet(F) : l \in OfKind("finding")
      <3>1. ToSet(F) \subseteq LineType
          BY <1>4 DEF ToSet
      <3> QED BY <1>4, <3>1 DEF OfKind
    <2>3. \A l \in OfKind("finding") : l.kind = "finding"
        BY DEF OfKind
    <2> HIDE DEF sec
    <2>4. ToSet(sec) = (ToSet(H) \cup ToSet(S)) \cup ToSet(F)
        BY <1>6, <1>7
    <2> QED BY <1>4, <2>1, <2>2, <2>3, <2>4
  <1> HIDE DEF sec
  <1> QED BY <1>1, <1>7, <1>9, <1>10, <1>11, <1>12

-----------------------------------------------------------------------------
(* The rows of the findings.                                                *)

Rows(r) == [k \in DOMAIN r.findings |-> FindingRow(r.role, r.findings[k])]

RowParts(reviews) == [i \in DOMAIN reviews |-> Rows(reviews[i])]

LEMMA RowFacts ==
  ASSUME NEW role \in Text, NEW f \in FindingRec
  PROVE  /\ FindingRow(role, f) \in RowFindingType
         /\ FindingRow(role, f).role = role
         /\ FindingRow(role, f).file = f.file
         /\ FindingRow(role, f).text = f.text
         /\ FindingRow(role, f).severity = StoredSeverity(f.severity)
  <1>1. StoredSeverity(f.severity) \in Text
      BY StoredType, SeverityText
  <1>2. None \in Text
      BY DEF None, Text
  <1> QED BY <1>1, <1>2 DEF FindingRow, RowFindingType, FindingRec

LEMMA RowsFacts ==
  ASSUME NEW r \in ReviewType
  PROVE  /\ Rows(r) \in Seq(RowFindingType)
         /\ Len(Rows(r)) = Len(r.findings)
         /\ DOMAIN Rows(r) = DOMAIN r.findings
  <1>1. r.findings \in Seq(FindingRec) /\ r.role \in Text
      BY DEF ReviewType
  <1> DEFINE e(k) == FindingRow(r.role, r.findings[k])
  <1>2. ASSUME NEW k \in DOMAIN r.findings PROVE e(k) \in RowFindingType
    <2>1. r.findings[k] \in FindingRec
        BY <1>1
    <2> QED BY <1>1, <2>1, RowFacts
  <1>3. Rows(r) = [k \in DOMAIN r.findings |-> e(k)]
      BY DEF Rows
  <1> HIDE DEF e
  <1>4. DOMAIN r.findings = 1 .. Len(r.findings) /\ Len(r.findings) \in Nat
      BY <1>1
  <1> QED BY <1>2, <1>3, <1>4

LEMMA RowPartsFacts ==
  ASSUME NEW reviews \in Seq(ReviewType)
  PROVE  /\ RowParts(reviews) \in Seq(Seq(RowFindingType))
         /\ Len(RowParts(reviews)) = Len(reviews)
         /\ FlattenSeq(RowParts(reviews)) \in Seq(RowFindingType)
  <1> DEFINE e(i) == Rows(reviews[i])
  <1>1. \A i \in DOMAIN reviews : e(i) \in Seq(RowFindingType)
    <2>1. \A i \in DOMAIN reviews : reviews[i] \in ReviewType
        OBVIOUS
    <2> QED BY <2>1, RowsFacts
  <1>2. RowParts(reviews) = [i \in DOMAIN reviews |-> e(i)]
      BY DEF RowParts
  <1> HIDE DEF e
  <1>3. DOMAIN reviews = 1 .. Len(reviews) /\ Len(reviews) \in Nat
      OBVIOUS
  <1>4. RowParts(reviews) \in Seq(Seq(RowFindingType)) /\ Len(RowParts(reviews)) = Len(reviews)
      BY <1>1, <1>2, <1>3
  <1> QED BY <1>4, FlattenType

\* The element of a joined sequence of rows.
LEMMA RowOfFinding ==
  ASSUME NEW reviews \in Seq(ReviewType), NEW x \in ToSet(FlattenSeq(RowParts(reviews)))
  PROVE  \E i \in DOMAIN reviews : \E f \in ToSet(reviews[i].findings) :
           x = FindingRow(reviews[i].role, f)
  <1>1. x \in AllOf(RowParts(reviews))
      BY RowPartsFacts, FlattenElements
  <1>2. PICK i \in DOMAIN reviews : x \in ToSet(Rows(reviews[i]))
      BY <1>1 DEF AllOf, RowParts
  <1>3. PICK k \in DOMAIN reviews[i].findings : x = FindingRow(reviews[i].role, reviews[i].findings[k])
      BY <1>2 DEF Rows, ToSet
  <1>4. reviews[i].findings[k] \in ToSet(reviews[i].findings)
      BY DEF ToSet
  <1> QED BY <1>3, <1>4

LEMMA FindingHasRow ==
  ASSUME NEW reviews \in Seq(ReviewType), NEW i \in DOMAIN reviews,
         NEW f \in ToSet(reviews[i].findings)
  PROVE  FindingRow(reviews[i].role, f) \in ToSet(FlattenSeq(RowParts(reviews)))
  <1>1. FindingRow(reviews[i].role, f) \in ToSet(Rows(reviews[i]))
    <2>1. PICK k \in DOMAIN reviews[i].findings : f = reviews[i].findings[k]
        BY DEF ToSet
    <2>2. k \in DOMAIN Rows(reviews[i]) /\ Rows(reviews[i])[k] = FindingRow(reviews[i].role, f)
        BY <2>1 DEF Rows
    <2> QED BY <2>2 DEF ToSet
  <1>2. FindingRow(reviews[i].role, f) \in AllOf(RowParts(reviews))
      BY <1>1 DEF AllOf, RowParts
  <1> QED BY <1>2, RowPartsFacts, FlattenElements

-----------------------------------------------------------------------------
(* The parts of the report.                                                 *)

Items(r) ==
  LET critical == Keep(r.findings, {f \in ToSet(r.findings) : f.severity = "critical"})
  IN [k \in DOMAIN critical |-> FindingLine("critical", r.role, critical[k])]

\* l calls a critical finding of reviews.
Calls(l, reviews) ==
  \E i \in DOMAIN reviews : \E f \in ToSet(reviews[i].findings) :
    /\ f.severity = "critical"
    /\ l.role = reviews[i].role
    /\ l.file = f.file
    /\ l.text = f.text

LEMMA ItemsFacts ==
  ASSUME NEW r \in ReviewType
  PROVE  /\ Items(r) \in Seq(LineType)
         /\ \A l \in ToSet(Items(r)) :
              /\ l.kind = "critical"
              /\ \E f \in ToSet(r.findings) :
                   f.severity = "critical" /\ l.role = r.role /\ l.file = f.file /\ l.text = f.text
  <1> DEFINE C == {f \in ToSet(r.findings) : f.severity = "critical"}
             critical == Keep(r.findings, C)
             e(k) == FindingLine("critical", r.role, critical[k])
  <1>1. r.findings \in Seq(FindingRec) /\ r.role \in Text /\ "critical" \in Text
      BY DEF ReviewType, Text
  <1>2. Items(r) = [k \in DOMAIN critical |-> e(k)]
      BY DEF Items
  <1>3. critical \in Seq(FindingRec) /\ ToSet(critical) \subseteq C
    <2> HIDE DEF C
    <2>1. ToSet(critical) = ToSet(r.findings) \cap C
        BY <1>1, KeepSet
    <2>2. critical \in Seq(FindingRec)
        BY <1>1, KeepType
    <2> QED BY <2>1, <2>2
  <1> HIDE DEF critical
  <1>4. ASSUME NEW k \in DOMAIN critical
        PROVE  /\ e(k) \in LineType /\ e(k).kind = "critical"
               /\ \E f \in ToSet(r.findings) : f.severity = "critical" /\ e(k).role = r.role
                    /\ e(k).file = f.file /\ e(k).text = f.text
    <2>1. critical[k] \in FindingRec /\ critical[k] \in C
      <3>1. critical[k] \in FindingRec
          BY <1>3
      <3>2. critical[k] \in ToSet(critical)
          BY DEF ToSet
      <3> HIDE DEF C
      <3> QED BY <1>3, <3>1, <3>2
    <2>2. /\ e(k) \in LineType /\ e(k).kind = "critical" /\ e(k).role = r.role
          /\ e(k).file = critical[k].file /\ e(k).text = critical[k].text
        BY <1>1, <2>1, FindingLineFacts
    <2> HIDE DEF e
    <2> QED BY <2>1, <2>2
  <1>5. DOMAIN critical = 1 .. Len(critical) /\ Len(critical) \in Nat
      BY <1>3
  <1> HIDE DEF e
  <1>6. Items(r) \in Seq(LineType)
      BY <1>2, <1>4, <1>5
  <1> QED BY <1>2, <1>4, <1>6 DEF ToSet

LEMMA CalloutFacts ==
  ASSUME NEW reviews \in Seq(ReviewType)
  PROVE  /\ CriticalCallout(reviews) \in Seq(LineType)
         /\ \A l \in ToSet(CriticalCallout(reviews)) :
              \/ l.kind = "callout"
              \/ l.kind = "critical" /\ Calls(l, reviews)
  <1> DEFINE e(i) == Items(reviews[i])
             parts == [i \in DOMAIN reviews |-> e(i)]
             items == FlattenSeq(parts)
             head == [Line("callout") EXCEPT !.count = Len(items)]
  <1>0. DOMAIN reviews = 1 .. Len(reviews) /\ Len(reviews) \in Nat
        /\ \A i \in DOMAIN reviews : reviews[i] \in ReviewType
      OBVIOUS
  <1>1. CriticalCallout(reviews) = IF items = <<>> THEN <<>> ELSE <<head>> \o items
      BY DEF CriticalCallout, Items
  <1>2. \A i \in DOMAIN reviews : e(i) \in Seq(LineType)
      BY <1>0, ItemsFacts
  <1>3. parts \in Seq(Seq(LineType))
    <2> HIDE DEF e
    <2> QED BY <1>0, <1>2
  <1>4. \A l \in AllOf(parts) : l.kind = "critical" /\ Calls(l, reviews)
    <2>1. ASSUME NEW l \in AllOf(parts) PROVE \E i \in DOMAIN reviews : l \in ToSet(e(i))
        BY DEF AllOf
    <2> QED BY <1>0, <2>1, ItemsFacts DEF Calls
  <1> HIDE DEF parts
  <1>5. items \in Seq(LineType) /\ ToSet(items) = AllOf(parts)
      BY <1>3, FlattenType, FlattenElements
  <1>6. head \in LineType /\ head.kind = "callout"
    <2>1. Line("callout") \in LineType /\ Line("callout").kind = "callout"
      <3>1. "callout" \in Text
          BY DEF Text
      <3> QED BY <3>1, LineFacts
    <2>2. Len(items) \in Nat
        BY <1>5, LenProperties
    <2> HIDE DEF items
    <2> QED BY <2>1, <2>2 DEF LineType
  <1> HIDE DEF items, head
  <1>7. <<head>> \in Seq(LineType) /\ ToSet(<<head>>) = {head}
      BY <1>6, OneElement DEF ToSet
  <1>8. <<head>> \o items \in Seq(LineType)
        /\ ToSet(<<head>> \o items) = ToSet(<<head>>) \cup ToSet(items)
    <2> DEFINE h == <<head>>
    <2>1. h \in Seq(LineType) /\ items \in Seq(LineType)
        BY <1>5, <1>7
    <2> HIDE DEF h
    <2>2. h \o items \in Seq(LineType) /\ ToSet(h \o items) = ToSet(h) \cup ToSet(items)
        BY <2>1, JoinFacts
    <2> QED BY <2>2 DEF h
  <1>9. <<>> \in Seq(LineType) /\ ToSet(<<>>) = {}
      BY DEF ToSet
  <1> QED BY <1>1, <1>4, <1>5, <1>6, <1>7, <1>8, <1>9

\* The counts of the breakdown add up to the rows.
LEMMA BreakdownFacts ==
  ASSUME NEW reviews \in Seq(ReviewType)
  PROVE  /\ SeverityBreakdown(reviews) \in Seq(LineType)
         /\ \A l \in ToSet(SeverityBreakdown(reviews)) :
              \/ l.kind = "breakdown"
              \/ /\ l.kind = "count"
                 /\ \E i \in DOMAIN reviews : \E severity \in Severities : l = Cell(reviews[i], severity)
         /\ CountSum(Keep(SeverityBreakdown(reviews), OfKind("count")))
              = Len(FlattenSeq(RowParts(reviews)))
  <1> DEFINE e(i) == Cells(reviews[i])
             parts == [i \in DOMAIN reviews |-> e(i)]
             all == FlattenSeq(parts)
             head == Line("breakdown")
             K == OfKind("count")
             none == \A i \in DOMAIN reviews : reviews[i].findings = <<>>
  <1>0. DOMAIN reviews = 1 .. Len(reviews) /\ Len(reviews) \in Nat
        /\ \A i \in DOMAIN reviews : reviews[i] \in ReviewType
      OBVIOUS
  <1>1. SeverityBreakdown(reviews) = IF none THEN <<>> ELSE <<head>> \o all
      BY DEF SeverityBreakdown, Cells, Cell
  <1>2. \A i \in DOMAIN reviews : e(i) \in Seq(LineType)
      BY <1>0, CellsFacts
  <1>3. parts \in Seq(Seq(LineType)) /\ Len(parts) = Len(reviews)
        /\ \A i \in DOMAIN reviews : parts[i] = e(i)
    <2> HIDE DEF e
    <2> QED BY <1>0, <1>2
  <1>4. ASSUME NEW l \in AllOf(parts)
        PROVE  /\ l.kind = "count"
               /\ \E i \in DOMAIN reviews : \E severity \in Severities : l = Cell(reviews[i], severity)
    <2>1. PICK i \in DOMAIN reviews : l \in ToSet(e(i))
        BY DEF AllOf
    <2>2. PICK severity \in Severities : l = Cell(reviews[i], severity)
        BY <1>0, <2>1, CellsFacts
    <2>3. l.kind = "count"
        BY <1>0, <2>2, SeverityText, CellFacts
    <2> QED BY <2>2, <2>3
  <1>5. all \in Seq(LineType) /\ ToSet(all) = AllOf(parts)
    <2> HIDE DEF parts
    <2> QED BY <1>3, FlattenType, FlattenElements
  <1>6. CountSum(all) = Len(FlattenSeq(RowParts(reviews)))
    <2>1. RowParts(reviews) \in Seq(Seq(RowFindingType)) /\ Len(RowParts(reviews)) = Len(parts)
        BY <1>3, RowPartsFacts
    <2>2. \A i \in 1 .. Len(parts) : CountSum(parts[i]) = Len(RowParts(reviews)[i])
      <3> SUFFICES ASSUME NEW i \in DOMAIN reviews
                   PROVE  CountSum(parts[i]) = Len(RowParts(reviews)[i])
          BY <1>0, <1>3
      <3>1. CountSum(e(i)) = Len(reviews[i].findings) /\ Len(Rows(reviews[i])) = Len(reviews[i].findings)
          BY <1>0, CellsFacts, RowsFacts
      <3>2. RowParts(reviews)[i] = Rows(reviews[i]) /\ parts[i] = e(i)
          BY <1>3 DEF RowParts
      <3> QED BY <3>1, <3>2
    <2> HIDE DEF parts
    <2> QED BY <1>3, <2>1, <2>2, CountableLines, FlattenCounts
  <1> HIDE DEF parts, all
  <1>7. head \in LineType /\ head.kind = "breakdown"
    <2>1. "breakdown" \in Text
        BY DEF Text
    <2> QED BY <2>1, LineFacts
  <1> HIDE DEF head
  <1>8. <<head>> \in Seq(LineType) /\ ToSet(<<head>>) = {head}
      BY <1>7, OneElement DEF ToSet
  <1>9. <<head>> \o all \in Seq(LineType)
        /\ ToSet(<<head>> \o all) = ToSet(<<head>>) \cup ToSet(all)
    <2> DEFINE h == <<head>>
    <2>1. h \in Seq(LineType) /\ all \in Seq(LineType)
        BY <1>5, <1>8
    <2> HIDE DEF h
    <2>2. h \o all \in Seq(LineType) /\ ToSet(h \o all) = ToSet(h) \cup ToSet(all)
        BY <2>1, JoinFacts
    <2> QED BY <2>2 DEF h
  <1>10. <<>> \in Seq(LineType) /\ ToSet(<<>>) = {}
      BY DEF ToSet
  <1>11. CASE none
    <2>1. SeverityBreakdown(reviews) = <<>>
        BY <1>1, <1>11
    <2>2. FlattenSeq(RowParts(reviews)) = <<>>
      <3>1. \A x : x \notin ToSet(FlattenSeq(RowParts(reviews)))
        <4> SUFFICES ASSUME NEW x \in ToSet(FlattenSeq(RowParts(reviews))) PROVE FALSE
            OBVIOUS
        <4>1. PICK i \in DOMAIN reviews : \E f \in ToSet(reviews[i].findings) : TRUE
            BY RowOfFinding
        <4> QED BY <1>10, <1>11, <4>1
      <3>2. ToSet(FlattenSeq(RowParts(reviews))) = {}
          BY <3>1
      <3> QED BY <3>2, RowPartsFacts, SetOfEmpty
    <2>3. Keep(<<>>, K) = <<>> /\ CountSum(<<>>) = 0 /\ Len(<<>>) = 0
        BY KeepEmpty, SumEmpty
    <2> QED BY <1>10, <2>1, <2>2, <2>3
  <1>12. CASE ~none
    <2> DEFINE whole == <<head>> \o all
    <2>1. SeverityBreakdown(reviews) = whole
        BY <1>1, <1>12
    <2>2. whole \in Seq(LineType) /\ ToSet(whole) = {head} \cup ToSet(all)
        BY <1>8, <1>9
    <2>3. Keep(whole, K) = Keep(<<head>>, K) \o Keep(all, K)
        BY <1>5, <1>8, KeepConcat
    <2>4. Keep(<<head>>, K) = <<>>
      <3> DEFINE h == <<head>>
      <3>1. h \in Seq(LineType) /\ \A i \in DOMAIN h : h[i] \notin K
        <4>1. head \notin OfKind("count")
            BY <1>7 DEF OfKind
        <4>2. \A i \in DOMAIN h : h[i] = head
            OBVIOUS
        <4> QED BY <1>8, <4>1, <4>2
      <3> HIDE DEF h, K
      <3>2. Keep(h, K) = <<>>
          BY <3>1, KeepNone
      <3> QED BY <3>2 DEF h
    <2>5. Keep(all, K) = all
      <3>1. ASSUME NEW i \in DOMAIN all PROVE all[i] \in K
        <4>1. all[i] \in LineType
            BY <1>5
        <4>2. all[i] \in ToSet(all)
            BY DEF ToSet
        <4>3. all[i].kind = "count"
            BY <1>4, <1>5, <4>2
        <4> QED BY <4>1, <4>3 DEF OfKind
      <3> HIDE DEF K
      <3> QED BY <1>5, <3>1, KeepAll
    <2>6. Keep(whole, K) = all
        BY <1>5, <2>3, <2>4, <2>5, ConcatEmptySeq
    <2> HIDE DEF whole
    <2>7. \A l \in ToSet(whole) :
              \/ l.kind = "breakdown"
              \/ /\ l.kind = "count"
                 /\ \E i \in DOMAIN reviews : \E severity \in Severities : l = Cell(reviews[i], severity)
        BY <1>4, <1>5, <1>7, <2>2
    <2> QED BY <1>6, <2>1, <2>2, <2>6, <2>7
  <1> QED BY <1>11, <1>12

LEMMA SectionsFacts ==
  ASSUME NEW reviews \in Seq(ReviewType)
  PROVE  LET body == FlattenSeq([i \in DOMAIN reviews |-> Section(reviews[i])])
         IN /\ body \in Seq(LineType) /\ Runs(body)
            /\ \A l \in ToSet(body) :
                 \/ l.kind \in {"section", "summary", "finding"}
                 \/ l.kind = "### TL;DR"
                    /\ \E i \in DOMAIN reviews : "### TL;DR" \in ToSet(reviews[i].summary)
            /\ Len(Keep(body, OfKind("finding"))) = Len(FlattenSeq(RowParts(reviews)))
            /\ ToSet(body) \cap OfKind("finding")
                 = UNION {SectionFindings(reviews[i]) : i \in DOMAIN reviews}
  <1> DEFINE e(i) == Section(reviews[i])
             parts == [i \in DOMAIN reviews |-> e(i)]
             body == FlattenSeq(parts)
             K == OfKind("finding")
  <1>0. DOMAIN reviews = 1 .. Len(reviews) /\ Len(reviews) \in Nat
        /\ \A i \in DOMAIN reviews : reviews[i] \in ReviewType
      OBVIOUS
  <1>1. \A i \in DOMAIN reviews :
          /\ e(i) \in Seq(LineType)
          /\ Runs(e(i))
          /\ \A l \in ToSet(e(i)) :
              \/ l.kind \in {"section", "summary", "finding"}
              \/ l.kind = "### TL;DR" /\ "### TL;DR" \in ToSet(reviews[i].summary)
          /\ Len(Keep(e(i), K)) = Len(reviews[i].findings)
          /\ ToSet(e(i)) \cap K = SectionFindings(reviews[i])
      BY <1>0, SectionFacts
  <1> HIDE DEF e, K
  <1>2. parts \in Seq(Seq(LineType)) /\ Len(parts) = Len(reviews) /\ DOMAIN parts = DOMAIN reviews
        /\ \A i \in DOMAIN reviews : parts[i] = e(i)
    <2>1. \A i \in DOMAIN reviews : e(i) \in Seq(LineType)
        BY <1>1
    <2> QED BY <1>0, <2>1
  <1> HIDE DEF parts
  <1>3. body \in Seq(LineType) /\ ToSet(body) = AllOf(parts)
      BY <1>2, FlattenType, FlattenElements
  <1>4. Runs(body)
    <2>1. \A i \in DOMAIN parts : Runs(parts[i])
        BY <1>1, <1>2
    <2> QED BY <1>2, <2>1, RunsFlatten
  <1>5. ASSUME NEW l \in ToSet(body)
        PROVE  \E i \in DOMAIN reviews : l \in ToSet(e(i))
      BY <1>2, <1>3 DEF AllOf
  <1>6. ASSUME NEW l \in ToSet(body)
        PROVE  \/ l.kind \in {"section", "summary", "finding"}
               \/ l.kind = "### TL;DR"
                  /\ \E i \in DOMAIN reviews : "### TL;DR" \in ToSet(reviews[i].summary)
      BY <1>1, <1>5
  <1>7. Len(Keep(body, K)) = Len(FlattenSeq(RowParts(reviews)))
    <2>1. RowParts(reviews) \in Seq(Seq(RowFindingType)) /\ Len(parts) = Len(RowParts(reviews))
        BY <1>2, RowPartsFacts
    <2>2. \A i \in 1 .. Len(parts) : Len(Keep(parts[i], K)) = Len(RowParts(reviews)[i])
      <3> SUFFICES ASSUME NEW i \in DOMAIN reviews
                   PROVE  Len(Keep(parts[i], K)) = Len(RowParts(reviews)[i])
          BY <1>0, <1>2
      <3>1. Len(Rows(reviews[i])) = Len(reviews[i].findings)
          BY <1>0, RowsFacts
      <3>2. RowParts(reviews)[i] = Rows(reviews[i])
          BY DEF RowParts
      <3> QED BY <1>1, <1>2, <3>1, <3>2
    <2> DEFINE us == RowParts(reviews)
    <2>3. /\ us \in Seq(Seq(RowFindingType)) /\ parts \in Seq(Seq(LineType)) /\ Len(parts) = Len(us)
          /\ \A i \in 1 .. Len(parts) : Len(Keep(parts[i], K)) = Len(us[i])
        BY <1>2, <2>1, <2>2
    <2> HIDE DEF us
    <2>4. Len(Keep(FlattenSeq(parts), K)) = Len(FlattenSeq(us))
        BY <2>3, FlattenKeepLens, SMTT(60)
    <2> QED BY <2>4 DEF us
  <1>8. ToSet(body) \cap K = UNION {SectionFindings(reviews[i]) : i \in DOMAIN reviews}
    <2>1. ToSet(body) = UNION {ToSet(e(i)) : i \in DOMAIN reviews}
        BY <1>2, <1>3 DEF AllOf
    <2> HIDE DEF body
    <2>2. \A i \in DOMAIN reviews : ToSet(e(i)) \cap K = SectionFindings(reviews[i])
        BY <1>1
    <2> QED BY <2>1, <2>2
  <1> QED BY <1>3, <1>4, <1>6, <1>7, <1>8 DEF e, parts, K

-----------------------------------------------------------------------------
(* The report as a whole.                                                   *)

TopKinds == {"title", "no reviewers ran", "overall", "breakdown", "count", "callout", "critical"}

\* What stands in a line of the report of reviews.
LineOf(l, reviews) ==
  \/ l.kind \in {"title", "no reviewers ran", "breakdown", "callout", "section", "summary", "finding"}
  \/ l.kind = "overall" /\ l.severity = Label(HighestRank(reviews))
  \/ /\ l.kind = "count"
     /\ \E i \in DOMAIN reviews : \E severity \in Severities : l = Cell(reviews[i], severity)
  \/ l.kind = "critical" /\ Calls(l, reviews)
  \/ l.kind = "### TL;DR" /\ \E i \in DOMAIN reviews : "### TL;DR" \in ToSet(reviews[i].summary)

LEMMA HighestRankLabel ==
  ASSUME NEW reviews PROVE Label(HighestRank(reviews)) \in Text
  <1> DEFINE R == {Rank(reviews[i].severity) : i \in DOMAIN reviews}
  <1>1. R \subseteq 0 .. 3
      BY RankType
  <1>2. HighestRank(reviews) = Max({0} \cup R)
      BY DEF HighestRank
  <1> HIDE DEF R
  <1> QED BY <1>1, <1>2, HighestLabel, SeverityText

TitleLines(latest, reviews) ==
  IF reviews = <<>> THEN <<Line("title"), Line("no reviewers ran")>>
  ELSE <<Line("title"), [Line("overall") EXCEPT !.severity = Label(HighestRank(latest))]>>

LEMMA TwoElements == ASSUME NEW T, NEW d \in T, NEW e \in T PROVE <<d, e>> \in Seq(T) /\ ToSet(<<d, e>>) = {d, e}
  <1>1. <<d, e>> \in Seq(T)
      OBVIOUS
  <1>2. DOMAIN <<d, e>> = {1, 2} /\ <<d, e>>[1] = d /\ <<d, e>>[2] = e
      OBVIOUS
  <1>3. ToSet(<<d, e>>) = {d, e}
      BY <1>2 DEF ToSet
  <1> QED BY <1>1, <1>3

LEMMA TitleFacts ==
  ASSUME NEW latest, NEW reviews
  PROVE  /\ TitleLines(latest, reviews) \in Seq(LineType)
         /\ \A l \in ToSet(TitleLines(latest, reviews)) :
              \/ l.kind \in {"title", "no reviewers ran"}
              \/ l.kind = "overall" /\ l.severity = Label(HighestRank(latest))
  <1> DEFINE a == Line("title")
             b == Line("no reviewers ran")
             c == [Line("overall") EXCEPT !.severity = Label(HighestRank(latest))]
  <1>1. /\ a \in LineType /\ a.kind = "title" /\ b \in LineType /\ b.kind = "no reviewers ran"
        /\ Line("overall") \in LineType /\ Line("overall").kind = "overall"
    <2>1. "title" \in Text /\ "no reviewers ran" \in Text /\ "overall" \in Text
        BY DEF Text
    <2> QED BY <2>1, LineFacts
  <1>2. c \in LineType /\ c.kind = "overall" /\ c.severity = Label(HighestRank(latest))
    <2>1. Label(HighestRank(latest)) \in Text
        BY HighestRankLabel
    <2> DEFINE s == Label(HighestRank(latest))
    <2>2. s \in Text /\ c = [Line("overall") EXCEPT !.severity = s]
        BY <2>1
    <2> HIDE DEF s, c
    <2>3. c \in LineType /\ c.kind = "overall" /\ c.severity = s
        BY <1>1, <2>2 DEF LineType
    <2> QED BY <2>3 DEF s
  <1>3. TitleLines(latest, reviews) = IF reviews = <<>> THEN <<a, b>> ELSE <<a, c>>
      BY DEF TitleLines
  <1> HIDE DEF a, b, c
  <1>4. <<a, b>> \in Seq(LineType) /\ ToSet(<<a, b>>) = {a, b}
        /\ <<a, c>> \in Seq(LineType) /\ ToSet(<<a, c>>) = {a, c}
    <2>1. a \in LineType /\ b \in LineType /\ c \in LineType
        BY <1>1, <1>2
    <2>2. <<a, b>> \in Seq(LineType) /\ ToSet(<<a, b>>) = {a, b}
        BY <2>1, TwoElements
    <2>3. <<a, c>> \in Seq(LineType) /\ ToSet(<<a, c>>) = {a, c}
        BY <2>1, TwoElements
    <2> QED BY <2>2, <2>3
  <1>5. CASE reviews = <<>>
    <2>1. TitleLines(latest, reviews) = <<a, b>>
        BY <1>3, <1>5
    <2> QED BY <1>1, <1>4, <2>1
  <1>6. CASE reviews # <<>>
    <2>1. TitleLines(latest, reviews) = <<a, c>>
        BY <1>3, <1>6
    <2> QED BY <1>1, <1>2, <1>4, <2>1
  <1> QED BY <1>5, <1>6

SectionLines(reviews) == FlattenSeq([i \in DOMAIN reviews |-> Section(reviews[i])])

\* The report is three lists of lines and the sections.
LEMMA ReportParts ==
  ASSUME NEW reviews \in Seq(ReviewType)
  PROVE  LET latest == LatestByRole(reviews)
         IN RenderReview(reviews)
              = ((TitleLines(latest, reviews) \o SeverityBreakdown(latest))
                   \o CriticalCallout(latest)) \o SectionLines(latest)
  <1> DEFINE latest == LatestByRole(reviews)
             T == TitleLines(latest, reviews)
             B == SeverityBreakdown(latest)
             C == CriticalCallout(latest)
             S == SectionLines(latest)
  <1>1. CASE reviews # <<>>
      BY <1>1 DEF RenderReview, TitleLines, SectionLines
  <1>2. CASE reviews = <<>>
    <2>1. latest = <<>>
      <3>1. latest \in Seq(ReviewType) /\ ToSet(latest) \subseteq ToSet(reviews)
          BY LatestAreReviews
      <3>2. ToSet(reviews) = {}
          BY <1>2 DEF ToSet
      <3> HIDE DEF latest
      <3> QED BY <3>1, <3>2, SetOfEmpty
    <2>2. B = <<>>
        BY <2>1 DEF SeverityBreakdown
    <2>3. S = <<>>
      <3> HIDE DEF latest
      <3>1. [i \in DOMAIN latest |-> Section(latest[i])] = <<>>
        <4> DEFINE e(i) == Section(latest[i])
        <4> HIDE DEF e
        <4>1. [i \in DOMAIN latest |-> e(i)] = <<>>
            BY <2>1
        <4> QED BY <4>1 DEF e
      <3> QED BY <3>1, FlattenEmpty DEF SectionLines
    <2>4. C = <<>>
      <3> HIDE DEF latest
      <3>1. [i \in DOMAIN latest |-> Items(latest[i])] = <<>>
        <4> DEFINE e(i) == Items(latest[i])
        <4> HIDE DEF e
        <4>1. [i \in DOMAIN latest |-> e(i)] = <<>>
            BY <2>1
        <4> QED BY <4>1 DEF e
      <3>2. FlattenSeq([i \in DOMAIN latest |-> Items(latest[i])]) = <<>>
          BY <3>1, FlattenEmpty
      <3> QED BY <3>2 DEF CriticalCallout, Items
    <2>5. RenderReview(reviews) = T
        BY <1>2 DEF RenderReview, TitleLines
    <2>6. T \in Seq(LineType)
        BY TitleFacts
    <2> HIDE DEF T, B, C, S
    <2>7. ((T \o B) \o C) \o S = T
        BY <2>2, <2>3, <2>4, <2>6, ConcatEmptySeq
    <2> QED BY <2>5, <2>7 DEF T, B, C, S, latest
  <1> QED BY <1>1, <1>2

LEMMA KeepsNothing ==
  ASSUME NEW s \in Seq(LineType), NEW kind, \A l \in ToSet(s) : l.kind # kind
  PROVE  Keep(s, OfKind(kind)) = <<>>
  <1>1. \A i \in DOMAIN s : s[i] \notin OfKind(kind)
      BY DEF OfKind, ToSet
  <1> QED BY <1>1, KeepNone

LEMMA ReportFacts ==
  ASSUME NEW reviews \in Seq(ReviewType)
  PROVE  LET latest == LatestByRole(reviews)
             plain == RenderReview(reviews)
             rows == FlattenSeq(RowParts(latest))
         IN /\ plain \in Seq(LineType) /\ Runs(plain)
            /\ \A l \in ToSet(plain) : LineOf(l, latest)
            /\ \E top, body \in Seq(LineType) :
                 /\ plain = top \o body
                 /\ \A l \in ToSet(top) : l.kind \in TopKinds
                 /\ \A l \in ToSet(body) : l.kind \in SectionKinds \cup {"section"}
            /\ CountSum(Keep(plain, OfKind("count"))) = Len(rows)
            /\ Len(Keep(plain, OfKind("finding"))) = Len(rows)
            /\ ToSet(plain) \cap OfKind("finding")
                 = UNION {SectionFindings(latest[i]) : i \in DOMAIN latest}
  <1> DEFINE latest == LatestByRole(reviews)
             plain == RenderReview(reviews)
             rows == FlattenSeq(RowParts(latest))
             T == TitleLines(latest, reviews)
             B == SeverityBreakdown(latest)
             C == CriticalCallout(latest)
             S == SectionLines(latest)
             TB == T \o B
             top == TB \o C
             K(kind) == OfKind(kind)
  <1>0. latest \in Seq(ReviewType)
      BY LatestAreReviews
  <1>1. plain = top \o S
      BY ReportParts
  <1> HIDE DEF latest, plain, K
  <1>2. T \in Seq(LineType) /\ \A l \in ToSet(T) :
              \/ l.kind \in {"title", "no reviewers ran"}
              \/ l.kind = "overall" /\ l.severity = Label(HighestRank(latest))
      BY TitleFacts
  <1>3. /\ B \in Seq(LineType)
        /\ \A l \in ToSet(B) :
              \/ l.kind = "breakdown"
              \/ /\ l.kind = "count"
                 /\ \E i \in DOMAIN latest : \E severity \in Severities : l = Cell(latest[i], severity)
        /\ CountSum(Keep(B, K("count"))) = Len(rows)
      BY <1>0, BreakdownFacts DEF K
  <1>4. C \in Seq(LineType) /\ \A l \in ToSet(C) :
              \/ l.kind = "callout"
              \/ l.kind = "critical" /\ Calls(l, latest)
      BY <1>0, CalloutFacts
  <1>5. /\ S \in Seq(LineType) /\ Runs(S)
        /\ \A l \in ToSet(S) :
              \/ l.kind \in {"section", "summary", "finding"}
              \/ l.kind = "### TL;DR"
                 /\ \E i \in DOMAIN latest : "### TL;DR" \in ToSet(latest[i].summary)
        /\ Len(Keep(S, K("finding"))) = Len(rows)
        /\ ToSet(S) \cap K("finding") = UNION {SectionFindings(latest[i]) : i \in DOMAIN latest}
      BY <1>0, SectionsFacts DEF SectionLines, K
  <1> HIDE DEF T, B, C, S, rows
  <1>6. T \in Seq(LineType) /\ B \in Seq(LineType) /\ C \in Seq(LineType) /\ S \in Seq(LineType)
      BY <1>2, <1>3, <1>4, <1>5
  <1>7. TB \in Seq(LineType) /\ ToSet(TB) = ToSet(T) \cup ToSet(B)
      BY <1>6, JoinFacts
  <1> HIDE DEF TB
  <1>8. top \in Seq(LineType) /\ ToSet(top) = ToSet(TB) \cup ToSet(C)
      BY <1>6, <1>7, JoinFacts
  <1>9. \A l \in ToSet(top) : l.kind \in TopKinds /\ LineOf(l, latest)
      BY <1>2, <1>3, <1>4, <1>7, <1>8 DEF TopKinds, LineOf
  <1>10. \A l \in ToSet(S) : l.kind \in SectionKinds \cup {"section"} /\ LineOf(l, latest)
      BY <1>5 DEF SectionKinds, LineOf
  <1>11. plain \in Seq(LineType) /\ ToSet(plain) = ToSet(top) \cup ToSet(S)
    <2> HIDE DEF top
    <2> QED BY <1>1, <1>6, <1>8, JoinFacts
  <1>12. Runs(plain)
    <2>1. Runs(top)
      <3>1. \A k \in DOMAIN top : top[k].kind \notin SectionKinds
        <4>1. \A k \in DOMAIN top : top[k] \in ToSet(top)
            BY DEF ToSet
        <4>2. TopKinds \cap SectionKinds = {}
            BY DEF TopKinds, SectionKinds
        <4> QED BY <1>9, <4>1, <4>2
      <3> HIDE DEF top
      <3> QED BY <3>1 DEF Runs
    <2>2. Runs(S)
        BY <1>5
    <2> HIDE DEF top
    <2>3. Runs(top \o S)
        BY <1>6, <1>8, <2>1, <2>2, RunsJoin
    <2> QED BY <1>1, <2>3
  <1>13. \E u, v \in Seq(LineType) :
           /\ plain = u \o v
           /\ \A l \in ToSet(u) : l.kind \in TopKinds
           /\ \A l \in ToSet(v) : l.kind \in SectionKinds \cup {"section"}
    <2> HIDE DEF top
    <2> QED BY <1>1, <1>6, <1>8, <1>9, <1>10
  <1>14. Keep(plain, K("count")) = Keep(B, K("count"))
    <2>1. Keep(T, K("count")) = <<>>
      <3>1. \A l \in ToSet(T) : l.kind # "count"
          BY <1>2
      <3> QED BY <1>6, <3>1, KeepsNothing DEF K
    <2>2. Keep(C, K("count")) = <<>>
      <3>1. \A l \in ToSet(C) : l.kind # "count"
          BY <1>4
      <3> QED BY <1>6, <3>1, KeepsNothing DEF K
    <2>3. Keep(S, K("count")) = <<>>
      <3>1. \A l \in ToSet(S) : l.kind # "count"
          BY <1>5
      <3> QED BY <1>6, <3>1, KeepsNothing DEF K
    <2>4. Keep(B, K("count")) \in Seq(LineType)
        BY <1>6, KeepType
    <2>5. Keep(TB, K("count")) = Keep(B, K("count"))
      <3>1. Keep(TB, K("count")) = Keep(T, K("count")) \o Keep(B, K("count"))
          BY <1>6, KeepConcat DEF TB
      <3> QED BY <2>1, <2>4, <3>1, ConcatEmptySeq
    <2>6. Keep(top, K("count")) = Keep(B, K("count"))
      <3>1. Keep(top, K("count")) = Keep(TB, K("count")) \o Keep(C, K("count"))
          BY <1>6, <1>7, KeepConcat
      <3> QED BY <2>2, <2>4, <2>5, <3>1, ConcatEmptySeq
    <2> HIDE DEF top
    <2>7. Keep(plain, K("count")) = Keep(top, K("count")) \o Keep(S, K("count"))
        BY <1>1, <1>6, <1>8, KeepConcat
    <2> QED BY <2>3, <2>4, <2>6, <2>7, ConcatEmptySeq
  <1>15. Keep(plain, K("finding")) = Keep(S, K("finding"))
    <2>1. Keep(top, K("finding")) = <<>>
      <3>1. \A l \in ToSet(top) : l.kind # "finding"
        <4>1. "finding" \notin TopKinds
            BY DEF TopKinds
        <4> QED BY <1>9, <4>1
      <3> HIDE DEF top
      <3> QED BY <1>8, <3>1, KeepsNothing DEF K
    <2>2. Keep(S, K("finding")) \in Seq(LineType)
        BY <1>6, KeepType
    <2> HIDE DEF top
    <2>3. Keep(plain, K("finding")) = Keep(top, K("finding")) \o Keep(S, K("finding"))
        BY <1>1, <1>6, <1>8, KeepConcat
    <2> QED BY <2>1, <2>2, <2>3, ConcatEmptySeq
  <1>16. ToSet(plain) \cap K("finding") = ToSet(S) \cap K("finding")
    <2>1. \A l \in K("finding") : l.kind = "finding"
        BY DEF K, OfKind
    <2>2. \A l \in ToSet(top) : l.kind # "finding"
      <3>1. "finding" \notin TopKinds
          BY DEF TopKinds
      <3> QED BY <1>9, <3>1
    <2> HIDE DEF top
    <2> QED BY <1>11, <2>1, <2>2
  <1>17. \A l \in ToSet(plain) : LineOf(l, latest)
      BY <1>9, <1>10, <1>11
  <1>18. /\ CountSum(Keep(plain, K("count"))) = Len(rows)
         /\ Len(Keep(plain, K("finding"))) = Len(rows)
         /\ ToSet(plain) \cap K("finding") = UNION {SectionFindings(latest[i]) : i \in DOMAIN latest}
      BY <1>3, <1>5, <1>14, <1>15, <1>16
  <1> HIDE DEF top
  <1> QED BY <1>11, <1>12, <1>13, <1>17, <1>18 DEF latest, plain, rows, K

-----------------------------------------------------------------------------
(* The TL;DR.                                                               *)

LEMMA SubSeqFacts ==
  ASSUME NEW T, NEW s \in Seq(T), NEW a \in Nat, NEW b \in Nat, 1 <= a, b <= Len(s)
  PROVE  /\ SubSeq(s, a, b) \in Seq(T)
         /\ ToSet(SubSeq(s, a, b)) = {s[i] : i \in a .. b}
  <1> DEFINE u == SubSeq(s, a, b)
             n == Len(s)
  <1>1. n \in Nat /\ \A i \in a .. b : i \in 1 .. n /\ s[i] \in T
      OBVIOUS
  <1>2. \A i \in a .. b : s[i] \in T
      BY <1>1
  <1>3. /\ u \in Seq(T) /\ Len(u) = (IF a <= b THEN b - a + 1 ELSE 0)
        /\ \A i \in 1 .. b - a + 1 : u[i] = s[a + i - 1]
      BY <1>2, SubSeqProperties
  <1> HIDE DEF u, n
  <1>4. DOMAIN u = 1 .. Len(u)
      BY <1>3
  <1>5. DOMAIN u = 1 .. b - a + 1
    <2>1. CASE a <= b
        BY <1>3, <1>4, <2>1
    <2>2. CASE ~(a <= b)
      <3>1. DOMAIN u = 1 .. 0
          BY <1>3, <1>4, <2>2
      <3>2. 1 .. 0 = 1 .. b - a + 1
          BY <2>2
      <3> QED BY <3>1, <3>2
    <2> QED BY <2>1, <2>2
  <1>6. ToSet(u) \subseteq {s[i] : i \in a .. b}
    <2> SUFFICES ASSUME NEW i \in 1 .. b - a + 1 PROVE u[i] \in {s[k] : k \in a .. b}
        BY <1>5 DEF ToSet
    <2>1. a + i - 1 \in a .. b
        OBVIOUS
    <2> QED BY <1>3, <2>1
  <1>7. {s[i] : i \in a .. b} \subseteq ToSet(u)
    <2> SUFFICES ASSUME NEW i \in a .. b PROVE s[i] \in ToSet(u)
        OBVIOUS
    <2> DEFINE j == i - a + 1
    <2>1. j \in 1 .. b - a + 1 /\ a + j - 1 = i
        OBVIOUS
    <2> HIDE DEF j
    <2>2. u[j] = s[i]
        BY <1>3, <2>1
    <2> QED BY <1>5, <2>1, <2>2 DEF ToSet
  <1> QED BY <1>3, <1>6, <1>7 DEF u

LEMMA TwoParts ==
  ASSUME NEW T, NEW s \in Seq(T), NEW k \in 0 .. Len(s)
  PROVE  s = SubSeq(s, 1, k) \o SubSeq(s, k + 1, Len(s))
  <1>1. /\ 1 \in 1 .. Len(s) + 1 /\ k \in 1 - 1 .. Len(s) /\ Len(s) \in k .. Len(s)
      OBVIOUS
  <1>2. SubSeq(s, 1, k) \o SubSeq(s, k + 1, Len(s)) = SubSeq(s, 1, Len(s))
      BY <1>1, ConcatAdjacentSubSeq
  <1> QED BY <1>2, SubSeqFull

LEMMA ThreeParts ==
  ASSUME NEW T, NEW s \in Seq(T), NEW a \in 1 .. Len(s) + 1, NEW b \in a .. Len(s) + 1
  PROVE  s = (SubSeq(s, 1, a - 1) \o SubSeq(s, a, b - 1)) \o SubSeq(s, b, Len(s))
  <1> DEFINE n == Len(s)
  <1>0. n \in Nat
      OBVIOUS
  <1>1. /\ 1 \in 1 .. n + 1 /\ a - 1 \in 1 - 1 .. n /\ b - 1 \in a - 1 .. n /\ a - 1 + 1 = a
        /\ b - 1 \in 0 .. n /\ b - 1 + 1 = b
      BY <1>0
  <1>2. SubSeq(s, 1, a - 1) \o SubSeq(s, a - 1 + 1, b - 1) = SubSeq(s, 1, b - 1)
    <2> HIDE DEF n
    <2>1. \A k \in 1 - 1 .. n : \A m \in k .. n :
            SubSeq(s, 1, k) \o SubSeq(s, k + 1, m) = SubSeq(s, 1, m)
        BY <1>1, ConcatAdjacentSubSeq DEF n
    <2> QED BY <1>1, <2>1
  <1>3. \A k \in 0 .. n : s = SubSeq(s, 1, k) \o SubSeq(s, k + 1, n)
      BY TwoParts
  <1>4. s = SubSeq(s, 1, b - 1) \o SubSeq(s, b, n)
    <2>1. s = SubSeq(s, 1, b - 1) \o SubSeq(s, b - 1 + 1, n)
        BY <1>1, <1>3
    <2> QED BY <1>1, <2>1
  <1> QED BY <1>1, <1>2, <1>4

\* The place of the first heading of a TL;DR; 0 if there is none.
OwnHeading(body) == SelectInSeq(body, LAMBDA l : l.kind = "### TL;DR")

LEMMA LeastPlace ==
  ASSUME NEW n \in Nat, NEW I, I \subseteq 1 .. n, I # {}
  PROVE  Min(I) \in I /\ Min(I) \in 1 .. n /\ Min(I) # 0 /\ \A i \in I : Min(I) <= i
  <1>1. I \subseteq Nat
      OBVIOUS
  <1>2. Min(I) \in I /\ \A i \in I : Min(I) <= i
      BY <1>1, LeastOf
  <1>3. Min(I) \in 1 .. n
      BY <1>2
  <1> HIDE DEF Min
  <1>4. Min(I) # 0
      BY <1>3
  <1> QED BY <1>2, <1>3, <1>4

LEMMA OwnHeadingFacts ==
  ASSUME NEW body \in Seq(LineType)
  PROVE  /\ OwnHeading(body) = 0 =>
              \A k \in DOMAIN body : body[k].kind # "### TL;DR"
         /\ OwnHeading(body) # 0 =>
              OwnHeading(body) \in DOMAIN body /\ body[OwnHeading(body)].kind = "### TL;DR"
         /\ OwnHeading(body) \in Nat
  <1> DEFINE n == Len(body)
             I == {i \in 1 .. n : body[i].kind = "### TL;DR"}
             own == OwnHeading(body)
  <1>1. own = IF I # {} THEN Min(I) ELSE 0
      BY DEF OwnHeading, SelectInSeq
  <1>2. DOMAIN body = 1 .. n /\ n \in Nat
      BY LenProperties
  <1>3. I \subseteq 1 .. n
      OBVIOUS
  <1>4. (\A i \in I : body[i].kind = "### TL;DR")
        /\ \A i \in 1 .. n : body[i].kind = "### TL;DR" => i \in I
      OBVIOUS
  <1> HIDE DEF I, own, n
  <1>5. CASE I = {}
    <2>1. own = 0
        BY <1>1, <1>5
    <2>2. \A k \in DOMAIN body : body[k].kind # "### TL;DR"
        BY <1>2, <1>4, <1>5
    <2>3. own \in Nat
        BY <2>1
    <2> QED BY <2>1, <2>2, <2>3 DEF own
  <1>6. CASE I # {}
    <2>1. own \in I /\ own \in 1 .. n /\ own # 0
        BY <1>1, <1>2, <1>3, <1>6, LeastPlace
    <2>2. own \in Nat
        BY <1>2, <2>1
    <2> QED BY <1>2, <1>4, <2>1, <2>2 DEF own
  <1> QED BY <1>5, <1>6

IsTldrHeading(l) == l.kind = "### TL;DR"

LEMMA OwnHeadingPlace ==
  ASSUME NEW body \in Seq(LineType), OwnHeading(body) # 0
  PROVE  OwnHeading(body) \in DOMAIN body /\ IsTldrHeading(body[OwnHeading(body)])
  BY OwnHeadingFacts DEF IsTldrHeading

LEMMA HeadingKinds ==
  ASSUME NEW l, IsTldrHeading(l)
  PROVE  l.kind \in SectionKinds /\ l.kind \notin TopKinds
  BY DEF IsTldrHeading, SectionKinds, TopKinds

\* The place of the next heading after a; 0 if there is none.
NextHeading(body, a) == SelectInSubSeq(body, a + 1, Len(body), LAMBDA l : l.kind \in Headings)

LEMMA NextHeadingFacts ==
  ASSUME NEW body \in Seq(LineType), NEW a \in DOMAIN body
  PROVE  LET next == NextHeading(body, a)
             e == IF next = 0 THEN Len(body) + 1 ELSE next
         IN /\ e \in a + 1 .. Len(body) + 1
            /\ \A k \in a + 1 .. e - 1 : body[k].kind \notin Headings
  <1> DEFINE next == NextHeading(body, a)
             n == Len(body)
             e == IF next = 0 THEN n + 1 ELSE next
             I == {i \in a + 1 .. n : body[i].kind \in Headings}
  <1>1. next = IF I # {} THEN Min(I) ELSE 0
      BY DEF NextHeading, SelectInSubSeq
  <1>2. n \in Nat /\ a \in 1 .. n
      OBVIOUS
  <1>3. I \subseteq Nat
      BY <1>2
  <1> HIDE DEF next, n
  <1>4. CASE I = {}
    <2>1. e = n + 1
        BY <1>1, <1>4
    <2> HIDE DEF e
    <2>2. e \in a + 1 .. n + 1 /\ e - 1 = n
        BY <1>2, <2>1
    <2>3. \A k \in a + 1 .. n : body[k].kind \notin Headings
        BY <1>4
    <2>4. \A k \in a + 1 .. e - 1 : body[k].kind \notin Headings
        BY <2>2, <2>3
    <2> QED BY <2>2, <2>4 DEF next, n, e
  <1>5. CASE I # {}
    <2>1. Min(I) \in I /\ \A i \in I : Min(I) <= i
      <3> HIDE DEF I
      <3> QED BY <1>3, <1>5, LeastOf
    <2>2. next = Min(I) /\ next \in a + 1 .. n
        BY <1>1, <1>5, <2>1
    <2>3. e = next
        BY <1>2, <2>2
    <2>4. \A k \in a + 1 .. e - 1 : body[k].kind \notin Headings
      <3> SUFFICES ASSUME NEW k \in a + 1 .. e - 1, body[k].kind \in Headings PROVE FALSE
          OBVIOUS
      <3>1. k \in a + 1 .. n /\ k < next
          BY <1>2, <2>2, <2>3
      <3>2. k \in I
          BY <3>1
      <3>3. next <= k
          BY <2>1, <2>2, <3>2
      <3> QED BY <1>2, <2>2, <3>1, <3>3
    <2>5. e \in a + 1 .. n + 1
        BY <1>2, <2>2, <2>3
    <2> QED BY <2>4, <2>5 DEF next, n
  <1> QED BY <1>4, <1>5

\* What is cut from the report and where the TL;DR goes.
Spliced(plain, final, y1, y2, y3, x1, x2) ==
  /\ plain = (y1 \o y2) \o y3
  /\ y1 \o y3 = x1 \o x2
  /\ final = (x1 \o TldrBlock) \o x2
  /\ OwnHeading(plain) = 0 => y2 = <<>>
  /\ \A l \in ToSet(y2) : l.kind \in SectionKinds
  /\ \A k \in DOMAIN plain :
       \/ plain[k] \in ToSet(y1) \cup ToSet(y3)
       \/ /\ OwnHeading(plain) > 0 /\ k >= OwnHeading(plain)
          /\ plain[k].role = plain[OwnHeading(plain)].role

LEMMA InsertFacts ==
  ASSUME NEW kept \in Seq(LineType)
  PROVE  LET place == SelectInSeq(kept, LAMBDA l : l.kind = "overall")
         IN place \in 0 .. Len(kept)
  <1> DEFINE n == Len(kept)
             place == SelectInSeq(kept, LAMBDA l : l.kind = "overall")
             I == {i \in 1 .. n : kept[i].kind = "overall"}
  <1>1. place = IF I # {} THEN Min(I) ELSE 0
      BY DEF SelectInSeq
  <1>2. n \in Nat
      BY LenProperties
  <1>3. I \subseteq 1 .. n
      OBVIOUS
  <1> HIDE DEF I, n
  <1>4. I # {} => Min(I) \in 1 .. n
      BY <1>2, <1>3, LeastPlace
  <1>5. 0 \in 0 .. n /\ 1 .. n \subseteq 0 .. n
      BY <1>2
  <1>6. place \in 0 .. n
    <2> HIDE DEF place
    <2> QED BY <1>1, <1>4, <1>5
  <1> QED BY <1>6 DEF n

\* A heading of a TL;DR is in a section, and so is what follows it.
LEMMA OwnIsInSection ==
  ASSUME NEW top \in Seq(LineType), NEW body \in Seq(LineType), NEW plain,
         plain = top \o body,
         \A l \in ToSet(top) : l.kind \in TopKinds,
         \A l \in ToSet(body) : l.kind \in SectionKinds \cup {"section"},
         NEW n \in Nat, n = Len(plain), NEW own \in 1 .. n,
         IsTldrHeading(plain[own]),
         NEW k \in own .. n
  PROVE  plain[k].kind \in SectionKinds \cup {"section"}
  <1>1. PICK t \in Nat, b \in Nat : t = Len(top) /\ b = Len(body)
      BY LenProperties
  <1>2. /\ n = t + b
        /\ \A i \in 1 .. t + b : /\ i <= t => plain[i] = top[i]
                                 /\ ~(i <= t) => plain[i] = body[i - t]
        /\ DOMAIN top = 1 .. t /\ DOMAIN body = 1 .. b
    <2>1. Len(top \o body) = Len(top) + Len(body)
          /\ \A i \in 1 .. Len(top) + Len(body) :
               (top \o body)[i] = IF i <= Len(top) THEN top[i] ELSE body[i - Len(top)]
        BY ConcatProperties
    <2>2. \A i \in 1 .. t + b : /\ i <= t => plain[i] = top[i]
                                /\ ~(i <= t) => plain[i] = body[i - t]
        BY <1>1, <2>1
    <2> QED BY <1>1, <2>1, <2>2, LenProperties
  <1>3. \A i \in 1 .. t : top[i].kind \in TopKinds
      BY <1>2 DEF ToSet
  <1>4. \A i \in 1 .. b : body[i].kind \in SectionKinds \cup {"section"}
      BY <1>2 DEF ToSet
  <1>5. ~(own <= t)
    <2> SUFFICES ASSUME own <= t PROVE FALSE
        OBVIOUS
    <2>1. own \in 1 .. t /\ own \in 1 .. t + b
        BY <1>2
    <2>2. plain[own] = top[own]
        BY <1>2, <2>1
    <2>3. plain[own].kind \in TopKinds
        BY <1>3, <2>1, <2>2
    <2> QED BY <2>3, HeadingKinds
  <1>6. k \in 1 .. t + b /\ ~(k <= t) /\ k - t \in 1 .. b
      BY <1>2, <1>5
  <1>7. plain[k] = body[k - t]
      BY <1>2, <1>6
  <1> QED BY <1>4, <1>6, <1>7

\* A heading of a TL;DR at own, and the section up to e.
IsCutAt(plain, n, own, e) ==
  /\ n \in Nat /\ n = Len(plain)
  /\ own \in 1 .. n /\ e \in own + 1 .. n + 1
  /\ IsTldrHeading(plain[own])
  /\ \A k \in own .. n : plain[k].kind \in SectionKinds \cup {"section"}
  /\ \A k \in own + 1 .. e - 1 : plain[k].kind \notin Headings

CutInto(plain, n, own, e, y1, y2, y3) ==
  /\ y1 = SubSeq(plain, 1, own - 1) /\ y2 = SubSeq(plain, own, e - 1) /\ y3 = SubSeq(plain, e, n)
  /\ plain = (y1 \o y2) \o y3
  /\ \A l \in ToSet(y2) : l.kind \in SectionKinds
  /\ \A k \in 1 .. n :
       \/ plain[k] \in ToSet(y1) \cup ToSet(y3)
       \/ k >= own /\ plain[k].role = plain[own].role

LEMMA CutFacts ==
  ASSUME NEW plain \in Seq(LineType), Runs(plain), NEW n, NEW own, NEW e,
         IsCutAt(plain, n, own, e)
  PROVE  \E y1, y2, y3 \in Seq(LineType) : CutInto(plain, n, own, e, y1, y2, y3)
  <1> USE DEF IsCutAt
  <1> DEFINE y1 == SubSeq(plain, 1, own - 1)
             y2 == SubSeq(plain, own, e - 1)
             y3 == SubSeq(plain, e, n)
  <1>1. DOMAIN plain = 1 .. n
      BY LenProperties
  <1>2. plain = (y1 \o y2) \o y3
    <2>1. own \in 1 .. n + 1 /\ e \in own .. n + 1
        OBVIOUS
    <2>2. own \in 1 .. Len(plain) + 1 /\ e \in own .. Len(plain) + 1
        BY <2>1
    <2>3. plain = (y1 \o y2) \o SubSeq(plain, e, Len(plain))
        BY <2>2, ThreeParts
    <2> QED BY <2>3
  <1>3. /\ y1 \in Seq(LineType) /\ ToSet(y1) = {plain[i] : i \in 1 .. own - 1}
        /\ y2 \in Seq(LineType) /\ ToSet(y2) = {plain[i] : i \in own .. e - 1}
        /\ y3 \in Seq(LineType) /\ ToSet(y3) = {plain[i] : i \in e .. n}
    <2>1. /\ own - 1 \in Nat /\ own - 1 <= n /\ 1 \in Nat /\ 1 <= 1 /\ own \in Nat /\ 1 <= own
          /\ e - 1 \in Nat /\ e - 1 <= n /\ e \in Nat /\ 1 <= e /\ n <= n
        OBVIOUS
    <2>2. y1 \in Seq(LineType) /\ ToSet(y1) = {plain[i] : i \in 1 .. own - 1}
        BY <2>1, SubSeqFacts
    <2>3. y2 \in Seq(LineType) /\ ToSet(y2) = {plain[i] : i \in own .. e - 1}
        BY <2>1, SubSeqFacts
    <2>4. y3 \in Seq(LineType) /\ ToSet(y3) = {plain[i] : i \in e .. n}
        BY <2>1, SubSeqFacts
    <2> QED BY <2>2, <2>3, <2>4
  <1> HIDE DEF y1, y2, y3
  <1>4. ASSUME NEW k \in own .. e - 1 PROVE plain[k].kind \in SectionKinds
    <2>1. plain[k].kind \in SectionKinds \cup {"section"}
      <3>1. k \in own .. n
          OBVIOUS
      <3> QED BY <3>1
    <2>2. CASE k = own
        BY <2>2, HeadingKinds
    <2>3. CASE k # own
      <3>1. k \in own + 1 .. e - 1
          BY <2>3
      <3>2. plain[k].kind # "section"
          BY <3>1 DEF Headings
      <3> QED BY <2>1, <3>2
    <2> QED BY <2>2, <2>3
  <1> DEFINE Q == {d \in Nat : own + d \in own .. e - 1 => plain[own + d].role = plain[own].role}
  <1>5. 0 \in Q
    <2>1. own + 0 = own
        OBVIOUS
    <2> QED BY <2>1
  <1>6. ASSUME NEW d \in Nat, d \in Q PROVE d + 1 \in Q
    <2> SUFFICES ASSUME own + (d + 1) \in own .. e - 1
                 PROVE  plain[own + (d + 1)].role = plain[own].role
        OBVIOUS
    <2>0. PICK k \in Nat : k = own + (d + 1)
        OBVIOUS
    <2>1. /\ k \in own .. e - 1 /\ k - 1 = own + d /\ k - 1 \in own .. e - 1 /\ k \in 1 .. n
          /\ k # 1 /\ own + d \in own .. e - 1 /\ k > 1
        BY <2>0
    <2>2. plain[k].role = plain[k - 1].role
        BY <1>1, <1>4, <2>1 DEF Runs
    <2>3. plain[own + d].role = plain[own].role
        BY <1>6, <2>1
    <2> QED BY <2>0, <2>1, <2>2, <2>3
  <1>7. Nat \subseteq Q
    <2> HIDE DEF Q
    <2> QED BY <1>5, <1>6, NumberInduction
  <1>8. ASSUME NEW k \in own .. e - 1 PROVE plain[k].role = plain[own].role
    <2>1. PICK d \in Nat : own + d = k
      <3>1. k - own \in Nat /\ own + (k - own) = k
          OBVIOUS
      <3> QED BY <3>1
    <2>2. d \in Q
        BY <1>7
    <2> QED BY <2>1, <2>2
  <1>9. ASSUME NEW k \in 1 .. n
        PROVE  \/ plain[k] \in ToSet(y1) \cup ToSet(y3)
               \/ k >= own /\ plain[k].role = plain[own].role
    <2>1. k \in 1 .. own - 1 \/ k \in own .. e - 1 \/ k \in e .. n
        OBVIOUS
    <2>2. CASE k \in own .. e - 1
      <3>1. k >= own
          BY <2>2
      <3> QED BY <1>8, <2>2, <3>1
    <2>3. CASE k \in 1 .. own - 1
        BY <1>3, <2>3
    <2>4. CASE k \in e .. n
        BY <1>3, <2>4
    <2> QED BY <2>1, <2>2, <2>3, <2>4
  <1>10. \A l \in ToSet(y2) : l.kind \in SectionKinds
      BY <1>3, <1>4
  <1>11. CutInto(plain, n, own, e, y1, y2, y3)
      BY <1>2, <1>9, <1>10 DEF y1, y2, y3, CutInto
  <1> QED BY <1>3, <1>11

\* The cut of the report.
Cut(plain, y1, y2, y3) ==
  /\ plain = (y1 \o y2) \o y3
  /\ StripExistingTldr(plain) = y1 \o y3
  /\ OwnHeading(plain) = 0 => y2 = <<>>
  /\ \A l \in ToSet(y2) : l.kind \in SectionKinds
  /\ \A k \in DOMAIN plain :
       \/ plain[k] \in ToSet(y1) \cup ToSet(y3)
       \/ /\ OwnHeading(plain) > 0 /\ k >= OwnHeading(plain)
          /\ plain[k].role = plain[OwnHeading(plain)].role

LEMMA StripNothing ==
  ASSUME NEW plain, OwnHeading(plain) = 0
  PROVE  StripExistingTldr(plain) = plain
  <1>1. ~(OwnHeading(plain) > 0)
      OBVIOUS
  <1> QED BY <1>1 DEF StripExistingTldr, OwnHeading

LEMMA StripToEnd ==
  ASSUME NEW plain, OwnHeading(plain) > 0, OwnHeading(plain) # 0,
         NextHeading(plain, OwnHeading(plain)) = 0
  PROVE  StripExistingTldr(plain) = SubSeq(plain, 1, OwnHeading(plain) - 1)
  <1>1. ~(NextHeading(plain, OwnHeading(plain)) > 0)
      OBVIOUS
  <1> QED BY <1>1 DEF StripExistingTldr, OwnHeading, NextHeading

LEMMA StripToNext ==
  ASSUME NEW plain, OwnHeading(plain) > 0, OwnHeading(plain) # 0,
         NextHeading(plain, OwnHeading(plain)) > 0, NextHeading(plain, OwnHeading(plain)) # 0
  PROVE  StripExistingTldr(plain)
           = SubSeq(plain, 1, OwnHeading(plain) - 1)
               \o SubSeq(plain, NextHeading(plain, OwnHeading(plain)), Len(plain))
  BY DEF StripExistingTldr, OwnHeading, NextHeading

LEMMA NothingIsCut ==
  ASSUME NEW plain \in Seq(LineType), OwnHeading(plain) = 0
  PROVE  Cut(plain, plain, <<>>, <<>>)
  <1>1. StripExistingTldr(plain) = plain
      BY StripNothing
  <1>2. plain \o <<>> = plain
      BY ConcatEmptySeq
  <1>3. \A k \in DOMAIN plain : plain[k] \in ToSet(plain)
      BY DEF ToSet
  <1>4. ToSet(<<>>) = {}
      BY DEF ToSet
  <1> QED BY <1>1, <1>2, <1>3, <1>4 DEF Cut

LEMMA SectionIsCut ==
  ASSUME NEW plain \in Seq(LineType), Runs(plain), OwnHeading(plain) # 0,
         \A k \in OwnHeading(plain) .. Len(plain) : plain[k].kind \in SectionKinds \cup {"section"}
  PROVE  \E y1, y2, y3 \in Seq(LineType) : Cut(plain, y1, y2, y3)
  <1>1. PICK n \in Nat : n = Len(plain)
      BY LenProperties
  <1>2. DOMAIN plain = 1 .. n
      BY <1>1, LenProperties
  <1>3. PICK own \in 1 .. n : own = OwnHeading(plain)
      BY <1>2, OwnHeadingPlace
  <1>4. IsTldrHeading(plain[own])
      BY <1>3, OwnHeadingPlace
  <1>5. PICK next : next = NextHeading(plain, own)
      OBVIOUS
  <1>6. PICK e : e = IF next = 0 THEN n + 1 ELSE next
      OBVIOUS
  <1>7. e \in own + 1 .. n + 1 /\ \A k \in own + 1 .. e - 1 : plain[k].kind \notin Headings
    <2>1. own \in DOMAIN plain
        BY <1>2
    <2>2. LET nx == NextHeading(plain, own)
              f == IF nx = 0 THEN Len(plain) + 1 ELSE nx
          IN /\ f \in own + 1 .. Len(plain) + 1
             /\ \A k \in own + 1 .. f - 1 : plain[k].kind \notin Headings
        BY <2>1, NextHeadingFacts
    <2> QED BY <1>1, <1>5, <1>6, <2>2
  <1>8. \A k \in own .. n : plain[k].kind \in SectionKinds \cup {"section"}
      BY <1>1, <1>3
  <1>9. PICK y1 \in Seq(LineType), y2 \in Seq(LineType), y3 \in Seq(LineType) :
          CutInto(plain, n, own, e, y1, y2, y3)
    <2>1. IsCutAt(plain, n, own, e)
        BY <1>1, <1>4, <1>7, <1>8 DEF IsCutAt
    <2> QED BY <2>1, CutFacts
  <1>10. StripExistingTldr(plain) = y1 \o y3
    <2>0. own > 0 /\ own # 0
        OBVIOUS
    <2>1. CASE next = 0
      <3>1. e = n + 1
          BY <1>6, <2>1
      <3>2. y3 = <<>>
        <4>1. n + 1 \in Int /\ n \in Int /\ n < n + 1
            OBVIOUS
        <4> QED BY <1>9, <3>1, <4>1, SubSeqEmpty DEF CutInto
      <3>3. StripExistingTldr(plain) = y1
          BY <1>3, <1>5, <1>9, <2>0, <2>1, StripToEnd DEF CutInto
      <3>4. y1 \o y3 = y1
          BY <1>9, <3>2, ConcatEmptySeq
      <3> QED BY <3>3, <3>4
    <2>2. CASE next # 0
      <3>1. e = next
          BY <1>6, <2>2
      <3>2. next > 0
          BY <1>7, <3>1
      <3>3. StripExistingTldr(plain)
              = SubSeq(plain, 1, own - 1) \o SubSeq(plain, next, Len(plain))
          BY <1>3, <1>5, <2>0, <2>2, <3>2, StripToNext
      <3>4. y3 = SubSeq(plain, next, Len(plain))
          BY <1>1, <1>9, <3>1 DEF CutInto
      <3>5. y1 = SubSeq(plain, 1, own - 1)
          BY <1>9 DEF CutInto
      <3> QED BY <3>3, <3>4, <3>5
    <2> QED BY <2>1, <2>2
  <1>11. OwnHeading(plain) > 0
      BY <1>3
  <1>12. Cut(plain, y1, y2, y3)
      BY <1>2, <1>3, <1>9, <1>10, <1>11 DEF Cut, CutInto
  <1> QED BY <1>9, <1>12

LEMMA SpliceFacts ==
  ASSUME NEW reviews \in Seq(ReviewType)
  PROVE  \E y1, y2, y3, x1, x2 \in Seq(LineType) :
           Spliced(RenderReview(reviews), SpliceTldr(RenderReview(reviews)), y1, y2, y3, x1, x2)
  <1>1. PICK plain \in Seq(LineType) : plain = RenderReview(reviews) /\ Runs(plain)
      BY ReportFacts
  <1>2. PICK top \in Seq(LineType), body \in Seq(LineType) :
          /\ plain = top \o body
          /\ \A l \in ToSet(top) : l.kind \in TopKinds
          /\ \A l \in ToSet(body) : l.kind \in SectionKinds \cup {"section"}
      BY <1>1, ReportFacts
  <1>3. PICK y1 \in Seq(LineType), y2 \in Seq(LineType), y3 \in Seq(LineType) :
          Cut(plain, y1, y2, y3)
    <2>1. CASE OwnHeading(plain) = 0
      <3>1. <<>> \in Seq(LineType)
          OBVIOUS
      <3> QED BY <2>1, <3>1, NothingIsCut
    <2>2. CASE OwnHeading(plain) # 0
      <3>1. PICK n \in Nat : n = Len(plain)
          BY LenProperties
      <3>2. DOMAIN plain = 1 .. n
          BY <3>1, LenProperties
      <3>3. PICK own \in 1 .. n : own = OwnHeading(plain) /\ IsTldrHeading(plain[own])
          BY <2>2, <3>2, OwnHeadingPlace
      <3>4. \A k \in own .. n : plain[k].kind \in SectionKinds \cup {"section"}
          BY <1>2, <3>1, <3>3, OwnIsInSection
      <3> QED BY <1>1, <2>2, <3>1, <3>3, <3>4, SectionIsCut
    <2> QED BY <2>1, <2>2
  <1>4. PICK kept \in Seq(LineType) : kept = StripExistingTldr(plain) /\ kept = y1 \o y3
    <2>1. y1 \o y3 \in Seq(LineType)
        BY JoinFacts
    <2> QED BY <1>3, <2>1 DEF Cut
  <1>5. PICK place \in 0 .. Len(kept) : place = SelectInSeq(kept, LAMBDA l : l.kind = "overall")
      BY InsertFacts
  <1> DEFINE x1 == SubSeq(kept, 1, place)
             x2 == SubSeq(kept, place + 1, Len(kept))
  <1>6. kept = x1 \o x2 /\ x1 \in Seq(LineType) /\ x2 \in Seq(LineType)
    <2>2. kept = x1 \o x2
        BY TwoParts
    <2>3. /\ 1 \in Nat /\ place \in Nat /\ 1 <= 1 /\ place <= Len(kept) /\ place + 1 \in Nat
          /\ Len(kept) \in Nat /\ 1 <= place + 1 /\ Len(kept) <= Len(kept)
        BY LenProperties
    <2>4. x1 \in Seq(LineType) /\ x2 \in Seq(LineType)
        BY <2>3, SubSeqFacts
    <2> QED BY <2>2, <2>4
  <1>7. SpliceTldr(plain) = (x1 \o TldrBlock) \o x2
      BY <1>4, <1>5 DEF SpliceTldr
  <1> HIDE DEF x1, x2
  <1>8. Spliced(plain, SpliceTldr(plain), y1, y2, y3, x1, x2)
      BY <1>3, <1>4, <1>6, <1>7 DEF Cut, Spliced
  <1> QED BY <1>1, <1>6, <1>8

-----------------------------------------------------------------------------
(* The report with its TL;DR.                                               *)

TldrHeading == Line("### TL;DR")

LEMMA BlockFacts ==
  /\ TldrHeading \in LineType /\ Line("tldr") \in LineType
  /\ IsTldrHeading(TldrHeading) /\ Line("tldr").kind = "tldr"
  /\ TldrBlock \in Seq(LineType) /\ ToSet(TldrBlock) = {TldrHeading, Line("tldr")}
  /\ TldrBlock = <<TldrHeading, Line("tldr")>>
  <1>1. "### TL;DR" \in Text /\ "tldr" \in Text
      BY DEF Text
  <1>2. /\ TldrHeading \in LineType /\ Line("tldr") \in LineType
        /\ TldrHeading.kind = "### TL;DR" /\ Line("tldr").kind = "tldr"
      BY <1>1, LineFacts DEF TldrHeading
  <1>3. TldrBlock = <<TldrHeading, Line("tldr")>>
      BY DEF TldrBlock, TldrHeading
  <1>4. IsTldrHeading(TldrHeading)
      BY <1>2 DEF IsTldrHeading
  <1> HIDE DEF TldrHeading
  <1>5. TldrBlock \in Seq(LineType) /\ ToSet(TldrBlock) = {TldrHeading, Line("tldr")}
      BY <1>2, <1>3, TwoElements
  <1> QED BY <1>2, <1>3, <1>4, <1>5

\* What is kept of the report is not touched if it is none of the lines that are
\* put in or cut.
LEMMA SplicedKeeps ==
  ASSUME NEW plain, NEW final,
         NEW y1 \in Seq(LineType), NEW y2 \in Seq(LineType), NEW y3 \in Seq(LineType),
         NEW x1 \in Seq(LineType), NEW x2 \in Seq(LineType),
         Spliced(plain, final, y1, y2, y3, x1, x2),
         NEW S, TldrHeading \notin S, Line("tldr") \notin S, \A l \in ToSet(y2) : l \notin S
  PROVE  Keep(final, S) = Keep(plain, S)
  <1>1. plain = (y1 \o y2) \o y3 /\ y1 \o y3 = x1 \o x2 /\ final = (x1 \o TldrBlock) \o x2
      BY DEF Spliced
  <1>2. PICK b \in Seq(LineType) : b = TldrBlock /\ \A l \in ToSet(b) : l \notin S
      BY BlockFacts
  <1>3. ASSUME NEW s \in Seq(LineType), \A l \in ToSet(s) : l \notin S
        PROVE  Keep(s, S) = <<>>
    <2>1. \A i \in DOMAIN s : s[i] \notin S
        BY <1>3 DEF ToSet
    <2> QED BY <2>1, KeepNone
  <1>4. ASSUME NEW u \in Seq(LineType), NEW v \in Seq(LineType), NEW w \in Seq(LineType),
               Keep(v, S) = <<>>
        PROVE  Keep((u \o v) \o w, S) = Keep(u \o w, S)
    <2>1. u \o v \in Seq(LineType)
        BY JoinFacts
    <2>2. Keep((u \o v) \o w, S) = Keep(u \o v, S) \o Keep(w, S)
        BY <2>1, KeepConcat
    <2>3. Keep(u \o v, S) = Keep(u, S) \o Keep(v, S)
        BY KeepConcat
    <2>4. Keep(u, S) \o Keep(v, S) = Keep(u, S)
      <3>1. Keep(u, S) \in Seq(LineType)
          BY KeepType
      <3> QED BY <1>4, <3>1, ConcatEmptySeq
    <2>5. Keep(u \o w, S) = Keep(u, S) \o Keep(w, S)
        BY KeepConcat
    <2> QED BY <2>2, <2>3, <2>4, <2>5
  <1>5. Keep(y2, S) = <<>> /\ Keep(b, S) = <<>>
      BY <1>2, <1>3
  <1>6. Keep(plain, S) = Keep(y1 \o y3, S)
      BY <1>1, <1>4, <1>5
  <1>7. Keep(final, S) = Keep(x1 \o x2, S)
      BY <1>1, <1>2, <1>4, <1>5
  <1> QED BY <1>1, <1>6, <1>7

Rebuilt(plain, final, y1, y2, y3, x1, x2) ==
  /\ final \in Seq(LineType) /\ plain \in Seq(LineType)
  /\ ToSet(y1) \cup ToSet(y3) = ToSet(x1) \cup ToSet(x2)
  /\ ToSet(final) = ToSet(y1) \cup ToSet(y3) \cup {TldrHeading, Line("tldr")}
  /\ ToSet(plain) = ToSet(y1) \cup ToSet(y2) \cup ToSet(y3)

LEMMA SplicedElements ==
  ASSUME NEW plain, NEW final,
         NEW y1 \in Seq(LineType), NEW y2 \in Seq(LineType), NEW y3 \in Seq(LineType),
         NEW x1 \in Seq(LineType), NEW x2 \in Seq(LineType),
         Spliced(plain, final, y1, y2, y3, x1, x2)
  PROVE  Rebuilt(plain, final, y1, y2, y3, x1, x2)
  <1>1. plain = (y1 \o y2) \o y3 /\ y1 \o y3 = x1 \o x2 /\ final = (x1 \o TldrBlock) \o x2
      BY DEF Spliced
  <1>2. PICK b \in Seq(LineType) : b = TldrBlock /\ ToSet(b) = {TldrHeading, Line("tldr")}
      BY BlockFacts
  <1>3. ASSUME NEW u \in Seq(LineType), NEW v \in Seq(LineType), NEW w \in Seq(LineType)
        PROVE  /\ (u \o v) \o w \in Seq(LineType)
               /\ ToSet((u \o v) \o w) = ToSet(u) \cup ToSet(v) \cup ToSet(w)
    <2>1. u \o v \in Seq(LineType) /\ ToSet(u \o v) = ToSet(u) \cup ToSet(v)
        BY JoinFacts
    <2>2. (u \o v) \o w \in Seq(LineType) /\ ToSet((u \o v) \o w) = ToSet(u \o v) \cup ToSet(w)
      <3>1. PICK uv \in Seq(LineType) : uv = u \o v
          BY <2>1
      <3>2. uv \o w \in Seq(LineType) /\ ToSet(uv \o w) = ToSet(uv) \cup ToSet(w)
          BY JoinFacts
      <3> QED BY <3>1, <3>2
    <2> QED BY <2>1, <2>2
  <1>4. ToSet(y1) \cup ToSet(y3) = ToSet(x1) \cup ToSet(x2)
    <2>1. ToSet(y1 \o y3) = ToSet(y1) \cup ToSet(y3)
        BY JoinFacts
    <2>2. ToSet(x1 \o x2) = ToSet(x1) \cup ToSet(x2)
        BY JoinFacts
    <2> QED BY <1>1, <2>1, <2>2
  <1>5. plain \in Seq(LineType) /\ ToSet(plain) = ToSet(y1) \cup ToSet(y2) \cup ToSet(y3)
      BY <1>1, <1>3
  <1>6. /\ final \in Seq(LineType)
        /\ ToSet(final) = ToSet(x1) \cup {TldrHeading, Line("tldr")} \cup ToSet(x2)
      BY <1>1, <1>2, <1>3
  <1>7. ToSet(final) = ToSet(y1) \cup ToSet(y3) \cup {TldrHeading, Line("tldr")}
      BY <1>4, <1>6
  <1> QED BY <1>4, <1>5, <1>6, <1>7 DEF Rebuilt

\* A review of the report brings a heading of a TL;DR.
BringsTldr(latest) == \E i \in DOMAIN latest : "### TL;DR" \in ToSet(latest[i].summary)

LEMMA HeadingIsBrought ==
  ASSUME NEW l, NEW latest, LineOf(l, latest), IsTldrHeading(l)
  PROVE  BringsTldr(latest)
  BY DEF LineOf, IsTldrHeading, BringsTldr

LEMMA NoTldrLine ==
  ASSUME NEW l, NEW latest, LineOf(l, latest)
  PROVE  l.kind # "tldr"
  BY DEF LineOf

\* What the report becomes.
TldrKinds == {"### TL;DR", "tldr"}

LEMMA TldrKindsFacts ==
  ASSUME NEW l
  PROVE  l.kind \in TldrKinds <=> (IsTldrHeading(l) \/ l.kind = "tldr")
  BY DEF TldrKinds, IsTldrHeading

LEMMA TopKindsAreKept ==
  /\ \A l : IsTldrHeading(l) => l.kind \notin {"overall", "count", "critical", "finding"}
  /\ \A l : l.kind = "tldr" => l.kind \notin {"overall", "count", "critical", "finding"}
  /\ \A l : l.kind \in SectionKinds => l.kind \notin {"overall", "count", "critical"}
  BY DEF IsTldrHeading, SectionKinds

LEMMA SplicedReport ==
  ASSUME NEW reviews \in Seq(ReviewType)
  PROVE  LET plain == RenderReview(reviews)
             final == SpliceTldr(plain)
             latest == LatestByRole(reviews)
         IN /\ final \in Seq(LineType)
            /\ \A kind \in {"overall", "count", "critical"} :
                 Keep(final, OfKind(kind)) = Keep(plain, OfKind(kind))
            /\ Len(Keep(final, OfKind("tldr"))) = 1
            /\ \A k \in DOMAIN plain :
                 \/ plain[k] \in ToSet(final)
                 \/ /\ OwnHeading(plain) > 0 /\ k >= OwnHeading(plain)
                    /\ plain[k].role = plain[OwnHeading(plain)].role
            /\ ~BringsTldr(latest) =>
                 /\ Keep(final, OfKind("finding")) = Keep(plain, OfKind("finding"))
                 /\ Keep(final, {l \in ToSet(final) : l.kind \notin TldrKinds}) = plain
  <1> DEFINE plain == RenderReview(reviews)
             final == SpliceTldr(plain)
             latest == LatestByRole(reviews)
  <1>1. PICK y1 \in Seq(LineType), y2 \in Seq(LineType), y3 \in Seq(LineType),
             x1 \in Seq(LineType), x2 \in Seq(LineType) :
          Spliced(plain, final, y1, y2, y3, x1, x2)
      BY SpliceFacts
  <1>2. plain \in Seq(LineType) /\ \A l \in ToSet(plain) : LineOf(l, latest)
      BY ReportFacts
  <1> HIDE DEF plain, final, latest
  <1>3. /\ final \in Seq(LineType)
        /\ ToSet(y1) \cup ToSet(y3) = ToSet(x1) \cup ToSet(x2)
        /\ ToSet(final) = ToSet(y1) \cup ToSet(y3) \cup {TldrHeading, Line("tldr")}
        /\ ToSet(plain) = ToSet(y1) \cup ToSet(y2) \cup ToSet(y3)
    <2>1. Rebuilt(plain, final, y1, y2, y3, x1, x2)
        BY <1>1, SplicedElements
    <2> QED BY <2>1 DEF Rebuilt
  <1>4. ASSUME NEW kind \in {"overall", "count", "critical"}
        PROVE  Keep(final, OfKind(kind)) = Keep(plain, OfKind(kind))
    <2>1. TldrHeading \notin OfKind(kind) /\ Line("tldr") \notin OfKind(kind)
        BY BlockFacts, TopKindsAreKept DEF OfKind
    <2>2. \A l \in ToSet(y2) : l \notin OfKind(kind)
        BY <1>1, TopKindsAreKept DEF OfKind, Spliced
    <2> QED BY <1>1, <2>1, <2>2, SplicedKeeps
  <1>5. Len(Keep(final, OfKind("tldr"))) = 1
    <2> DEFINE S == OfKind("tldr")
    <2>1. \A l \in ToSet(x1) \cup ToSet(x2) : l \notin S
        BY <1>2, <1>3, NoTldrLine DEF OfKind
    <2>2. TldrHeading \notin S /\ Line("tldr") \in S
        BY BlockFacts DEF OfKind, IsTldrHeading
    <2> HIDE DEF S
    <2>3. Keep(x1, S) = <<>> /\ Keep(x2, S) = <<>>
      <3>1. \A i \in DOMAIN x1 : x1[i] \notin S
          BY <2>1 DEF ToSet
      <3>2. \A i \in DOMAIN x2 : x2[i] \notin S
          BY <2>1 DEF ToSet
      <3> QED BY <3>1, <3>2, KeepNone
    <2>4. Keep(TldrBlock, S) = <<Line("tldr")>>
      <3>1. TldrBlock = Append(Append(<<>>, TldrHeading), Line("tldr"))
          BY BlockFacts
      <3>2. PICK h \in LineType, d \in LineType : h = TldrHeading /\ d = Line("tldr")
          BY BlockFacts
      <3>3. PICK none \in Seq(LineType) : none = <<>>
        <4>1. <<>> \in Seq(LineType)
            OBVIOUS
        <4> QED BY <4>1
      <3>4. PICK u \in Seq(LineType) : u = Append(none, h)
        <4>1. Append(none, h) \in Seq(LineType)
            BY AppendFacts
        <4> QED BY <4>1
      <3>5. Keep(u, S) = <<>>
        <4>1. h \notin S
            BY <2>2, <3>2
        <4>2. Keep(u, S) = Keep(none, S)
            BY <3>4, <4>1, KeepAppend
        <4> QED BY <3>3, <4>2, KeepEmpty
      <3>7. Keep(Append(u, d), S) = Append(Keep(u, S), d)
        <4>1. d \in S
            BY <2>2, <3>2
        <4> QED BY <4>1, KeepAppend
      <3>6. Append(<<>>, Line("tldr")) = <<Line("tldr")>>
          OBVIOUS
      <3> QED BY <3>1, <3>2, <3>3, <3>4, <3>5, <3>6, <3>7
    <2>5. final = (x1 \o TldrBlock) \o x2
        BY <1>1 DEF Spliced
    <2>6. x1 \o TldrBlock \in Seq(LineType)
        BY BlockFacts, JoinFacts
    <2>7. Keep(final, S) = (Keep(x1, S) \o Keep(TldrBlock, S)) \o Keep(x2, S)
      <3>1. Keep(final, S) = Keep(x1 \o TldrBlock, S) \o Keep(x2, S)
          BY <2>5, <2>6, KeepConcat
      <3>2. Keep(x1 \o TldrBlock, S) = Keep(x1, S) \o Keep(TldrBlock, S)
          BY BlockFacts, KeepConcat
      <3> QED BY <3>1, <3>2
    <2>8. PICK one \in Seq(LineType) : one = <<Line("tldr")>> /\ Len(one) = 1
      <3>1. <<Line("tldr")>> \in Seq(LineType)
          BY BlockFacts, OneElement
      <3>2. Len(<<Line("tldr")>>) = 1
          OBVIOUS
      <3> QED BY <3>1, <3>2
    <2>9. (<<>> \o one) \o <<>> = one
        BY ConcatEmptySeq
    <2>10. Keep(final, S) = one
        BY <2>3, <2>4, <2>7, <2>8, <2>9
    <2> QED BY <2>8, <2>10 DEF S
  <1>6. \A k \in DOMAIN plain :
          \/ plain[k] \in ToSet(final)
          \/ /\ OwnHeading(plain) > 0 /\ k >= OwnHeading(plain)
             /\ plain[k].role = plain[OwnHeading(plain)].role
      BY <1>1, <1>3 DEF Spliced
  <1>7. ASSUME ~BringsTldr(latest)
        PROVE  /\ Keep(final, OfKind("finding")) = Keep(plain, OfKind("finding"))
               /\ Keep(final, {l \in ToSet(final) : l.kind \notin TldrKinds}) = plain
    <2>1. \A l \in ToSet(plain) : ~IsTldrHeading(l) /\ l.kind # "tldr"
        BY <1>2, <1>7, HeadingIsBrought, NoTldrLine
    <2>2. OwnHeading(plain) = 0
      <3> SUFFICES ASSUME OwnHeading(plain) # 0 PROVE FALSE
          OBVIOUS
      <3>1. OwnHeading(plain) \in DOMAIN plain /\ IsTldrHeading(plain[OwnHeading(plain)])
          BY <1>2, OwnHeadingPlace
      <3> QED BY <2>1, <3>1 DEF ToSet
    <2>3. ToSet(y2) = {}
      <3>1. y2 = <<>>
          BY <1>1, <2>2 DEF Spliced
      <3> QED BY <3>1 DEF ToSet
    <2>4. TldrHeading \notin OfKind("finding") /\ Line("tldr") \notin OfKind("finding")
        BY BlockFacts, TopKindsAreKept DEF OfKind
    <2>5. Keep(final, OfKind("finding")) = Keep(plain, OfKind("finding"))
        BY <1>1, <2>3, <2>4, SplicedKeeps
    <2> DEFINE S == {l \in ToSet(final) : l.kind \notin TldrKinds}
    <2>6. TldrHeading \notin S /\ Line("tldr") \notin S
        BY BlockFacts, TldrKindsFacts
    <2>7. \A l \in ToSet(plain) : l \in S
        BY <1>3, <2>1, <2>3, TldrKindsFacts
    <2> HIDE DEF S
    <2>8. Keep(final, S) = Keep(plain, S)
        BY <1>1, <2>3, <2>6, SplicedKeeps
    <2>9. Keep(plain, S) = plain
      <3>1. \A i \in DOMAIN plain : plain[i] \in S
          BY <2>7 DEF ToSet
      <3> QED BY <1>2, <3>1, KeepAll
    <2> QED BY <2>5, <2>8, <2>9 DEF S
  <1> QED BY <1>3, <1>4, <1>5, <1>6, <1>7 DEF plain, final, latest

-----------------------------------------------------------------------------
(* The report and the row.                                                  *)

\* The report of reviews, with its TL;DR or without one.
FinalOf(reviews, final, tldr) ==
  \/ ~tldr /\ final = RenderReview(reviews)
  \/ tldr /\ final = SpliceTldr(RenderReview(reviews))

LEMMA FinalKeeps ==
  ASSUME NEW reviews \in Seq(ReviewType), NEW final, NEW tldr \in BOOLEAN,
         FinalOf(reviews, final, tldr)
  PROVE  /\ final \in Seq(LineType)
         /\ \A kind \in {"overall", "count", "critical"} :
              Keep(final, OfKind(kind)) = Keep(RenderReview(reviews), OfKind(kind))
         /\ ~(BringsTldr(LatestByRole(reviews)) /\ tldr) =>
              Keep(final, OfKind("finding")) = Keep(RenderReview(reviews), OfKind("finding"))
  <1>1. CASE ~tldr /\ final = RenderReview(reviews)
    <2>1. RenderReview(reviews) \in Seq(LineType)
        BY ReportFacts
    <2> QED BY <1>1, <2>1
  <1>2. CASE tldr /\ final = SpliceTldr(RenderReview(reviews))
    <2>1. final \in Seq(LineType)
        BY <1>2, SplicedReport
    <2>2. \A kind \in {"overall", "count", "critical"} :
            Keep(final, OfKind(kind)) = Keep(RenderReview(reviews), OfKind(kind))
        BY <1>2, SplicedReport
    <2>3. ~BringsTldr(LatestByRole(reviews)) =>
            Keep(final, OfKind("finding")) = Keep(RenderReview(reviews), OfKind("finding"))
        BY <1>2, SplicedReport
    <2> QED BY <1>2, <2>1, <2>2, <2>3
  <1> QED BY <1>1, <1>2 DEF FinalOf

LEMMA FinalLines ==
  ASSUME NEW reviews \in Seq(ReviewType), NEW final, NEW tldr \in BOOLEAN,
         FinalOf(reviews, final, tldr)
  PROVE  LET latest == LatestByRole(reviews)
             rows == FlattenSeq(RowParts(latest))
         IN /\ final \in Seq(LineType)
            /\ \A l \in ToSet(Keep(final, OfKind("overall"))) :
                 l.severity = Label(HighestRank(latest))
            /\ \A l \in ToSet(Keep(final, OfKind("count"))) :
                 \E i \in DOMAIN latest : \E severity \in Severities : l = Cell(latest[i], severity)
            /\ \A l \in ToSet(Keep(final, OfKind("critical"))) : Calls(l, latest)
            /\ CountSum(Keep(final, OfKind("count"))) = Len(rows)
            /\ ~(BringsTldr(latest) /\ tldr) =>
                 /\ Len(Keep(final, OfKind("finding"))) = Len(rows)
                 /\ ToSet(Keep(final, OfKind("finding")))
                      = UNION {SectionFindings(latest[i]) : i \in DOMAIN latest}
  <1> DEFINE plain == RenderReview(reviews)
             latest == LatestByRole(reviews)
             rows == FlattenSeq(RowParts(latest))
  <1>1. /\ final \in Seq(LineType)
        /\ Keep(final, OfKind("overall")) = Keep(plain, OfKind("overall"))
        /\ Keep(final, OfKind("count")) = Keep(plain, OfKind("count"))
        /\ Keep(final, OfKind("critical")) = Keep(plain, OfKind("critical"))
        /\ ~(BringsTldr(latest) /\ tldr) =>
             Keep(final, OfKind("finding")) = Keep(plain, OfKind("finding"))
    <2>1. \A kind \in {"overall", "count", "critical"} :
            Keep(final, OfKind(kind)) = Keep(plain, OfKind(kind))
        BY FinalKeeps
    <2> HIDE DEF plain, latest
    <2>2. /\ Keep(final, OfKind("overall")) = Keep(plain, OfKind("overall"))
          /\ Keep(final, OfKind("count")) = Keep(plain, OfKind("count"))
          /\ Keep(final, OfKind("critical")) = Keep(plain, OfKind("critical"))
        BY <2>1
    <2> QED BY <2>2, FinalKeeps DEF plain, latest
  <1>2. /\ plain \in Seq(LineType)
        /\ \A l \in ToSet(plain) : LineOf(l, latest)
        /\ CountSum(Keep(plain, OfKind("count"))) = Len(rows)
        /\ Len(Keep(plain, OfKind("finding"))) = Len(rows)
        /\ ToSet(plain) \cap OfKind("finding")
             = UNION {SectionFindings(latest[i]) : i \in DOMAIN latest}
      BY ReportFacts
  <1> HIDE DEF plain, latest, rows
  <1>3. \A kind : \A l \in ToSet(Keep(plain, OfKind(kind))) : l.kind = kind /\ LineOf(l, latest)
    <2> TAKE kind
    <2>1. ToSet(Keep(plain, OfKind(kind))) = ToSet(plain) \cap OfKind(kind)
        BY <1>2, KeepSet
    <2> QED BY <1>2, <2>1 DEF OfKind
  <1>4. \A l \in ToSet(Keep(final, OfKind("overall"))) : l.severity = Label(HighestRank(latest))
    <2> SUFFICES ASSUME NEW l, l.kind = "overall", LineOf(l, latest)
                 PROVE  l.severity = Label(HighestRank(latest))
        BY <1>1, <1>3
    <2> QED BY DEF LineOf
  <1>5. \A l \in ToSet(Keep(final, OfKind("count"))) :
          \E i \in DOMAIN latest : \E severity \in Severities : l = Cell(latest[i], severity)
    <2> SUFFICES ASSUME NEW l, l.kind = "count", LineOf(l, latest)
                 PROVE  \E i \in DOMAIN latest : \E severity \in Severities : l = Cell(latest[i], severity)
        BY <1>1, <1>3
    <2> QED BY DEF LineOf
  <1>6. \A l \in ToSet(Keep(final, OfKind("critical"))) : Calls(l, latest)
    <2> SUFFICES ASSUME NEW l, l.kind = "critical", LineOf(l, latest) PROVE Calls(l, latest)
        BY <1>1, <1>3
    <2> QED BY DEF LineOf
  <1>7. CountSum(Keep(final, OfKind("count"))) = Len(rows)
      BY <1>1, <1>2
  <1>8. ASSUME ~(BringsTldr(latest) /\ tldr)
        PROVE  /\ Len(Keep(final, OfKind("finding"))) = Len(rows)
               /\ ToSet(Keep(final, OfKind("finding")))
                    = UNION {SectionFindings(latest[i]) : i \in DOMAIN latest}
    <2>1. ToSet(Keep(plain, OfKind("finding"))) = ToSet(plain) \cap OfKind("finding")
        BY <1>2, KeepSet
    <2> QED BY <1>1, <1>2, <1>8, <2>1
  <1> QED BY <1>1, <1>4, <1>5, <1>6, <1>7, <1>8 DEF latest, rows

\* A severity above info that is spelled as the report spells it is stored so.
LEMMA BucketIsStored ==
  ASSUME NEW raw, Bucket(raw) # "info"
  PROVE  StoredSeverity(raw) = Bucket(raw)
  <1>1. raw \in Severities /\ Bucket(raw) = raw
      BY DEF Bucket
  <1>2. LowerStrip(raw) = raw
      BY <1>1, FourSeverities DEF LowerStrip
  <1> QED BY <1>1, <1>2 DEF StoredSeverity

LEMMA CriticalIsStored == StoredSeverity("critical") = "critical"
  <1>1. LowerStrip("critical") = "critical"
      BY DEF LowerStrip
  <1> QED BY <1>1, FourSeverities DEF StoredSeverity

LEMMA ShownIsStored ==
  ASSUME NEW raw
  PROVE  StoredSeverity(IF raw = None THEN "info" ELSE raw) = StoredSeverity(raw)
  <1>1. CASE raw = None
    <2>1. LowerStrip("info") = "info" /\ LowerStrip(None) = None
        BY DEF LowerStrip, None
    <2>2. None \notin Severities /\ "info" \in Severities
        BY FourSeverities DEF None
    <2> QED BY <1>1, <2>1, <2>2 DEF StoredSeverity
  <1>2. CASE raw # None
      BY <1>2
  <1> QED BY <1>1, <1>2

\* The rows of a role and a severity.
RowsWith(role, severity) ==
  {f \in RowFindingType : f.role = role /\ f.severity = severity}

LEMMA CountedRows ==
  ASSUME NEW latest \in Seq(ReviewType), NEW i \in DOMAIN latest,
         NEW severity \in Severities, severity # "info"
  PROVE  Len(OfSeverity(latest[i], severity))
           <= Len(Keep(FlattenSeq(RowParts(latest)), RowsWith(latest[i].role, severity)))
  <1> DEFINE W == RowsWith(latest[i].role, severity)
  <1>1. PICK r \in ReviewType : r = latest[i]
    <2>1. latest[i] \in ReviewType
        OBVIOUS
    <2> QED BY <2>1
  <1>2. /\ r.role \in Text /\ r.findings \in Seq(FindingRec)
        /\ Len(r.findings) \in Nat /\ DOMAIN r.findings = 1 .. Len(r.findings)
      BY LenProperties DEF ReviewType
  <1>3. OfSeverity(r, severity) = Keep(r.findings, Bucketed(severity))
      BY OfSeverityFacts
  <1>4. Rows(r) \in Seq(RowFindingType) /\ Len(Rows(r)) = Len(r.findings)
      BY RowsFacts
  <1>5. \A n \in 1 .. Len(r.findings) : r.findings[n] \in Bucketed(severity) => Rows(r)[n] \in W
    <2> SUFFICES ASSUME NEW n \in 1 .. Len(r.findings), r.findings[n] \in Bucketed(severity)
                 PROVE  Rows(r)[n] \in W
        OBVIOUS
    <2>1. n \in DOMAIN r.findings
        BY <1>2
    <2>2. Rows(r)[n] = FindingRow(r.role, r.findings[n])
        BY <2>1 DEF Rows
    <2>3. PICK f \in FindingRec : f = r.findings[n] /\ Bucket(f.severity) = severity
        BY DEF Bucketed
    <2>4. StoredSeverity(f.severity) = severity
        BY <2>3, BucketIsStored
    <2>5. /\ FindingRow(r.role, f) \in RowFindingType
          /\ FindingRow(r.role, f).role = r.role
          /\ FindingRow(r.role, f).severity = severity
        BY <1>2, <2>4, RowFacts
    <2> QED BY <1>1, <2>2, <2>3, <2>5 DEF RowsWith
  <1> HIDE DEF W
  <1>6. Len(Keep(r.findings, Bucketed(severity))) <= Len(Keep(Rows(r), W))
    <2>1. PICK s \in Seq(FindingRec) : s = r.findings
        BY <1>2
    <2>2. PICK t \in Seq(RowFindingType) : t = Rows(r)
        BY <1>4
    <2>3. Len(s) = Len(t)
        BY <1>4, <2>1, <2>2
    <2>4. \A n \in 1 .. Len(s) : s[n] \in Bucketed(severity) => t[n] \in W
        BY <1>5, <2>1, <2>2
    <2>5. Len(Keep(s, Bucketed(severity))) <= Len(Keep(t, W))
        BY <2>3, <2>4, KeepCompare
    <2> QED BY <2>1, <2>2, <2>5
  <1>7. Len(Keep(Rows(r), W)) <= Len(Keep(FlattenSeq(RowParts(latest)), W))
    <2>1. PICK ss \in Seq(Seq(RowFindingType)) : ss = RowParts(latest)
        BY RowPartsFacts
    <2>2. DOMAIN ss = DOMAIN latest /\ ss[i] = Rows(r)
        BY <1>1, <2>1 DEF RowParts
    <2>3. Len(Keep(ss[i], W)) <= Len(Keep(FlattenSeq(ss), W))
        BY <2>2, FlattenPart
    <2> QED BY <2>1, <2>2, <2>3
  <1>8. Keep(r.findings, Bucketed(severity)) \in Seq(FindingRec)
      BY <1>2, KeepType
  <1>9. Keep(Rows(r), W) \in Seq(RowFindingType)
      BY <1>4, KeepType
  <1>10. Keep(FlattenSeq(RowParts(latest)), W) \in Seq(RowFindingType)
      BY RowPartsFacts, KeepType
  <1>11. ASSUME NEW x \in Nat, NEW y \in Nat, NEW z \in Nat, x <= y, y <= z PROVE x <= z
      BY <1>11
  <1>12. /\ Len(Keep(r.findings, Bucketed(severity))) \in Nat
         /\ Len(Keep(Rows(r), W)) \in Nat
         /\ Len(Keep(FlattenSeq(RowParts(latest)), W)) \in Nat
      BY <1>8, <1>9, <1>10, LenProperties
  <1>13. Len(Keep(r.findings, Bucketed(severity)))
           <= Len(Keep(FlattenSeq(RowParts(latest)), W))
      BY <1>6, <1>7, <1>11, <1>12
  <1> QED BY <1>1, <1>3, <1>13 DEF W

\* The findings of a row, one by one, are in the lines of the report.
LEMMA RowIsShown ==
  ASSUME NEW latest \in Seq(ReviewType), NEW x \in ToSet(FlattenSeq(RowParts(latest)))
  PROVE  \E l \in UNION {SectionFindings(latest[i]) : i \in DOMAIN latest} :
           /\ l.role = x.role
           /\ l.file = x.file
           /\ l.text = x.text
           /\ StoredSeverity(l.severity) = x.severity
  <1>1. PICK i \in DOMAIN latest : \E f \in ToSet(latest[i].findings) : x = FindingRow(latest[i].role, f)
      BY RowOfFinding
  <1>0. PICK f \in ToSet(latest[i].findings) : x = FindingRow(latest[i].role, f)
      BY <1>1
  <1>2. PICK r \in ReviewType : r = latest[i]
    <2>1. latest[i] \in ReviewType
        OBVIOUS
    <2> QED BY <2>1
  <1>3. r.role \in Text /\ r.findings \in Seq(FindingRec)
      BY DEF ReviewType
  <1>4. f \in FindingRec
      BY <1>2, <1>3 DEF ToSet
  <1>5. "finding" \in Text
      BY DEF Text
  <1> DEFINE l == FindingLine("finding", r.role, f)
  <1>6. /\ l.role = r.role /\ l.file = f.file /\ l.text = f.text
        /\ l.severity = IF f.severity = None THEN "info" ELSE f.severity
      BY <1>3, <1>4, <1>5, FindingLineFacts
  <1>7. l \in SectionFindings(latest[i])
      BY <1>2 DEF SectionFindings
  <1>8. l \in UNION {SectionFindings(latest[n]) : n \in DOMAIN latest}
      BY <1>7
  <1> HIDE DEF l
  <1>9. StoredSeverity(l.severity) = StoredSeverity(f.severity)
      BY <1>6, ShownIsStored
  <1>10. /\ x.role = r.role /\ x.file = f.file /\ x.text = f.text
         /\ x.severity = StoredSeverity(f.severity)
      BY <1>0, <1>2, <1>3, <1>4, RowFacts
  <1> QED BY <1>6, <1>8, <1>9, <1>10

\* A critical finding that the report calls is a critical row.
LEMMA CallIsARow ==
  ASSUME NEW latest \in Seq(ReviewType), NEW l, Calls(l, latest)
  PROVE  \E x \in ToSet(FlattenSeq(RowParts(latest))) :
           /\ x.severity = "critical"
           /\ x.role = l.role
           /\ x.file = l.file
           /\ x.text = l.text
  <1>1. PICK i \in DOMAIN latest : \E f \in ToSet(latest[i].findings) :
          f.severity = "critical" /\ l.role = latest[i].role /\ l.file = f.file /\ l.text = f.text
      BY DEF Calls
  <1>0. PICK f \in ToSet(latest[i].findings) :
          f.severity = "critical" /\ l.role = latest[i].role /\ l.file = f.file /\ l.text = f.text
      BY <1>1
  <1>2. PICK r \in ReviewType : r = latest[i]
    <2>1. latest[i] \in ReviewType
        OBVIOUS
    <2> QED BY <2>1
  <1>3. r.role \in Text /\ r.findings \in Seq(FindingRec)
      BY DEF ReviewType
  <1>4. f \in FindingRec
      BY <1>2, <1>3 DEF ToSet
  <1>5. FindingRow(r.role, f) \in ToSet(FlattenSeq(RowParts(latest)))
      BY <1>2, FindingHasRow
  <1>6. /\ FindingRow(r.role, f).role = r.role
        /\ FindingRow(r.role, f).file = f.file
        /\ FindingRow(r.role, f).text = f.text
        /\ FindingRow(r.role, f).severity = "critical"
      BY <1>0, <1>3, <1>4, RowFacts, CriticalIsStored
  <1> QED BY <1>0, <1>2, <1>5, <1>6

\* What the TL;DR is written from.
LEMMA GroundsFacts ==
  ASSUME NEW reviews \in Seq(ReviewType)
  PROVE  LET shown == ToSet(Lines(RenderReview(reviews), "finding"))
         IN /\ shown \subseteq Grounds(reviews)
            /\ ~SomeRepeat(reviews) => Grounds(reviews) = shown
  <1> DEFINE latest == LatestByRole(reviews)
             plain == RenderReview(reviews)
             All(some) == UNION {SectionFindings(r) : r \in ToSet(some)}
  <1>1. \A some : UNION {SectionFindings(some[i]) : i \in DOMAIN some} = All(some)
      BY DEF ToSet
  <1>2. Grounds(reviews) = UNION {SectionFindings(reviews[i]) : i \in DOMAIN reviews}
      BY DEF Grounds, SectionFindings
  <1>3. ToSet(Lines(plain, "finding")) = UNION {SectionFindings(latest[i]) : i \in DOMAIN latest}
    <2>1. plain \in Seq(LineType)
        BY ReportFacts
    <2>2. ToSet(plain) \cap OfKind("finding")
            = UNION {SectionFindings(latest[i]) : i \in DOMAIN latest}
        BY ReportFacts
    <2> HIDE DEF plain, latest
    <2>3. Lines(plain, "finding") = Keep(plain, OfKind("finding"))
        BY <2>1, LinesAreKept
    <2>4. ToSet(Keep(plain, OfKind("finding"))) = ToSet(plain) \cap OfKind("finding")
        BY <2>1, KeepSet
    <2> QED BY <2>2, <2>3, <2>4
  <1>4. /\ ToSet(latest) \subseteq ToSet(reviews)
        /\ ~SomeRepeat(reviews) => ToSet(latest) = ToSet(reviews)
      BY LatestAreReviews
  <1> HIDE DEF latest, plain
  <1>5. ToSet(Lines(plain, "finding")) = All(latest) /\ Grounds(reviews) = All(reviews)
      BY <1>1, <1>2, <1>3
  <1>6. All(latest) \subseteq All(reviews)
      BY <1>4
  <1>7. ~SomeRepeat(reviews) => All(latest) = All(reviews)
      BY <1>4
  <1> HIDE DEF All
  <1> QED BY <1>5, <1>6, <1>7 DEF plain

-----------------------------------------------------------------------------
(* The invariant.                                                           *)

FindingIds == Text \X Text \X Text \X Text

ProposalType == [finding_id : FindingIds, status : {"approved", "skipped_low_confidence"}]

OneEach(p) == \A i, j \in DOMAIN p : p[i].finding_id = p[j].finding_id => i = j

\* The first pass of reviewers is one review of each role.
ReviewsOK ==
  /\ request \in Requests
  /\ agent_reviews \in Seq(ReviewType)
  /\ passes \in Nat
  /\ passes = 0 => agent_reviews = <<>> /\ filesRead = <<>> /\ filesLost = <<>>
  /\ passes = 1 => ~SomeRepeat(agent_reviews)

\* Every entry of filesRead is of a role that took on what it had to.
ReadOK ==
  filesRead # <<>> =>
    /\ request.mode = "repo"
    /\ \A k \in DOMAIN filesRead :
         LET role == RolesOf(request)[k]
         IN /\ role \in LlmRoles
            /\ filesRead[k] \cup filesLost[k] =
                 ToSet(PathsOf(Scanned(role, Listed(request.tree))))
            /\ "truncated" \in ToSet(agent_reviews[k].summary)
                 <=> Truncated(role, Listed(request.tree)) > 0
            /\ agent_reviews[k].findings # <<>> => filesRead[k] # {}

VerdictOK == verdict = NoVerdict \/ verdict \in Verdicts(request)

\* The report is that of the reviews, with a TL;DR written from them or without.
ReportFinished ==
  /\ FinalOf(agent_reviews, final_report, report_tldr)
  /\ report_tldr => grounds = Grounds(agent_reviews)

ReportOK ==
  /\ report_tldr \in BOOLEAN
  /\ at \in {"validate_request", "reviewers", "review_decision", "aggregate_results"} =>
       final_report = <<>> /\ ~report_tldr
  /\ at = "notify_rejection" => ~verdict.accepted /\ final_report = <<>> /\ ~report_tldr
  /\ at = "format_report" => final_report = RenderReview(agent_reviews) /\ ~report_tldr
  /\ at = "publish_report" => ReportFinished
  /\ at \in {"persist", "settled"} => ReportFinished \/ (~verdict.accepted /\ final_report = <<>>)

RowWith(p) ==
  [accepted |-> verdict.accepted, category |-> verdict.category,
   overall |-> Label(HighestRank(LatestByRole(agent_reviews))), markdown |-> final_report,
   finding_count |-> Len(FlattenSeq(RowParts(LatestByRole(agent_reviews)))),
   findings |-> FlattenSeq(RowParts(LatestByRole(agent_reviews))), exploit_proposals |-> p]

RowOK ==
  row # NoRow =>
    /\ at = "settled"
    /\ \E p \in Seq(ProposalType) :
         /\ row = RowWith(p)
         /\ OneEach(p)
         /\ Len(p) <= MAX_EXPLOIT_PROPOSALS

TrailInv == ReviewsOK /\ ReadOK /\ VerdictOK /\ ReportOK /\ RowOK

-----------------------------------------------------------------------------
(* What follows from it.                                                    *)

LEMMA RowIs ==
  ASSUME NEW reviews, NEW v, NEW final
  PROVE  ReviewRow(v, reviews, final)
           = [accepted |-> v.accepted, category |-> v.category,
              overall |-> Label(HighestRank(LatestByRole(reviews))), markdown |-> final,
              finding_count |-> Len(FlattenSeq(RowParts(LatestByRole(reviews)))),
              findings |-> FlattenSeq(RowParts(LatestByRole(reviews))),
              exploit_proposals |-> <<>>]
  <1>1. FindingRows(reviews) = FlattenSeq(RowParts(LatestByRole(reviews)))
      BY DEF FindingRows, ReviewsOfRow, RowParts, Rows
  <1> QED BY <1>1 DEF ReviewRow, ReviewsOfRow

\* The facts about a row that was saved with a report.
SavedRow(p) ==
  /\ row.overall = Label(HighestRank(LatestByRole(agent_reviews)))
  /\ row.markdown = final_report
  /\ row.finding_count = Len(FlattenSeq(RowParts(LatestByRole(agent_reviews))))
  /\ row.findings = FlattenSeq(RowParts(LatestByRole(agent_reviews)))
  /\ row.exploit_proposals = p
  /\ OneEach(p)
  /\ Len(p) <= MAX_EXPLOIT_PROPOSALS
  /\ FinalOf(agent_reviews, final_report, report_tldr)

LEMMA SavedFacts ==
  ASSUME TrailInv, Saved
  PROVE  /\ agent_reviews \in Seq(ReviewType) /\ report_tldr \in BOOLEAN
         /\ \E p \in Seq(ProposalType) : SavedRow(p)
  <1>1. /\ at = "settled" /\ row # NoRow /\ row.accepted
        /\ agent_reviews \in Seq(ReviewType) /\ report_tldr \in BOOLEAN
      BY DEF Saved, TrailInv, ReviewsOK, ReportOK
  <1>2. PICK p \in Seq(ProposalType) :
          row = RowWith(p) /\ OneEach(p) /\ Len(p) <= MAX_EXPLOIT_PROPOSALS
      BY <1>1 DEF TrailInv, RowOK
  <1>3. /\ row.accepted = verdict.accepted
        /\ row.overall = Label(HighestRank(LatestByRole(agent_reviews)))
        /\ row.markdown = final_report
        /\ row.finding_count = Len(FlattenSeq(RowParts(LatestByRole(agent_reviews))))
        /\ row.findings = FlattenSeq(RowParts(LatestByRole(agent_reviews)))
        /\ row.exploit_proposals = p
      BY <1>2 DEF RowWith
  <1>4. verdict.accepted
      BY <1>1, <1>3
  <1>5. ReportFinished
      BY <1>1, <1>4 DEF TrailInv, ReportOK
  <1>6. SavedRow(p)
      BY <1>2, <1>3, <1>5 DEF SavedRow, ReportFinished
  <1> QED BY <1>1, <1>6

LEMMA OwnIsBrought == OwnTldr <=> BringsTldr(LatestByRole(agent_reviews))
  BY DEF OwnTldr, BringsTldr

LEMMA AgreementHolds == ASSUME TrailInv PROVE ReportAndRowAgree
  <1> SUFFICES ASSUME Saved PROVE ReportAndRowAgree
      BY DEF ReportAndRowAgree
  <1>1. PICK reviews \in Seq(ReviewType), tldr \in BOOLEAN : reviews = agent_reviews /\ tldr = report_tldr
      BY SavedFacts
  <1>2. PICK p \in Seq(ProposalType) : SavedRow(p)
      BY SavedFacts
  <1> DEFINE latest == LatestByRole(reviews)
             rows == FlattenSeq(RowParts(latest))
             final == final_report
  <1>3. /\ row.overall = Label(HighestRank(latest)) /\ row.markdown = final
        /\ row.finding_count = Len(rows) /\ row.findings = rows
        /\ FinalOf(reviews, final, tldr)
      BY <1>1, <1>2 DEF SavedRow
  <1>4. latest \in Seq(ReviewType)
      BY LatestAreReviews
  <1>5. rows \in Seq(RowFindingType)
      BY <1>4, RowPartsFacts
  <1>6. /\ final \in Seq(LineType)
        /\ \A l \in ToSet(Keep(final, OfKind("overall"))) :
             l.severity = Label(HighestRank(latest))
        /\ \A l \in ToSet(Keep(final, OfKind("count"))) :
             \E i \in DOMAIN latest : \E severity \in Severities : l = Cell(latest[i], severity)
        /\ CountSum(Keep(final, OfKind("count"))) = Len(rows)
        /\ ~(BringsTldr(latest) /\ tldr) =>
             /\ Len(Keep(final, OfKind("finding"))) = Len(rows)
             /\ ToSet(Keep(final, OfKind("finding")))
                  = UNION {SectionFindings(latest[i]) : i \in DOMAIN latest}
      BY <1>3, FinalLines
  <1> HIDE DEF rows, final, latest
  <1>7. \A kind : Lines(row.markdown, kind) = Keep(final, OfKind(kind))
      BY <1>3, <1>6, LinesAreKept
  <1>8. \A s : \A k \in DOMAIN s : s[k] \in ToSet(s)
      BY DEF ToSet
  <1>9. \A k \in DOMAIN Lines(row.markdown, "overall") :
          Lines(row.markdown, "overall")[k].severity = row.overall
    <2> DEFINE s == Lines(row.markdown, "overall")
    <2> SUFFICES ASSUME NEW k \in DOMAIN s PROVE s[k].severity = row.overall
        OBVIOUS
    <2>1. s[k] \in ToSet(Keep(final, OfKind("overall")))
        BY <1>7, <1>8
    <2> QED BY <1>3, <1>6, <2>1
  <1>10. row.finding_count = CountSum(Lines(row.markdown, "count"))
      BY <1>3, <1>6, <1>7
  <1>11. row.finding_count = Len(row.findings)
      BY <1>3
  <1>12. ASSUME NEW k \in DOMAIN Lines(row.markdown, "count"),
                Lines(row.markdown, "count")[k].severity # "info"
         PROVE  Lines(row.markdown, "count")[k].count
                  <= Len(RowsOf(Lines(row.markdown, "count")[k].role,
                                Lines(row.markdown, "count")[k].severity))
    <2>1. PICK l \in ToSet(Keep(final, OfKind("count"))) : l = Lines(row.markdown, "count")[k]
        BY <1>7, <1>8
    <2>2. PICK i \in DOMAIN latest : \E severity \in Severities : l = Cell(latest[i], severity)
        BY <1>6
    <2>3. PICK severity \in Severities : l = Cell(latest[i], severity)
        BY <2>2
    <2>4. latest[i] \in ReviewType /\ severity \in Text
        BY <1>4, SeverityText
    <2>5. /\ l.role = latest[i].role /\ l.severity = severity
          /\ l.count = Len(OfSeverity(latest[i], severity))
        BY <2>3, <2>4, CellFacts
    <2>6. severity # "info"
        BY <1>12, <2>1, <2>5
    <2>7. l.count <= Len(Keep(rows, RowsWith(l.role, severity)))
        BY <1>4, <2>5, <2>6, CountedRows DEF rows
    <2>8. RowsOf(l.role, severity) = Keep(rows, RowsWith(l.role, severity))
      <3> DEFINE A == {f \in ToSet(rows) : f.role = l.role /\ f.severity = severity}
                 B == RowsWith(l.role, severity)
      <3>1. \A x \in ToSet(rows) : x \in RowFindingType
          BY <1>5 DEF ToSet
      <3>2. \A x \in ToSet(rows) : x \in A <=> x \in B
          BY <3>1 DEF RowsWith
      <3>3. RowsOf(l.role, severity) = Keep(rows, A)
          BY <1>3 DEF RowsOf
      <3> HIDE DEF A, B
      <3>4. Keep(rows, A) = Keep(rows, B)
          BY <1>5, <3>2, KeepAgree
      <3> QED BY <3>3, <3>4 DEF B
    <2> QED BY <2>1, <2>5, <2>7, <2>8
  <1>13. ASSUME ~(OwnTldr /\ report_tldr)
         PROVE  /\ Len(Lines(row.markdown, "finding")) = row.finding_count
                /\ \A k \in DOMAIN row.findings : \E l \in DOMAIN Lines(row.markdown, "finding") :
                     /\ Lines(row.markdown, "finding")[l].role = row.findings[k].role
                     /\ Lines(row.markdown, "finding")[l].file = row.findings[k].file
                     /\ Lines(row.markdown, "finding")[l].text = row.findings[k].text
                     /\ StoredSeverity(Lines(row.markdown, "finding")[l].severity)
                          = row.findings[k].severity
    <2> DEFINE shown == Lines(row.markdown, "finding")
    <2>1. ~(BringsTldr(latest) /\ tldr)
        BY <1>1, <1>13, OwnIsBrought DEF latest
    <2>2. /\ Len(shown) = Len(rows)
          /\ ToSet(shown) = UNION {SectionFindings(latest[i]) : i \in DOMAIN latest}
        BY <1>6, <1>7, <2>1
    <2> HIDE DEF shown
    <2>3. ASSUME NEW k \in DOMAIN row.findings
          PROVE  \E l \in DOMAIN shown :
                     /\ shown[l].role = row.findings[k].role
                     /\ shown[l].file = row.findings[k].file
                     /\ shown[l].text = row.findings[k].text
                     /\ StoredSeverity(shown[l].severity) = row.findings[k].severity
      <3>1. PICK x \in ToSet(rows) : x = row.findings[k]
          BY <1>3, <1>8
      <3>2. PICK line \in ToSet(shown) :
              /\ line.role = x.role /\ line.file = x.file /\ line.text = x.text
              /\ StoredSeverity(line.severity) = x.severity
          BY <1>4, <2>2, <3>1, RowIsShown DEF rows
      <3>3. PICK l \in DOMAIN shown : shown[l] = line
          BY DEF ToSet
      <3> QED BY <3>1, <3>2, <3>3
    <2>4. Len(shown) = row.finding_count
        BY <1>3, <2>2
    <2> QED BY <2>3, <2>4 DEF shown
  <1> QED BY <1>9, <1>10, <1>11, <1>12, <1>13 DEF ReportAndRowAgree

LEMMA TldrHolds == ASSUME TrailInv PROVE TldrIsGrounded
  <1> SUFFICES ASSUME Reported PROVE TldrIsGrounded
      BY DEF TldrIsGrounded
  <1>1. PICK reviews \in Seq(ReviewType) : reviews = agent_reviews
      BY DEF TrailInv, ReviewsOK
  <1>2. ReportFinished
      BY DEF Reported, TrailInv, ReportOK
  <1>3. /\ FinalOf(reviews, final_report, report_tldr)
        /\ report_tldr => grounds = Grounds(reviews)
        /\ passes = 1 => ~SomeRepeat(reviews)
      BY <1>1, <1>2 DEF ReportFinished, TrailInv, ReviewsOK
  <1> DEFINE plain == RenderReview(reviews)
             shown == ToSet(Lines(plain, "finding"))
  <1>4. ~report_tldr => final_report = plain
      BY <1>3 DEF FinalOf
  <1>5. ASSUME report_tldr
        PROVE  /\ shown \subseteq grounds
               /\ passes = 1 => grounds = shown
               /\ Len(Lines(final_report, "tldr")) = 1
               /\ \/ OwnTldr
                  \/ Keep(final_report, {l \in ToSet(final_report) : l.kind \notin TldrKinds}) = plain
               /\ \A k \in DOMAIN plain :
                    \/ plain[k] \in ToSet(final_report)
                    \/ /\ OwnHeading(plain) > 0 /\ k >= OwnHeading(plain)
                       /\ plain[k].role = plain[OwnHeading(plain)].role
    <2>1. final_report = SpliceTldr(plain)
        BY <1>3, <1>5 DEF FinalOf
    <2>2. /\ shown \subseteq Grounds(reviews)
          /\ ~SomeRepeat(reviews) => Grounds(reviews) = shown
        BY GroundsFacts
    <2>3. /\ final_report \in Seq(LineType)
          /\ Len(Keep(final_report, OfKind("tldr"))) = 1
          /\ \A k \in DOMAIN plain :
               \/ plain[k] \in ToSet(final_report)
               \/ /\ OwnHeading(plain) > 0 /\ k >= OwnHeading(plain)
                  /\ plain[k].role = plain[OwnHeading(plain)].role
          /\ ~BringsTldr(LatestByRole(reviews)) =>
               Keep(final_report, {l \in ToSet(final_report) : l.kind \notin TldrKinds}) = plain
        BY <2>1, SplicedReport
    <2> HIDE DEF plain, shown
    <2>4. Len(Lines(final_report, "tldr")) = 1
        BY <2>3, LinesAreKept
    <2>5. shown \subseteq grounds /\ (passes = 1 => grounds = shown)
        BY <1>3, <1>5, <2>2
    <2>6. \/ OwnTldr
          \/ Keep(final_report, {l \in ToSet(final_report) : l.kind \notin TldrKinds}) = plain
        BY <1>1, <2>3, OwnIsBrought
    <2> QED BY <2>3, <2>4, <2>5, <2>6
  <1> HIDE DEF plain, shown
  <1>6. LET own == SelectInSeq(plain, LAMBDA l : l.kind = "### TL;DR")
        IN IF ~report_tldr THEN final_report = plain
           ELSE /\ ToSet(Lines(plain, "finding")) \subseteq grounds
                /\ passes = 1 => grounds = ToSet(Lines(plain, "finding"))
                /\ Len(Lines(final_report, "tldr")) = 1
                /\ OwnTldr \/ Keep(final_report, {l \in ToSet(final_report) :
                                                    l.kind \notin {"### TL;DR", "tldr"}}) = plain
                /\ \A k \in DOMAIN plain :
                     \/ plain[k] \in ToSet(final_report)
                     \/ own > 0 /\ k >= own /\ plain[k].role = plain[own].role
      BY <1>4, <1>5 DEF shown, OwnHeading, TldrKinds
  <1> QED BY <1>1, <1>6 DEF TldrIsGrounded, plain

-----------------------------------------------------------------------------
(* The panel.                                                               *)

FirstIn(I) == IF I # {} THEN Min(I) ELSE 0
LastIn(I) == IF I # {} THEN Max(I) ELSE 0

LEMMA FirstInFacts ==
  ASSUME NEW n \in Nat, NEW I, I \subseteq 1 .. n
  PROVE  \/ I = {} /\ FirstIn(I) = 0 /\ ~(FirstIn(I) > 0)
         \/ /\ I # {} /\ FirstIn(I) \in I /\ FirstIn(I) \in 1 .. n /\ FirstIn(I) # 0 /\ FirstIn(I) > 0
            /\ \A i \in I : FirstIn(I) <= i
  <1>1. CASE I = {}
    <2>1. FirstIn(I) = 0
        BY <1>1 DEF FirstIn
    <2>2. ~(FirstIn(I) > 0)
        BY <2>1
    <2> QED BY <1>1, <2>1, <2>2
  <1>2. CASE I # {}
    <2>1. PICK m : m = Min(I)
        OBVIOUS
    <2>2. m \in I /\ m \in 1 .. n /\ m # 0 /\ \A i \in I : m <= i
        BY <1>2, <2>1, LeastPlace
    <2>3. FirstIn(I) = m
        BY <1>2, <2>1 DEF FirstIn
    <2>4. m > 0
        BY <2>2
    <2> QED BY <1>2, <2>2, <2>3, <2>4
  <1> QED BY <1>1, <1>2

LEMMA LastInFacts ==
  ASSUME NEW n \in Nat, NEW I, I \subseteq 1 .. n
  PROVE  \/ I = {} /\ LastIn(I) = 0
         \/ /\ I # {} /\ LastIn(I) \in I /\ LastIn(I) \in 1 .. n /\ LastIn(I) # 0
            /\ \A i \in I : i <= LastIn(I)
  <1>1. CASE I = {}
      BY <1>1 DEF LastIn
  <1>2. CASE I # {}
    <2>1. PICK m : m = Max(I)
        OBVIOUS
    <2>2. I \subseteq 0 .. n
        OBVIOUS
    <2>3. m \in I /\ \A i \in I : i <= m
        BY <1>2, <2>1, <2>2, GreatestOf
    <2>4. m \in 1 .. n
        BY <2>3
    <2>5. m # 0
        BY <2>4
    <2>6. LastIn(I) = m
        BY <1>2, <2>1 DEF LastIn
    <2> QED BY <1>2, <2>3, <2>4, <2>5, <2>6
  <1> QED BY <1>1, <1>2

\* The places of the records of id, of its findings, and of the critical ones.
RecordsOf(p, id) == {i \in 1 .. Len(p) : p[i].finding_id = id}
FindingsOf(rows, id) == {i \in 1 .. Len(rows) : FindingId(rows[i]) = id}
CriticalOf(rows, id) ==
  {i \in 1 .. Len(rows) : FindingId(rows[i]) = id /\ rows[i].severity = "critical"}

Status(p, id) == IF LastIn(RecordsOf(p, id)) = 0 THEN "null" ELSE p[LastIn(RecordsOf(p, id))].status

Entry(p, f) == [finding_id |-> FindingId(f), exploit_status |-> Status(p, FindingId(f))]

LEMMA Places ==
  ASSUME NEW id
  PROVE  /\ RecordOf(id) = FirstIn(RecordsOf(row.exploit_proposals, id))
         /\ FindingOf(id) = FirstIn(FindingsOf(row.findings, id))
         /\ SelectLastInSeq(row.findings, LAMBDA f : FindingId(f) = id /\ f.severity = "critical")
              = LastIn(CriticalOf(row.findings, id))
  <1>1. RecordOf(id) = FirstIn(RecordsOf(row.exploit_proposals, id))
      BY DEF RecordOf, SelectInSeq, FirstIn, RecordsOf
  <1>2. FindingOf(id) = FirstIn(FindingsOf(row.findings, id))
      BY DEF FindingOf, SelectInSeq, FirstIn, FindingsOf
  <1>3. SelectLastInSeq(row.findings, LAMBDA f : FindingId(f) = id /\ f.severity = "critical")
          = LastIn(CriticalOf(row.findings, id))
      BY DEF SelectLastInSeq, LastIn, CriticalOf
  <1> QED BY <1>1, <1>2, <1>3

LEMMA PanelIs ==
  Panel = {Entry(row.exploit_proposals, f) :
             f \in {g \in ToSet(row.findings) : g.severity = "critical"}}
  BY DEF Panel, SelectLastInSeq, LastIn, RecordsOf, Status, Entry

\* What an entry shows and what its button does.
Serves(entry) ==
  LET response == Response(entry.finding_id)
  IN IF entry.exploit_status # "null"
     THEN /\ response = 200
          /\ row.exploit_proposals[RecordOf(entry.finding_id)].status
               = entry.exploit_status
     ELSE \/ response \in {201, 409}
          \/ response = 400 /\ FindingOf(entry.finding_id) <
               SelectLastInSeq(row.findings,
                 LAMBDA f : FindingId(f) = entry.finding_id /\ f.severity = "critical")

\* The statuses of a response.
LEMMA Responses ==
  ASSUME NEW id
  PROVE  /\ RecordOf(id) > 0 => Response(id) = 200
         /\ ~(RecordOf(id) > 0) /\ FindingOf(id) # 0 =>
              \/ Response(id) \in {201, 409}
              \/ Response(id) = 400 /\ row.findings[FindingOf(id)].severity # "critical"
  BY DEF Response

LEMMA EntryServes ==
  ASSUME NEW p \in Seq(ProposalType), row.exploit_proposals = p, OneEach(p),
         NEW rows \in Seq(RowFindingType), row.findings = rows,
         NEW k \in DOMAIN rows, rows[k].severity = "critical"
  PROVE  Serves(Entry(p, rows[k]))
  <1>1. PICK id : id = FindingId(rows[k])
      OBVIOUS
  <1>2. PICK entry : entry = Entry(p, rows[k])
      OBVIOUS
  <1>3. entry.finding_id = id /\ entry.exploit_status = Status(p, id)
      BY <1>1, <1>2 DEF Entry
  <1>4. Len(p) \in Nat /\ Len(rows) \in Nat /\ DOMAIN rows = 1 .. Len(rows) /\ DOMAIN p = 1 .. Len(p)
      BY LenProperties
  <1> DEFINE R == RecordsOf(p, id)
             F == FindingsOf(rows, id)
             C == CriticalOf(rows, id)
  <1>5. R \subseteq 1 .. Len(p) /\ F \subseteq 1 .. Len(rows) /\ C \subseteq 1 .. Len(rows)
      BY DEF RecordsOf, FindingsOf, CriticalOf
  <1>6. k \in F /\ k \in C
      BY <1>1, <1>4 DEF FindingsOf, CriticalOf
  <1>7. /\ RecordOf(id) = FirstIn(R) /\ FindingOf(id) = FirstIn(F)
        /\ SelectLastInSeq(row.findings, LAMBDA f : FindingId(f) = id /\ f.severity = "critical")
             = LastIn(C)
      BY Places
  <1>8. CASE R = {}
    <2>1. LastIn(R) = 0 /\ ~(RecordOf(id) > 0)
      <3> HIDE DEF R, F, C
      <3>1. LastIn(R) = 0
          BY <1>8 DEF LastIn
      <3>2. ~(FirstIn(R) > 0)
          BY <1>4, <1>5, <1>8, FirstInFacts
      <3> QED BY <1>7, <3>1, <3>2
    <2>2. entry.exploit_status = "null"
        BY <1>3, <2>1 DEF Status
    <2>3. FirstIn(F) \in F /\ FirstIn(F) # 0 /\ FirstIn(F) \in 1 .. Len(rows)
      <3> HIDE DEF R, F, C
      <3> QED BY <1>4, <1>5, <1>6, FirstInFacts
    <2>4. LastIn(C) \in C /\ LastIn(C) \in 1 .. Len(rows) /\ k <= LastIn(C)
      <3> HIDE DEF R, F, C
      <3> QED BY <1>4, <1>5, <1>6, LastInFacts
    <2>5. \A i \in F : FirstIn(F) <= i
      <3> HIDE DEF R, F, C
      <3> QED BY <1>4, <1>5, <1>6, FirstInFacts
    <2>6. LastIn(C) \in F
        BY <2>4 DEF CriticalOf, FindingsOf
    <2>7. FirstIn(F) <= LastIn(C)
        BY <2>5, <2>6
    <2>8. ASSUME rows[FirstIn(F)].severity # "critical" PROVE FirstIn(F) < LastIn(C)
      <3>1. rows[LastIn(C)].severity = "critical"
          BY <2>4 DEF CriticalOf
      <3>2. FirstIn(F) # LastIn(C)
          BY <2>8, <3>1
      <3> HIDE DEF R, F, C
      <3>3. ASSUME NEW x \in 1 .. Len(rows), NEW y \in 1 .. Len(rows), x <= y, x # y PROVE x < y
          BY <1>4, <3>3
      <3> QED BY <2>3, <2>4, <2>7, <3>2, <3>3
    <2>9. \/ Response(id) \in {201, 409}
          \/ Response(id) = 400 /\ rows[FindingOf(id)].severity # "critical"
      <3> HIDE DEF R, F, C
      <3> QED BY <1>7, <2>1, <2>3, Responses
    <2>10. \/ Response(id) \in {201, 409}
           \/ Response(id) = 400 /\ FindingOf(id) < LastIn(C)
      <3> HIDE DEF R, F, C
      <3> QED BY <1>7, <2>8, <2>9
    <2> HIDE DEF C, F, R
    <2>11. Serves(entry)
        BY <1>3, <1>7, <2>2, <2>10 DEF Serves
    <2> QED BY <1>2, <2>11
  <1>9. CASE R # {}
    <2>1. FirstIn(R) \in R /\ FirstIn(R) > 0
      <3> HIDE DEF R, F, C
      <3> QED BY <1>4, <1>5, <1>9, FirstInFacts
    <2>2. LastIn(R) \in R /\ LastIn(R) # 0
      <3> HIDE DEF R, F, C
      <3> QED BY <1>4, <1>5, <1>9, LastInFacts
    <2>3. FirstIn(R) = LastIn(R)
        BY <1>4, <2>1, <2>2 DEF RecordsOf, OneEach
    <2>4. Response(id) = 200
        BY <1>7, <2>1, Responses
    <2>5. entry.exploit_status = p[FirstIn(R)].status
        BY <1>3, <2>2, <2>3 DEF Status
    <2>6. entry.exploit_status # "null"
      <3>1. FirstIn(R) \in DOMAIN p
          BY <1>4, <1>5, <2>1
      <3>2. p[FirstIn(R)] \in ProposalType
          BY <3>1
      <3> QED BY <2>5, <3>2 DEF ProposalType
    <2> HIDE DEF R, F, C
    <2>7. Serves(entry)
        BY <1>3, <1>7, <2>4, <2>5, <2>6 DEF Serves
    <2> QED BY <1>2, <2>7
  <1> QED BY <1>8, <1>9

LEMMA PanelHolds == ASSUME TrailInv PROVE PanelIsServed
  <1> SUFFICES ASSUME Saved PROVE PanelIsServed
      BY DEF PanelIsServed
  <1>1. PICK reviews \in Seq(ReviewType), tldr \in BOOLEAN : reviews = agent_reviews /\ tldr = report_tldr
      BY SavedFacts
  <1>2. PICK p \in Seq(ProposalType) : SavedRow(p)
      BY SavedFacts
  <1> DEFINE latest == LatestByRole(reviews)
  <1>3. latest \in Seq(ReviewType)
      BY LatestAreReviews
  <1>4. PICK rows \in Seq(RowFindingType) : rows = FlattenSeq(RowParts(latest))
      BY <1>3, RowPartsFacts
  <1>5. /\ row.markdown = final_report /\ row.findings = rows
        /\ row.exploit_proposals = p /\ OneEach(p) /\ Len(p) <= MAX_EXPLOIT_PROPOSALS
        /\ FinalOf(reviews, final_report, tldr)
      BY <1>1, <1>2, <1>4 DEF SavedRow
  <1>6. /\ final_report \in Seq(LineType)
        /\ \A l \in ToSet(Keep(final_report, OfKind("critical"))) : Calls(l, latest)
      BY <1>5, FinalLines
  <1> HIDE DEF latest
  <1>7. Panel = {Entry(p, f) : f \in {g \in ToSet(rows) : g.severity = "critical"}}
      BY <1>5, PanelIs
  <1>8. ASSUME NEW k \in DOMAIN Lines(row.markdown, "critical")
        PROVE  \E entry \in Panel :
                 LET l == Lines(row.markdown, "critical")[k]
                 IN /\ entry.finding_id[1] = l.role
                    /\ entry.finding_id[2] = l.file
                    /\ entry.finding_id[4] = l.text
    <2>1. Lines(row.markdown, "critical") = Keep(final_report, OfKind("critical"))
        BY <1>5, <1>6, LinesAreKept
    <2>2. PICK l \in ToSet(Keep(final_report, OfKind("critical"))) : l = Lines(row.markdown, "critical")[k]
        BY <2>1 DEF ToSet
    <2>3. PICK x \in ToSet(rows) :
            x.severity = "critical" /\ x.role = l.role /\ x.file = l.file /\ x.text = l.text
        BY <1>3, <1>4, <1>6, CallIsARow
    <2>4. Entry(p, x) \in Panel
        BY <1>7, <2>3
    <2>5. Entry(p, x).finding_id = <<x.role, x.file, x.line, x.text>>
        BY DEF Entry, FindingId
    <2>6. /\ Entry(p, x).finding_id[1] = x.role
          /\ Entry(p, x).finding_id[2] = x.file
          /\ Entry(p, x).finding_id[4] = x.text
        BY <2>5
    <2> QED BY <2>2, <2>3, <2>4, <2>6
  <1>9. ASSUME NEW entry \in Panel PROVE Serves(entry)
    <2>1. PICK f \in ToSet(rows) : f.severity = "critical" /\ entry = Entry(p, f)
        BY <1>7
    <2>2. PICK k \in DOMAIN rows : f = rows[k]
        BY DEF ToSet
    <2> QED BY <1>5, <2>1, <2>2, EntryServes
  <1>10. Len(row.exploit_proposals) <= MAX_EXPLOIT_PROPOSALS
      BY <1>5
  <1>11. \A entry \in Panel : Serves(entry)
      BY <1>9
  <1> QED BY <1>8, <1>10, <1>11 DEF PanelIsServed, Serves

-----------------------------------------------------------------------------
(* What is read.                                                            *)

\* The reasons of the rules, and those of the judge.
LEMMA ReasonsOf ==
  ASSUME NEW r, NEW v \in Verdicts(r), r.mode = "pr",
         NEW reason \in {"autogenerated", "docs_only"}, v.category = reason
  PROVE  Applies(reason, r)
  <1> DEFINE m == Prefilter(r)
             I == {i \in 1 .. Len(Reasons) : Applies(Reasons[i], r)}
  <1>1. m = FirstIn(I)
      BY DEF Prefilter, SelectInSeq, FirstIn
  <1>2. Len(Reasons) = 4
      BY DEF Reasons
  <1>3. I \subseteq 1 .. 4
      BY <1>2
  <1>4. CASE m > 0
    <2>1. Verdicts(r) = {Verdict(FALSE, Reasons[m])}
        BY <1>4 DEF Verdicts
    <2>2. Reasons[m] = reason
        BY <2>1 DEF Verdict
    <2>3. m \in I
      <3> HIDE DEF m, I
      <3>1. 4 \in Nat
          OBVIOUS
      <3> QED BY <1>1, <1>3, <1>4, <3>1, FirstInFacts
    <2> QED BY <2>2, <2>3
  <1>5. CASE ~(m > 0)
    <2>1. Verdicts(r) = {JudgeVerdict(a) : a \in {"accept", "no answer", "reject",
                                                   "reject, uncategorised"}}
        BY <1>5 DEF Verdicts
    <2>2. PICK a \in {"accept", "no answer", "reject", "reject, uncategorised"} : v = JudgeVerdict(a)
        BY <2>1
    <2>3. v.category \in {"trolling", "other", "accepted"}
        BY <2>2 DEF JudgeVerdict, Verdict
    <2> QED BY <2>3
  <1> QED BY <1>4, <1>5

LEMMA RefusalHolds ==
  ASSUME TrailInv, request.mode = "pr", verdict.category \in {"autogenerated", "docs_only"},
         ~request.marker, NEW i \in DOMAIN request.files, NEW role \in LlmRoles,
         InScope(role, request.files[i])
  PROVE  ReadAndRefused(request.files[i])
  <1>1. request \in Requests /\ request.files \in Seq(PathType) /\ WellSplit(request.files[i].name)
      BY RequestsAssumption DEF TrailInv, ReviewsOK
  <1>2. PICK path \in PathType : path = request.files[i]
    <2>1. request.files[i] \in PathType
        BY <1>1
    <2> QED BY <2>1
  <1>3. verdict \in Verdicts(request)
    <2>1. NoVerdict.category = None
        BY DEF NoVerdict, Verdict
    <2>2. verdict # NoVerdict
        BY <2>1 DEF None
    <2> QED BY <2>2 DEF TrailInv, VerdictOK
  <1>4. CASE verdict.category = "autogenerated"
    <2>1. Applies("autogenerated", request)
        BY <1>3, <1>4, ReasonsOf
    <2>2. {n \in DOMAIN request.files : IsAutogenFile(request.files[n])} = DOMAIN request.files
        BY <2>1 DEF Applies, AllChanged
    <2>3. IsAutogenFile(path)
        BY <1>2, <2>2
    <2> QED BY <1>1, <1>2, <2>3, AutogenIsSkipped DEF ReadAndRefused
  <1>5. CASE verdict.category = "docs_only"
    <2>1. Applies("docs_only", request)
        BY <1>3, <1>5, ReasonsOf
    <2>2. {n \in DOMAIN request.files : IsDocFile(request.files[n])} = DOMAIN request.files
        BY <2>1 DEF Applies, AllChanged
    <2>3. IsDocFile(path)
        BY <1>2, <2>2
    <2> QED BY <1>1, <1>2, <2>3, DocFileIsSkipped
  <1> QED BY <1>4, <1>5

LEMMA SnapshotFacts ==
  ASSUME NEW r \in Requests, r.mode = "repo"
  PROVE  /\ r.tree \in Seq(EntryType)
         /\ Listed(r.tree) \in Seq(EntryType)
         /\ ToSet(Listed(r.tree)) \subseteq ToSet(r.tree)
         /\ PathsDiffer(Listed(r.tree))
  <1>1. r.tree \in Seq(EntryType)
      BY RequestsAssumption
  <1>2. PathsDiffer(Listed(r.tree))
      BY RequestsAssumption DEF PathsDiffer
  <1> QED BY <1>1, <1>2, ListedType

\* Listed files are those that are in scope or skipped.
LEMMA LeftOutIsOutOfScope ==
  ASSUME NEW role, NEW tree \in Seq(EntryType), NEW entry \in ToSet(tree)
  PROVE  MatchesPath(role, entry.path.name) /\ ~LeftOut(role, entry)
           <=> entry \in ToSet(Listed(tree)) /\ InScope(role, entry.path)
  <1> DEFINE S == {e \in ToSet(tree) : /\ e.kind = "file"
                                       /\ FirstPart(e.path) # ".git"
                                       /\ ~e.large}
  <1>1. Listed(tree) = Keep(tree, S)
      BY DEF Listed
  <1>2. entry \in S <=> entry.kind = "file" /\ FirstPart(entry.path) # ".git" /\ ~entry.large
      OBVIOUS
  <1> HIDE DEF S
  <1>3. ToSet(Listed(tree)) = ToSet(tree) \cap S
      BY <1>1, KeepSet
  <1> QED BY <1>2, <1>3 DEF LeftOut, InScope

LEMMA PassHolds == ASSUME TrailInv PROVE EveryFileIsAccountedFor
  <1> SUFFICES ASSUME NEW k \in DOMAIN filesRead
               PROVE  LET role  == RolesOf(request)[k]
                          taken == filesRead[k] \cup filesLost[k]
                          untaken == {i \in DOMAIN request.tree :
                                        /\ MatchesPath(role, request.tree[i].path.name)
                                        /\ ~LeftOut(role, request.tree[i])
                                        /\ request.tree[i].path \notin taken}
                      IN /\ \A path \in taken : \E i \in DOMAIN request.tree :
                              /\ request.tree[i].path = path
                              /\ MatchesPath(role, path.name) /\ ~LeftOut(role, request.tree[i])
                         /\ untaken # {} => Cardinality(taken) = MAX_FILES_PER_AGENT
                         /\ (untaken # {}) <=> "truncated" \in ToSet(agent_reviews[k].summary)
                         /\ agent_reviews[k].findings # <<>> => filesRead[k] # {}
      BY DEF EveryFileIsAccountedFor
  <1> DEFINE role == RolesOf(request)[k]
             listed == Listed(request.tree)
             got == ToSet(PathsOf(Scanned(role, listed)))
             missed == {entry \in ToSet(listed) : InScope(role, entry.path) /\ entry.path \notin got}
             taken == filesRead[k] \cup filesLost[k]
             untaken == {i \in DOMAIN request.tree :
                           /\ MatchesPath(role, request.tree[i].path.name)
                           /\ ~LeftOut(role, request.tree[i])
                           /\ request.tree[i].path \notin taken}
  <1>1. filesRead # <<>>
      OBVIOUS
  <1>2. /\ request \in Requests /\ request.mode = "repo"
        /\ taken = got
        /\ "truncated" \in ToSet(agent_reviews[k].summary) <=> Truncated(role, listed) > 0
        /\ agent_reviews[k].findings # <<>> => filesRead[k] # {}
      BY <1>1 DEF TrailInv, ReviewsOK, ReadOK
  <1>3. /\ request.tree \in Seq(EntryType) /\ listed \in Seq(EntryType) /\ PathsDiffer(listed)
        /\ ToSet(listed) \subseteq ToSet(request.tree)
      BY <1>2, SnapshotFacts
  <1>4. /\ \A path \in got : \E entry \in ToSet(listed) : entry.path = path /\ InScope(role, path)
        /\ missed # {} <=> Truncated(role, listed) > 0
        /\ missed # {} => Cardinality(got) = MAX_FILES_PER_AGENT
    <2> HIDE DEF role, listed
    <2> QED BY <1>3, ScannedFacts
  <1> HIDE DEF role, listed, got, taken
  <1>5. ASSUME NEW i \in DOMAIN request.tree
        PROVE  MatchesPath(role, request.tree[i].path.name) /\ ~LeftOut(role, request.tree[i])
                 <=> request.tree[i] \in ToSet(listed) /\ InScope(role, request.tree[i].path)
    <2>1. PICK entry \in ToSet(request.tree) : entry = request.tree[i]
        BY DEF ToSet
    <2> QED BY <1>3, <2>1, LeftOutIsOutOfScope DEF listed
  <1>6. untaken # {} <=> missed # {}
    <2>1. ASSUME NEW i \in untaken PROVE request.tree[i] \in missed
        BY <1>2, <1>5
    <2>2. ASSUME NEW entry \in missed PROVE \E i \in DOMAIN request.tree : i \in untaken
      <3>1. PICK i \in DOMAIN request.tree : entry = request.tree[i]
          BY <1>3 DEF ToSet
      <3> QED BY <1>2, <1>5, <3>1
    <2> QED BY <2>1, <2>2
  <1>7. ASSUME NEW path \in taken
        PROVE  \E i \in DOMAIN request.tree :
                 /\ request.tree[i].path = path
                 /\ MatchesPath(role, path.name) /\ ~LeftOut(role, request.tree[i])
    <2>1. PICK entry \in ToSet(listed) : entry.path = path /\ InScope(role, path)
        BY <1>2, <1>4
    <2>2. PICK i \in DOMAIN request.tree : entry = request.tree[i]
        BY <1>3 DEF ToSet
    <2> QED BY <1>5, <2>1, <2>2
  <1> HIDE DEF missed, untaken
  <1>8. /\ untaken # {} => Cardinality(taken) = MAX_FILES_PER_AGENT
        /\ (untaken # {}) <=> "truncated" \in ToSet(agent_reviews[k].summary)
      BY <1>2, <1>4, <1>6
  <1> QED BY <1>2, <1>7, <1>8 DEF role, taken, untaken

-----------------------------------------------------------------------------
(* The steps.                                                               *)

LEMMA RolesFacts ==
  ASSUME NEW r
  PROVE  /\ RolesOf(r) \in Seq(Text)
         /\ ~Repeats(RolesOf(r))
         /\ r.mode # "pr" => \A i \in DOMAIN RolesOf(r) : RolesOf(r)[i] \in LlmRoles
  <1> DEFINE S == {role \in ToSet(Roles) : /\ r.scope = {} \/ role \in r.scope
                                           /\ r.mode = "pr" \/ role \in LlmRoles}
  <1>1. RolesOf(r) = Keep(Roles, S)
      BY DEF RolesOf
  <1>2. Roles \in Seq(Text)
    <2>1. /\ "dependency" \in Text /\ "injection" \in Text /\ "owasp" \in Text
          /\ "configuration" \in Text
        BY DEF Text
    <2> QED BY <2>1 DEF Roles
  <1>3. ~Repeats(Roles)
    <2>1. DOMAIN Roles = 1 .. 4
        BY DEF Roles
    <2>2. /\ Roles[1] = "dependency" /\ Roles[2] = "injection" /\ Roles[3] = "owasp"
          /\ Roles[4] = "configuration"
        BY DEF Roles
    <2>3. \A i \in 1 .. 4 : i = 1 \/ i = 2 \/ i = 3 \/ i = 4
        OBVIOUS
    <2> QED BY <2>1, <2>2, <2>3 DEF Repeats
  <1>4. r.mode # "pr" => S \subseteq LlmRoles
      OBVIOUS
  <1> HIDE DEF S
  <1>5. Keep(Roles, S) \in Seq(Text) /\ ~Repeats(Keep(Roles, S))
      BY <1>2, <1>3, KeepType, KeepDistinct
  <1>6. ToSet(Keep(Roles, S)) \subseteq S
      BY <1>2, KeepSet
  <1>7. ASSUME r.mode # "pr", NEW i \in DOMAIN Keep(Roles, S)
        PROVE  Keep(Roles, S)[i] \in LlmRoles
    <2>1. Keep(Roles, S)[i] \in ToSet(Keep(Roles, S))
        BY DEF ToSet
    <2> QED BY <1>4, <1>6, <1>7, <2>1
  <1> QED BY <1>1, <1>5, <1>7

\* A sequence given place by place.
LEMMA GivenByPlace ==
  ASSUME NEW U, NEW s \in Seq(U), NEW T, NEW e, DOMAIN e = DOMAIN s,
         e = [i \in DOMAIN s |-> e[i]], \A i \in DOMAIN s : e[i] \in T
  PROVE  e \in Seq(T)
  <1>1. Len(s) \in Nat /\ DOMAIN s = 1 .. Len(s)
      BY LenProperties
  <1>2. e \in [1 .. Len(s) -> T]
      BY <1>1
  <1> QED BY <1>1, <1>2, SeqDef

\* One answer of each role.
LEMMA PassOfAnswers ==
  ASSUME NEW roles \in Seq(Text), NEW answer \in [DOMAIN roles -> Answers]
  PROVE  LET new == [i \in DOMAIN roles |-> AgentReview(roles[i], Parsed(answer[i]))]
         IN /\ new \in Seq(ReviewType)
            /\ ~Repeats(roles) => ~SomeRepeat(new)
  <1> DEFINE new == [i \in DOMAIN roles |-> AgentReview(roles[i], Parsed(answer[i]))]
  <1>1. ASSUME NEW i \in DOMAIN roles
        PROVE  new[i] \in ReviewType /\ new[i].role = roles[i]
    <2>1. PICK role \in Text : role = roles[i]
        BY ElementOfSeq, LenProperties
    <2>2. PICK a \in AnswerType : a = answer[i]
        BY AnswersAssumption
    <2>3. Parsed(a) \in ParsedType
        BY ParsedIsTyped
    <2>4. AgentReview(role, Parsed(a)) \in ReviewType
        BY <2>3, ReviewIsTyped
    <2>5. AgentReview(role, Parsed(a)).role = role
        BY DEF AgentReview
    <2>6. new[i] = AgentReview(role, Parsed(a))
        BY <2>1, <2>2
    <2> QED BY <2>1, <2>4, <2>5, <2>6
  <1>2. DOMAIN new = DOMAIN roles /\ new = [i \in DOMAIN roles |-> new[i]]
      OBVIOUS
  <1> HIDE DEF new
  <1>3. new \in Seq(ReviewType)
      BY <1>1, <1>2, GivenByPlace
  <1>4. ~Repeats(roles) => ~SomeRepeat(new)
      BY <1>1, <1>2 DEF Repeats, SomeRepeat
  <1> QED BY <1>3, <1>4 DEF new

\* What a pass over a snapshot makes of a role's files.
LEMMA PassOfFiles ==
  ASSUME NEW r \in Requests, r.mode = "repo", NEW role \in Text, NEW answered, NEW answer,
         NEW some, some \subseteq DOMAIN Paths(role), request = r,
         \A i \in some : answer[<<role, i>>] \in Answers
  PROVE  LET listed == Listed(r.tree)
             new == RepoReview(role, Paths(role), [i \in some |-> Parsed(answer[<<role, i>>])],
                               Truncated(role, listed))
         IN /\ new \in ReviewType
            /\ new.role = role
            /\ Paths(role) = PathsOf(Scanned(role, listed))
            /\ "truncated" \in ToSet(new.summary) <=> Truncated(role, listed) > 0
            /\ new.findings # <<>> => \E i \in some : Parsed(answer[<<role, i>>]).sound
  <1> DEFINE listed == Listed(r.tree)
             parsed == [i \in some |-> Parsed(answer[<<role, i>>])]
  <1>1. listed \in Seq(EntryType) /\ PathsDiffer(listed)
      BY SnapshotFacts
  <1>2. Paths(role) = PathsOf(Scanned(role, listed))
      BY DEF Paths, PathsOf
  <1>3. DOMAIN parsed = some /\ \A i \in some : parsed[i] = Parsed(answer[<<role, i>>])
      OBVIOUS
  <1>4. ASSUME NEW i \in some
        PROVE  parsed[i] \in ParsedType /\ "truncated" \notin ToSet(parsed[i].summary)
    <2>1. PICK a \in AnswerType : a = answer[<<role, i>>]
        BY AnswersAssumption
    <2>2. parsed[i] = Parsed(a)
        BY <2>1
    <2> QED BY <2>2, ParsedIsTyped
  <1> HIDE DEF parsed, listed
  <1>5. PathsOf(Scanned(role, listed)) \in Seq(PathType) /\ Truncated(role, listed) \in Nat
      BY <1>1, ScannedFacts
  <1>6. PICK paths \in Seq(PathType) : paths = Paths(role)
      BY <1>2, <1>5
  <1>7. PICK t \in Nat : t = Truncated(role, listed)
      BY <1>5
  <1>8. DOMAIN parsed \subseteq DOMAIN paths
      BY <1>3, <1>6
  <1>9. \A i \in DOMAIN parsed :
          parsed[i] \in ParsedType /\ "truncated" \notin ToSet(parsed[i].summary)
      BY <1>3, <1>4
  <1>10. /\ RepoReview(role, paths, parsed, t) \in ReviewType
         /\ RepoReview(role, paths, parsed, t).role = role
         /\ "truncated" \in ToSet(RepoReview(role, paths, parsed, t).summary) <=> t > 0
         /\ RepoReview(role, paths, parsed, t).findings # <<>> =>
              \E i \in DOMAIN parsed : parsed[i].sound
      BY <1>8, <1>9, RepoReviewFacts
  <1>11. RepoReview(role, paths, parsed, t).findings # <<>> =>
           \E i \in some : Parsed(answer[<<role, i>>]).sound
      BY <1>3, <1>10
  <1> QED BY <1>2, <1>6, <1>7, <1>10, <1>11 DEF parsed, listed

LEMMA FirstState == TrailInit => TrailInv
  <1> SUFFICES ASSUME TrailInit PROVE TrailInv
      OBVIOUS
  <1> USE DEF TrailInit
  <1>1. ReviewsOK
    <2>1. agent_reviews \in Seq(ReviewType)
        OBVIOUS
    <2> QED BY <2>1 DEF ReviewsOK
  <1>2. ReadOK
      BY DEF ReadOK
  <1>3. VerdictOK
      BY DEF VerdictOK
  <1>4. ReportOK
      BY DEF ReportOK
  <1>5. RowOK
      BY DEF RowOK
  <1> QED BY <1>1, <1>2, <1>3, <1>4, <1>5 DEF TrailInv

LEMMA SameReviews ==
  ASSUME ReviewsOK, ReadOK, UNCHANGED <<request, agent_reviews, passes, filesRead, filesLost>>
  PROVE  ReviewsOK' /\ ReadOK'
  BY DEF ReviewsOK, ReadOK

LEMMA SameVerdict ==
  ASSUME VerdictOK, UNCHANGED <<request, verdict>> PROVE VerdictOK'
  BY DEF VerdictOK

LEMMA NoRowYet ==
  ASSUME RowOK, at # "settled", row' = row PROVE RowOK'
  BY DEF RowOK

LEMMA SameFinish ==
  ASSUME UNCHANGED <<agent_reviews, final_report, report_tldr, grounds>>
  PROVE  ReportFinished' <=> ReportFinished
  BY DEF ReportFinished

LEMMA ReviewsStep ==
  ASSUME TrailInv, ReviewPullRequest PROVE ReviewsOK' /\ ReadOK'
  <1>1. PICK roles \in Seq(Text) : roles = RolesOf(request) /\ ~Repeats(roles)
      BY RolesFacts
  <1>2. PICK answer \in [DOMAIN roles -> Answers] :
          agent_reviews' = agent_reviews
            \o [i \in DOMAIN roles |-> AgentReview(roles[i], Parsed(answer[i]))]
      BY <1>1 DEF ReviewPullRequest
  <1>3. PICK new \in Seq(ReviewType) : agent_reviews' = agent_reviews \o new /\ ~SomeRepeat(new)
      BY <1>1, <1>2, PassOfAnswers
  <1>4. /\ request \in Requests /\ agent_reviews \in Seq(ReviewType) /\ passes \in Nat
        /\ passes = 0 => agent_reviews = <<>> /\ filesRead = <<>> /\ filesLost = <<>>
        /\ filesRead # <<>> => request.mode = "repo"
      BY DEF TrailInv, ReviewsOK, ReadOK
  <1>5. /\ request' = request /\ filesRead' = filesRead /\ passes' = passes + 1
        /\ request.mode = "pr"
      BY DEF ReviewPullRequest
  <1>6. filesRead' = <<>>
      BY <1>4, <1>5
  <1>7. agent_reviews' \in Seq(ReviewType)
      BY <1>3, <1>4, JoinFacts
  <1>8. passes' \in Nat /\ passes' # 0 /\ (passes' = 1 => passes = 0)
      BY <1>4, <1>5
  <1>9. passes = 0 => agent_reviews' = new
      BY <1>3, <1>4, ConcatEmptySeq
  <1>10. passes' = 1 => ~SomeRepeat(agent_reviews')
      BY <1>3, <1>8, <1>9
  <1>11. ReviewsOK'
      BY <1>4, <1>5, <1>7, <1>8, <1>10 DEF ReviewsOK
  <1>12. ReadOK'
      BY <1>6 DEF ReadOK
  <1> QED BY <1>11, <1>12

LEMMA PassStep ==
  ASSUME TrailInv, ReviewRepository PROVE ReviewsOK' /\ ReadOK'
  <1> DEFINE listed == Listed(request.tree)
             roles == RolesOf(request)
             files == UNION {{role} \X DOMAIN Paths(role) : role \in ToSet(roles)}
             Some(answered, role) == {n \in DOMAIN Paths(role) : <<role, n>> \in answered}
             Read(answered, answer, role) ==
               {Paths(role)[i] : i \in {n \in DOMAIN Paths(role) :
                                          /\ <<role, n>> \in answered
                                          /\ Parsed(answer[<<role, n>>]).sound}}
             New(answered, answer, role) ==
               RepoReview(role, Paths(role),
                          [i \in Some(answered, role) |-> Parsed(answer[<<role, i>>])],
                          Truncated(role, listed))
  <1>1. /\ request \in Requests /\ request.mode = "repo"
        /\ request' = request /\ passes' = 1
        /\ filesLost' = [k \in DOMAIN roles |-> ToSet(Paths(roles[k])) \ filesRead'[k]]
      BY DEF TrailInv, ReviewsOK, ReviewRepository
  <1>2. roles \in Seq(Text) /\ ~Repeats(roles) /\ \A i \in DOMAIN roles : roles[i] \in LlmRoles
      BY <1>1, RolesFacts
  <1>3. PICK answered \in SUBSET files : \E answer \in [answered -> Answers] :
          /\ agent_reviews' = [k \in DOMAIN roles |-> New(answered, answer, roles[k])]
          /\ filesRead' = [k \in DOMAIN roles |-> Read(answered, answer, roles[k])]
      BY DEF ReviewRepository
  <1>4. PICK answer \in [answered -> Answers] :
          /\ agent_reviews' = [k \in DOMAIN roles |-> New(answered, answer, roles[k])]
          /\ filesRead' = [k \in DOMAIN roles |-> Read(answered, answer, roles[k])]
      BY <1>3
  <1> HIDE DEF listed, roles, files
  <1>5. ASSUME NEW k \in DOMAIN roles
        PROVE  /\ agent_reviews'[k] \in ReviewType
               /\ agent_reviews'[k].role = roles[k]
               /\ Paths(roles[k]) = PathsOf(Scanned(roles[k], listed))
               /\ "truncated" \in ToSet(agent_reviews'[k].summary) <=> Truncated(roles[k], listed) > 0
               /\ filesRead'[k] \subseteq ToSet(Paths(roles[k]))
               /\ agent_reviews'[k].findings # <<>> => filesRead'[k] # {}
    <2>1. PICK role \in Text : role = roles[k]
        BY <1>2, ElementOfSeq, LenProperties
    <2> DEFINE some == Some(answered, role)
               new == RepoReview(role, Paths(role), [i \in some |-> Parsed(answer[<<role, i>>])],
                                 Truncated(role, listed))
               read == Read(answered, answer, role)
    <2>2. agent_reviews'[k] = new /\ filesRead'[k] = read
        BY <1>4, <2>1
    <2>3. some \subseteq DOMAIN Paths(role) /\ \A i \in some : answer[<<role, i>>] \in Answers
        OBVIOUS
    <2>4. read \subseteq ToSet(Paths(role))
        BY DEF ToSet
    <2>5. ASSUME NEW i \in some, Parsed(answer[<<role, i>>]).sound PROVE read # {}
      <3>1. Paths(role)[i] \in read
          BY <2>5
      <3> QED BY <3>1
    <2> HIDE DEF some, read
    <2>6. /\ new \in ReviewType
          /\ new.role = role
          /\ Paths(role) = PathsOf(Scanned(role, listed))
          /\ "truncated" \in ToSet(new.summary) <=> Truncated(role, listed) > 0
          /\ new.findings # <<>> => \E i \in some : Parsed(answer[<<role, i>>]).sound
        BY <1>1, <2>3, PassOfFiles DEF listed
    <2> HIDE DEF new
    <2> QED BY <2>1, <2>2, <2>4, <2>5, <2>6
  <1>6. DOMAIN agent_reviews' = DOMAIN roles
        /\ agent_reviews' = [k \in DOMAIN roles |-> agent_reviews'[k]]
      BY <1>4
  <1>7. agent_reviews' \in Seq(ReviewType)
      BY <1>2, <1>5, <1>6, GivenByPlace
  <1>8. ~SomeRepeat(agent_reviews')
      BY <1>2, <1>5, <1>6 DEF Repeats, SomeRepeat
  <1>9. ReviewsOK'
      BY <1>1, <1>7, <1>8 DEF ReviewsOK
  <1>10. DOMAIN filesRead' = DOMAIN roles
      BY <1>4
  <1>11. ASSUME NEW k \in DOMAIN filesRead'
         PROVE  LET role == RolesOf(request')[k]
                IN /\ role \in LlmRoles
                   /\ filesRead'[k] \cup filesLost'[k] =
                        ToSet(PathsOf(Scanned(role, Listed(request'.tree))))
                   /\ "truncated" \in ToSet(agent_reviews'[k].summary)
                        <=> Truncated(role, Listed(request'.tree)) > 0
                   /\ agent_reviews'[k].findings # <<>> => filesRead'[k] # {}
    <2>1. k \in DOMAIN roles /\ filesLost'[k] = ToSet(Paths(roles[k])) \ filesRead'[k]
        BY <1>1, <1>10
    <2>2. RolesOf(request') = roles /\ Listed(request'.tree) = listed
        BY <1>1 DEF roles, listed
    <2>3. filesRead'[k] \cup filesLost'[k] = ToSet(Paths(roles[k]))
        BY <1>5, <2>1
    <2> QED BY <1>2, <1>5, <2>1, <2>2, <2>3
  <1>12. ReadOK'
      BY <1>1, <1>11 DEF ReadOK
  <1> QED BY <1>9, <1>12

\* A click that is served adds one record, of a finding that has none.
LEMMA ClickStep ==
  ASSUME TrailInv, row # NoRow, NEW k \in DOMAIN row.findings,
         CreateExploit(FindingId(row.findings[k]))
  PROVE  RowOK'
  <1>1. PICK id : id = FindingId(row.findings[k])
      OBVIOUS
  <1>2. CreateExploit(id)
      BY <1>1
  <1>3. PICK reviews \in Seq(ReviewType) : reviews = agent_reviews
      BY DEF TrailInv, ReviewsOK
  <1>4. at = "settled"
      BY DEF TrailInv, RowOK
  <1>5. PICK p \in Seq(ProposalType) :
          row = RowWith(p) /\ OneEach(p) /\ Len(p) <= MAX_EXPLOIT_PROPOSALS
      BY DEF TrailInv, RowOK
  <1>6. PICK rows \in Seq(RowFindingType) : rows = FlattenSeq(RowParts(LatestByRole(reviews)))
      BY LatestAreReviews, RowPartsFacts
  <1>7. row.findings = rows /\ row.exploit_proposals = p
      BY <1>3, <1>5, <1>6 DEF RowWith
  <1>8. id \in FindingIds
    <2>1. rows[k] \in RowFindingType
        BY <1>7
    <2>2. id = <<rows[k].role, rows[k].file, rows[k].line, rows[k].text>>
        BY <1>1, <1>7 DEF FindingId
    <2> QED BY <2>1, <2>2 DEF FindingIds, RowFindingType
  <1>9. Response(id) = 201
      BY <1>2 DEF CreateExploit
  <1>10. ~(RecordOf(id) > 0) /\ ~(Len(p) >= MAX_EXPLOIT_PROPOSALS)
      BY <1>7, <1>9 DEF Response
  <1>11. Len(p) \in Nat /\ DOMAIN p = 1 .. Len(p) /\ MAX_EXPLOIT_PROPOSALS \in Nat
      BY LenProperties, TrailAssumption
  <1>12. \A i \in DOMAIN p : p[i].finding_id # id
    <2>1. RecordOf(id) = FirstIn(RecordsOf(p, id))
        BY <1>7, Places
    <2>2. RecordsOf(p, id) \subseteq 1 .. Len(p)
        BY DEF RecordsOf
    <2>3. RecordsOf(p, id) = {}
        BY <1>10, <1>11, <2>1, <2>2, FirstInFacts
    <2> QED BY <1>11, <2>3 DEF RecordsOf
  <1>13. PICK status \in {"approved", "skipped_low_confidence"} :
           row' \in {row, [row EXCEPT !.exploit_proposals =
                             Append(@, [finding_id |-> id, status |-> status])]}
      BY <1>2 DEF CreateExploit
  <1>14. UNCHANGED <<verdict, agent_reviews, final_report, at>>
      BY <1>2 DEF CreateExploit, review, report
  <1>15. \A q : RowWith(q)' = RowWith(q)
      BY <1>14 DEF RowWith
  <1>16. CASE row' = row
      BY <1>4, <1>5, <1>14, <1>15, <1>16 DEF RowOK
  <1>17. CASE row' = [row EXCEPT !.exploit_proposals =
                        Append(@, [finding_id |-> id, status |-> status])]
    <2>1. PICK e \in ProposalType : e = [finding_id |-> id, status |-> status] /\ e.finding_id = id
      <3>1. [finding_id |-> id, status |-> status] \in ProposalType
          BY <1>8 DEF ProposalType
      <3>2. [finding_id |-> id, status |-> status].finding_id = id
          OBVIOUS
      <3> QED BY <3>1, <3>2
    <2>2. PICK q : q = Append(p, e)
        OBVIOUS
    <2>3. /\ q \in Seq(ProposalType) /\ Len(q) = Len(p) + 1
          /\ q[Len(p) + 1] = e /\ \A i \in 1 .. Len(p) : q[i] = p[i]
        BY <2>2, AppendFacts
    <2>4. Len(q) <= MAX_EXPLOIT_PROPOSALS
        BY <1>10, <1>11, <2>3
    <2>5. OneEach(q)
      <3> SUFFICES ASSUME NEW i \in DOMAIN q, NEW j \in DOMAIN q, q[i].finding_id = q[j].finding_id
                   PROVE  i = j
          BY DEF OneEach
      <3>1. DOMAIN q = 1 .. Len(p) + 1
          BY <2>3, LenProperties
      <3>2. \A n \in DOMAIN q : n \in 1 .. Len(p) \/ n = Len(p) + 1
          BY <1>11, <3>1
      <3>3. CASE i \in 1 .. Len(p) /\ j \in 1 .. Len(p)
          BY <1>5, <1>11, <2>3, <3>3 DEF OneEach
      <3>4. CASE i = Len(p) + 1 /\ j \in 1 .. Len(p)
          BY <1>11, <1>12, <2>1, <2>3, <3>4
      <3>5. CASE i \in 1 .. Len(p) /\ j = Len(p) + 1
          BY <1>11, <1>12, <2>1, <2>3, <3>5
      <3>6. CASE i = Len(p) + 1 /\ j = Len(p) + 1
          BY <3>6
      <3> QED BY <3>2, <3>3, <3>4, <3>5, <3>6
    <2>6. row' = RowWith(q)
      <3>1. row' = [row EXCEPT !.exploit_proposals = Append(@, e)]
          BY <1>17, <2>1
      <3>2. row' = [RowWith(p) EXCEPT !.exploit_proposals = q]
          BY <1>5, <1>7, <2>2, <3>1
      <3> QED BY <3>2 DEF RowWith
    <2> QED BY <1>4, <1>14, <1>15, <2>3, <2>4, <2>5, <2>6 DEF RowOK
  <1> QED BY <1>13, <1>16, <1>17

-----------------------------------------------------------------------------
LEMMA TrailStep == TrailInv /\ [TrailNext]_trailVars => TrailInv'
  <1> SUFFICES ASSUME TrailInv, [TrailNext]_trailVars PROVE TrailInv'
      OBVIOUS
  <1>0. ReviewsOK /\ ReadOK /\ VerdictOK /\ ReportOK /\ RowOK
      BY DEF TrailInv
  <1>1. CASE ValidateRequest
    <2>1. /\ at = "validate_request" /\ verdict' \in Verdicts(request)
          /\ at' = IF verdict'.accepted THEN "reviewers" ELSE "notify_rejection"
          /\ UNCHANGED <<request, agent_reviews, passes, filesRead, filesLost>>
          /\ UNCHANGED <<final_report, report_tldr, grounds>> /\ row' = row
        BY <1>1 DEF ValidateRequest, review, report
    <2>2. ReviewsOK' /\ ReadOK'
        BY <1>0, <2>1, SameReviews
    <2>3. VerdictOK'
        BY <2>1 DEF VerdictOK
    <2>4. ReportOK'
        BY <1>0, <2>1 DEF ReportOK
    <2>5. RowOK'
        BY <1>0, <2>1, NoRowYet
    <2> QED BY <2>2, <2>3, <2>4, <2>5 DEF TrailInv
  <1>2. CASE NotifyRejection
    <2>1. /\ at = "notify_rejection" /\ at' = "persist" /\ row' = row
          /\ UNCHANGED <<request, agent_reviews, passes, filesRead, filesLost>>
          /\ UNCHANGED <<final_report, report_tldr, grounds>> /\ UNCHANGED <<request, verdict>>
        BY <1>2 DEF NotifyRejection, review, report
    <2>2. ReviewsOK' /\ ReadOK'
        BY <1>0, <2>1, SameReviews
    <2>3. VerdictOK'
        BY <1>0, <2>1, SameVerdict
    <2>4. ReportOK'
        BY <1>0, <2>1 DEF ReportOK
    <2>5. RowOK'
        BY <1>0, <2>1, NoRowYet
    <2> QED BY <2>2, <2>3, <2>4, <2>5 DEF TrailInv
  <1>3. CASE ReviewPullRequest
    <2>1. /\ at = "reviewers" /\ at' = "review_decision" /\ row' = row
          /\ UNCHANGED <<final_report, report_tldr, grounds>> /\ UNCHANGED <<request, verdict>>
        BY <1>3 DEF ReviewPullRequest, report
    <2>2. ReviewsOK' /\ ReadOK'
        BY <1>3, ReviewsStep
    <2>3. VerdictOK'
        BY <1>0, <2>1, SameVerdict
    <2>4. ReportOK'
        BY <1>0, <2>1 DEF ReportOK
    <2>5. RowOK'
        BY <1>0, <2>1, NoRowYet
    <2> QED BY <2>2, <2>3, <2>4, <2>5 DEF TrailInv
  <1>4. CASE ReviewRepository
    <2>1. /\ at = "reviewers" /\ at' = "review_decision" /\ row' = row
          /\ UNCHANGED <<final_report, report_tldr, grounds>> /\ UNCHANGED <<request, verdict>>
        BY <1>4 DEF ReviewRepository, report
    <2>2. ReviewsOK' /\ ReadOK'
        BY <1>4, PassStep
    <2>3. VerdictOK'
        BY <1>0, <2>1, SameVerdict
    <2>4. ReportOK'
        BY <1>0, <2>1 DEF ReportOK
    <2>5. RowOK'
        BY <1>0, <2>1, NoRowYet
    <2> QED BY <2>2, <2>3, <2>4, <2>5 DEF TrailInv
  <1>5. CASE RerunWithoutSnapshot
    <2>1. /\ at = "reviewers" /\ at' = "review_decision" /\ row' = row
          /\ UNCHANGED <<request, agent_reviews, filesRead, filesLost>>
          /\ passes > 0 /\ passes' = passes + 1
          /\ UNCHANGED <<final_report, report_tldr, grounds>> /\ UNCHANGED <<request, verdict>>
        BY <1>5 DEF RerunWithoutSnapshot, report
    <2>2. ReviewsOK'
      <3>1. passes' \in Nat /\ passes' # 0 /\ passes' # 1
          BY <1>0, <2>1 DEF ReviewsOK
      <3> QED BY <1>0, <2>1, <3>1 DEF ReviewsOK
    <2>3. ReadOK'
        BY <1>0, <2>1 DEF ReadOK
    <2>4. VerdictOK'
        BY <1>0, <2>1, SameVerdict
    <2>5. ReportOK'
        BY <1>0, <2>1 DEF ReportOK
    <2>6. RowOK'
        BY <1>0, <2>1, NoRowYet
    <2> QED BY <2>2, <2>3, <2>4, <2>5, <2>6 DEF TrailInv
  <1>6. CASE ReviewDecision
    <2>1. /\ at = "review_decision" /\ at' \in {"aggregate_results", "reviewers"} /\ row' = row
          /\ UNCHANGED <<request, agent_reviews, passes, filesRead, filesLost>>
          /\ UNCHANGED <<final_report, report_tldr, grounds>> /\ UNCHANGED <<request, verdict>>
        BY <1>6 DEF ReviewDecision, review, report
    <2>2. ReviewsOK' /\ ReadOK'
        BY <1>0, <2>1, SameReviews
    <2>3. VerdictOK'
        BY <1>0, <2>1, SameVerdict
    <2>4. ReportOK'
        BY <1>0, <2>1 DEF ReportOK
    <2>5. RowOK'
        BY <1>0, <2>1, NoRowYet
    <2> QED BY <2>2, <2>3, <2>4, <2>5 DEF TrailInv
  <1>7. CASE AggregateResults
    <2>1. /\ at = "aggregate_results" /\ at' = "format_report" /\ row' = row
          /\ UNCHANGED <<request, agent_reviews, passes, filesRead, filesLost>>
          /\ final_report' = RenderReview(agent_reviews)
          /\ UNCHANGED <<report_tldr, grounds>> /\ UNCHANGED <<request, verdict>>
        BY <1>7 DEF AggregateResults, review
    <2>2. ReviewsOK' /\ ReadOK'
        BY <1>0, <2>1, SameReviews
    <2>3. VerdictOK'
        BY <1>0, <2>1, SameVerdict
    <2>4. ReportOK'
        BY <1>0, <2>1 DEF ReportOK
    <2>5. RowOK'
        BY <1>0, <2>1, NoRowYet
    <2> QED BY <2>2, <2>3, <2>4, <2>5 DEF TrailInv
  <1>8. CASE LeaveReport
    <2>1. /\ at = "format_report" /\ at' = "publish_report" /\ row' = row
          /\ UNCHANGED <<request, agent_reviews, passes, filesRead, filesLost>>
          /\ UNCHANGED <<final_report, report_tldr, grounds>> /\ UNCHANGED <<request, verdict>>
        BY <1>8 DEF LeaveReport, review, report
    <2>2. ReviewsOK' /\ ReadOK'
        BY <1>0, <2>1, SameReviews
    <2>3. VerdictOK'
        BY <1>0, <2>1, SameVerdict
    <2>4. ReportOK'
      <3>1. ReportFinished'
          BY <1>0, <2>1 DEF ReportOK, ReportFinished, FinalOf
      <3> QED BY <1>0, <2>1, <3>1 DEF ReportOK
    <2>5. RowOK'
        BY <1>0, <2>1, NoRowYet
    <2> QED BY <2>2, <2>3, <2>4, <2>5 DEF TrailInv
  <1>9. CASE SpliceReport
    <2>1. /\ at = "format_report" /\ at' = "publish_report" /\ row' = row
          /\ UNCHANGED <<request, agent_reviews, passes, filesRead, filesLost>>
          /\ grounds' = Grounds(agent_reviews) /\ report_tldr' = TRUE
          /\ final_report' = SpliceTldr(final_report) /\ UNCHANGED <<request, verdict>>
        BY <1>9 DEF SpliceReport, review
    <2>2. ReviewsOK' /\ ReadOK'
        BY <1>0, <2>1, SameReviews
    <2>3. VerdictOK'
        BY <1>0, <2>1, SameVerdict
    <2>4. ReportOK'
      <3>1. ReportFinished'
          BY <1>0, <2>1 DEF ReportOK, ReportFinished, FinalOf
      <3> QED BY <1>0, <2>1, <3>1 DEF ReportOK
    <2>5. RowOK'
        BY <1>0, <2>1, NoRowYet
    <2> QED BY <2>2, <2>3, <2>4, <2>5 DEF TrailInv
  <1>10. CASE PublishReport
    <2>1. /\ at = "publish_report" /\ at' = "persist" /\ row' = row
          /\ UNCHANGED <<request, agent_reviews, passes, filesRead, filesLost>>
          /\ UNCHANGED <<final_report, report_tldr, grounds>> /\ UNCHANGED <<request, verdict>>
        BY <1>10 DEF PublishReport, review, report
    <2>2. ReviewsOK' /\ ReadOK'
        BY <1>0, <2>1, SameReviews
    <2>3. VerdictOK'
        BY <1>0, <2>1, SameVerdict
    <2>4. ReportOK'
      <3>1. ReportFinished'
          BY <1>0, <2>1, SameFinish DEF ReportOK
      <3> QED BY <1>0, <2>1, <3>1 DEF ReportOK
    <2>5. RowOK'
        BY <1>0, <2>1, NoRowYet
    <2> QED BY <2>2, <2>3, <2>4, <2>5 DEF TrailInv
  <1>11. CASE PersistReview
    <2>1. /\ at = "persist" /\ at' = "settled"
          /\ row' \in {NoRow, ReviewRow(verdict, agent_reviews, final_report)}
          /\ UNCHANGED <<request, agent_reviews, passes, filesRead, filesLost>>
          /\ UNCHANGED <<final_report, report_tldr, grounds>> /\ UNCHANGED <<request, verdict>>
        BY <1>11 DEF PersistReview, review, report
    <2>2. ReviewsOK' /\ ReadOK'
        BY <1>0, <2>1, SameReviews
    <2>3. VerdictOK'
        BY <1>0, <2>1, SameVerdict
    <2>4. ReportOK'
      <3>1. ReportFinished' \/ (~verdict'.accepted /\ final_report' = <<>>)
          BY <1>0, <2>1, SameFinish DEF ReportOK
      <3> QED BY <1>0, <2>1, <3>1 DEF ReportOK
    <2>5. RowOK'
      <3>1. CASE row' = NoRow
          BY <3>1 DEF RowOK, NoRow
      <3>2. CASE row' = ReviewRow(verdict, agent_reviews, final_report)
        <4>1. PICK p \in Seq(ProposalType) : p = <<>>
          <5>1. <<>> \in Seq(ProposalType)
              OBVIOUS
          <5> QED BY <5>1
        <4>2. OneEach(p) /\ Len(p) <= MAX_EXPLOIT_PROPOSALS
            BY <4>1, TrailAssumption DEF OneEach
        <4>3. row' = RowWith(p)
            BY <3>2, <4>1, RowIs DEF RowWith
        <4>4. RowWith(p)' = RowWith(p)
            BY <2>1 DEF RowWith
        <4> QED BY <2>1, <4>2, <4>3, <4>4 DEF RowOK
      <3> QED BY <2>1, <3>1, <3>2
    <2> QED BY <2>2, <2>3, <2>4, <2>5 DEF TrailInv
  <1>12. CASE GraphFails
    <2>1. /\ at \in {"validate_request", "reviewers", "aggregate_results", "format_report"}
          /\ at' = "failed" /\ row' = row
          /\ UNCHANGED <<request, agent_reviews, passes, filesRead, filesLost>>
          /\ UNCHANGED <<final_report, report_tldr, grounds>> /\ UNCHANGED <<request, verdict>>
        BY <1>12 DEF GraphFails, review, report
    <2>2. ReviewsOK' /\ ReadOK'
        BY <1>0, <2>1, SameReviews
    <2>3. VerdictOK'
        BY <1>0, <2>1, SameVerdict
    <2>4. ReportOK'
        BY <1>0, <2>1 DEF ReportOK
    <2>5. RowOK'
        BY <1>0, <2>1, NoRowYet
    <2> QED BY <2>2, <2>3, <2>4, <2>5 DEF TrailInv
  <1>13. ASSUME row # NoRow, NEW k \in DOMAIN row.findings,
                CreateExploit(FindingId(row.findings[k]))
         PROVE  TrailInv'
    <2>1. /\ at = "settled" /\ at' = at
          /\ UNCHANGED <<request, agent_reviews, passes, filesRead, filesLost>>
          /\ UNCHANGED <<final_report, report_tldr, grounds>> /\ UNCHANGED <<request, verdict>>
        BY <1>13 DEF CreateExploit, review, report
    <2>2. ReviewsOK' /\ ReadOK'
        BY <1>0, <2>1, SameReviews
    <2>3. VerdictOK'
        BY <1>0, <2>1, SameVerdict
    <2>4. ReportOK'
      <3>1. ReportFinished' \/ (~verdict'.accepted /\ final_report' = <<>>)
          BY <1>0, <2>1, SameFinish DEF ReportOK
      <3> QED BY <1>0, <2>1, <3>1 DEF ReportOK
    <2>5. RowOK'
        BY <1>13, ClickStep
    <2> QED BY <2>2, <2>3, <2>4, <2>5 DEF TrailInv
  <1>14. CASE UNCHANGED trailVars
    <2>1. /\ UNCHANGED <<request, agent_reviews, passes, filesRead, filesLost>>
          /\ UNCHANGED <<final_report, report_tldr, grounds>> /\ UNCHANGED <<request, verdict>>
          /\ at' = at /\ row' = row
        BY <1>14 DEF trailVars
    <2>2. ReviewsOK' /\ ReadOK'
        BY <1>0, <2>1, SameReviews
    <2>3. VerdictOK'
        BY <1>0, <2>1, SameVerdict
    <2>4. ReportOK'
        BY <1>0, <2>1, SameFinish DEF ReportOK
    <2>5. RowOK'
      <3>1. \A p : RowWith(p)' = RowWith(p)
          BY <2>1 DEF RowWith
      <3> QED BY <1>0, <2>1, <3>1 DEF RowOK
    <2> QED BY <2>2, <2>3, <2>4, <2>5 DEF TrailInv
  <1> QED BY <1>1, <1>2, <1>3, <1>4, <1>5, <1>6, <1>7, <1>8, <1>9, <1>10, <1>11, <1>12, <1>13,
             <1>14 DEF TrailNext

LEMMA TrailInvariant == TrailSpec => []TrailInv
  <1>1. TrailInit => TrailInv
      BY FirstState
  <1>2. TrailInv /\ [TrailNext]_trailVars => TrailInv'
      BY TrailStep
  <1> QED BY <1>1, <1>2, PTL DEF TrailSpec

\* What the row says and what its report shows agree: the overall severity, the
\* findings one by one, and the counts, although each of renderer and store goes
\* over the reviews by itself.
THEOREM RowAgrees == TrailSpec => []ReportAndRowAgree
  <1>1. TrailInv => ReportAndRowAgree
      BY AgreementHolds
  <1> QED BY <1>1, TrailInvariant, PTL

\* Whatever the report calls critical is in the panel, and each entry of the
\* panel does what it shows.
THEOREM PanelServes == TrailSpec => []PanelIsServed
  <1>1. TrailInv => PanelIsServed
      BY PanelHolds
  <1> QED BY <1>1, TrailInvariant, PTL

\* The TL;DR is written from what the report shows and takes nothing away but the
\* section of a reviewer that wrote one itself.
THEOREM TldrAddsToReport == TrailSpec => []TldrIsGrounded
  <1>1. TrailInv => TldrIsGrounded
      BY TldrHolds
  <1> QED BY <1>1, TrailInvariant, PTL

\* What the validator turns away for its files the three reviewers of code would not
\* read either, save under gen/.
THEOREM RefusalsAreOutOfScope == TrailSpec => []RefusalsMatchScope
  <1>1. TrailInv => RefusalsMatchScope
      BY RefusalHolds DEF RefusalsMatchScope
  <1> QED BY <1>1, TrailInvariant, PTL

\* Every file that a role's patterns match has an answer, is lost, is left out for one
\* of four reasons, or falls to a cap that is used up and told.
THEOREM FilesAreAccountedFor == TrailSpec => []EveryFileIsAccountedFor
  <1>1. TrailInv => EveryFileIsAccountedFor
      BY PassHolds
  <1> QED BY <1>1, TrailInvariant, PTL

=============================================================================
