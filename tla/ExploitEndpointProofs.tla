------------------------ MODULE ExploitEndpointProofs ------------------------
(***************************************************************************)
(* What POST /reviews/{t}/exploits/{f} keeps for any number of handlers,       *)
(* findings and requests and any cap: by how much overlapping requests can     *)
(* overshoot, that requests which do not overlap stay within the rules, and    *)
(* that no handler undoes the append of another.                               *)
(***************************************************************************)
EXTENDS ExploitEndpoint, FiniteSetTheorems, TLAPS

Drafted == [status : {"approved", "skipped_low_confidence"},
            artifact : BOOLEAN, calls : Nat]

\* The types the arguments below rest on.  A handler past the checks is about
\* a critical finding.
Typed ==
  /\ proposals \in Seq(Proposals)
  /\ pc \in [Requests -> Pcs]
  /\ target \in [Requests -> Targets]
  /\ drafted \in [Requests -> Drafted]
  /\ saves \in Nat
  /\ \A r \in Requests :
       pc[r] \in {"draft", "artifact", "persist", "merge"} => target[r] \in Findings

LEMMA DraftedFields ==
  \A d \in Drafted : /\ d.status \in {"approved", "skipped_low_confidence"}
                     /\ d.artifact \in BOOLEAN
                     /\ d.calls \in Nat
  BY DEF Drafted

LEMMA SpendType ==
  ASSUME Typed, NEW r \in Requests, NEW n \in Nat, Spend(r, n)
  PROVE  drafted' \in [Requests -> Drafted]
  <1>1. drafted[r] \in Drafted
      BY DEF Typed
  <1> DEFINE d == [status |-> drafted[r].status, artifact |-> drafted[r].artifact,
                   calls |-> drafted[r].calls + n]
  <1>2. d \in Drafted
      BY <1>1, DraftedFields DEF Drafted
  <1>3. drafted' = [drafted EXCEPT ![r] = d]
      BY DEF Spend
  <1> HIDE DEF d
  <1> QED BY <1>2, <1>3 DEF Typed

LEMMA PayloadType ==
  ASSUME Typed, NEW r \in Requests, pc[r] = "persist"
  PROVE  Payload(r) \in Proposals
  <1>1. target[r] \in Findings /\ drafted[r] \in Drafted
      BY DEF Typed
  <1> QED BY <1>1, DraftedFields DEF Payload, Proposals

LEMMA SuspendType ==
  ASSUME Typed, NEW r \in Requests, NEW place \in Pcs, Suspend(r, place)
  PROVE  /\ pc' \in [Requests -> Pcs]
         /\ pc'[r] = place
         /\ \A q \in Requests \ {r} : pc'[q] = pc[q]
  BY DEF Typed, Suspend

\* Post: only the handler's own program counter, target and drafted draft move.
LEMMA PostMoves ==
  ASSUME Typed, NEW r \in Requests, Post(r)
  PROVE  /\ Typed'
         /\ pc[r] = "idle" /\ pc'[r] = "read"
         /\ \A q \in Requests \ {r} : pc'[q] = pc[q] /\ target'[q] = target[q]
         /\ proposals' = proposals
  <1>1. /\ pc[r] = "idle" /\ pc' \in [Requests -> Pcs] /\ pc'[r] = "read"
        /\ \A q \in Requests \ {r} : pc'[q] = pc[q]
      BY SuspendType DEF Post, At, Pcs
  <1>2. PICK f \in Targets : target' = [target EXCEPT ![r] = f]
      BY DEF Post
  <1>3. target' \in [Requests -> Targets] /\ \A q \in Requests \ {r} : target'[q] = target[q]
      BY <1>2 DEF Typed
  <1>4. drafted' \in [Requests -> Drafted]
    <2>1. NoDraft \in Drafted
        BY DEF NoDraft, Drafted
    <2>2. drafted' = [drafted EXCEPT ![r] = NoDraft]
        BY DEF Post, FreshHandler
    <2> QED BY <2>1, <2>2 DEF Typed
  <1>5. proposals' = proposals /\ saves' = saves
      BY DEF Post, row
  <1> QED BY <1>1, <1>3, <1>4, <1>5 DEF Typed

\* The other steps of a handler: nothing of any other handler moves, and what
\* the row holds changes only by the append of Persist.
Alone(r) ==
  /\ target' = target
  /\ \A q \in Requests \ {r} : pc'[q] = pc[q]

\* A handler gets past the checks only on a row below the cap that has no
\* record of its finding.
LEMMA ReadMoves ==
  ASSUME Typed, NEW r \in Requests, ReadReview(r)
  PROVE  /\ Typed' /\ Alone(r)
         /\ pc[r] = "read" /\ proposals' = proposals
         /\ \/ pc'[r] = "idle"
            \/ /\ pc'[r] = "draft"
               /\ ~AtCap(proposals) /\ ~AlreadyCreated(proposals, target[r])
  <1>1. /\ pc[r] = "read" /\ target' = target /\ drafted' = drafted
        /\ proposals' = proposals /\ saves' = saves
      BY DEF ReadReview, At, row
  <1>2. CASE Suspend(r, "idle")
    <2>1. pc' \in [Requests -> Pcs] /\ pc'[r] = "idle" /\ \A q \in Requests \ {r} : pc'[q] = pc[q]
        BY <1>2, SuspendType DEF Pcs
    <2> QED BY <1>1, <2>1 DEF Typed, Alone
  <1>3. CASE /\ Suspend(r, "draft") /\ target[r] \in Findings
             /\ ~AtCap(proposals) /\ ~AlreadyCreated(proposals, target[r])
    <2>1. pc' \in [Requests -> Pcs] /\ pc'[r] = "draft" /\ \A q \in Requests \ {r} : pc'[q] = pc[q]
        BY <1>3, SuspendType DEF Pcs
    <2> QED BY <1>1, <1>3, <2>1 DEF Typed, Alone
  <1> QED BY <1>2, <1>3, Zenon DEF ReadReview, Answer

LEMMA DraftMoves ==
  ASSUME Typed, NEW r \in Requests, Draft(r) \/ GenerateArtifact(r)
  PROVE  /\ Typed' /\ Alone(r)
         /\ pc[r] \in {"draft", "artifact"} /\ proposals' = proposals
         /\ pc'[r] \in {"idle", "artifact", "persist"}
  <1>1. /\ pc[r] \in {"draft", "artifact"} /\ target' = target
        /\ proposals' = proposals /\ saves' = saves
      BY DEF Draft, GenerateArtifact, At, row
  <1>2. \E place \in {"idle", "artifact", "persist"} : Suspend(r, place)
      BY DEF Draft, GenerateArtifact, Answer
  <1>3. drafted' \in [Requests -> Drafted]
    <2>1. CASE Draft(r)
      <3>1. Spend(r, 0) \/ Spend(r, 1)
          BY <2>1, Zenon DEF Draft
      <3> QED BY <3>1, SpendType
    <2>2. CASE GenerateArtifact(r)
      <3>1. PICK ok \in BOOLEAN :
              drafted' = [drafted EXCEPT ![r] =
                            [status |-> "approved", artifact |-> ok,
                             calls |-> IF ok THEN @.calls + 1 ELSE @.calls]]
          BY <2>2 DEF GenerateArtifact
      <3> DEFINE d == [status |-> "approved", artifact |-> ok,
                       calls |-> IF ok THEN drafted[r].calls + 1 ELSE drafted[r].calls]
      <3>2. drafted[r].calls \in Nat
          BY DraftedFields DEF Typed
      <3>3. d \in Drafted
        <4>1. (IF ok THEN drafted[r].calls + 1 ELSE drafted[r].calls) \in Nat
            BY <3>2
        <4> QED BY <4>1 DEF Drafted
      <3>4. drafted' = [drafted EXCEPT ![r] = d]
          BY <3>1
      <3> HIDE DEF d
      <3> QED BY <3>3, <3>4 DEF Typed
    <2> QED BY <2>1, <2>2
  <1>4. PICK place \in {"idle", "artifact", "persist"} : Suspend(r, place)
      BY <1>2
  <1>5. /\ pc' \in [Requests -> Pcs] /\ pc'[r] = place
        /\ \A q \in Requests \ {r} : pc'[q] = pc[q]
      BY <1>4, SuspendType DEF Pcs
  <1>6. target[r] \in Findings
      BY <1>1 DEF Typed
  <1> QED BY <1>1, <1>3, <1>4, <1>5, <1>6 DEF Typed, Alone

LEMMA PersistMoves ==
  ASSUME Typed, NEW r \in Requests, Persist(r)
  PROVE  /\ Typed' /\ Alone(r)
         /\ pc[r] = "persist" /\ pc'[r] \in {"idle", "merge"}
         /\ proposals' \in {Appended(r), proposals}
  <1>1. /\ pc[r] = "persist" /\ target' = target /\ drafted' = drafted
        /\ proposals' \in {Appended(r), proposals} /\ saves' = saves
      BY DEF Persist, At
  <1>2. \E place \in {"idle", "merge"} : Suspend(r, place)
      BY DEF Persist, Answer
  <1>3. PICK place \in {"idle", "merge"} : Suspend(r, place)
      BY <1>2
  <1>4. /\ pc' \in [Requests -> Pcs] /\ pc'[r] = place
        /\ \A q \in Requests \ {r} : pc'[q] = pc[q]
      BY <1>3, SuspendType DEF Pcs
  <1>5. target[r] \in Findings
      BY <1>1 DEF Typed
  <1>6. proposals' \in Seq(Proposals)
      BY <1>1, PayloadType DEF Appended, Typed
  <1> QED BY <1>1, <1>3, <1>4, <1>5, <1>6 DEF Typed, Alone

LEMMA MergeMoves ==
  ASSUME Typed, NEW r \in Requests, MergeAndWrite(r)
  PROVE  /\ Typed' /\ Alone(r)
         /\ pc[r] = "merge" /\ pc'[r] = "idle" /\ proposals' = proposals
  <1>1. /\ pc[r] = "merge" /\ target' = target /\ drafted' = drafted
        /\ proposals' = proposals /\ saves' = saves /\ Suspend(r, "idle")
      BY DEF MergeAndWrite, At, Answer
  <1>2. /\ pc' \in [Requests -> Pcs] /\ pc'[r] = "idle"
        /\ \A q \in Requests \ {r} : pc'[q] = pc[q]
      BY <1>1, SuspendType DEF Pcs
  <1> QED BY <1>1, <1>2 DEF Typed, Alone

LEMMA SaveMoves ==
  ASSUME Typed, SaveReview
  PROVE  Typed' /\ proposals' = <<>> /\ UNCHANGED <<pc, target, overlapped>>
  BY DEF Typed, SaveReview, handlers

LEMMA InitTyped == Init => Typed
  BY DEF Init, Typed, Pcs, Targets, NoDraft, Drafted

LEMMA StepTyped == Typed /\ [Next]_vars => Typed'
  <1> SUFFICES ASSUME Typed, [Next]_vars PROVE Typed'
      OBVIOUS
  <1>1. ASSUME NEW r \in Requests, Post(r) PROVE Typed'
      BY <1>1, PostMoves
  <1>2. ASSUME NEW r \in Requests, HandlerStep(r) PROVE Typed'
      BY <1>2, ReadMoves, DraftMoves, PersistMoves, MergeMoves, Zenon DEF HandlerStep
  <1>3. CASE SaveReview
      BY <1>3, SaveMoves
  <1>4. CASE UNCHANGED vars
      BY <1>4 DEF Typed, vars, row, handlers
  <1> QED BY <1>1, <1>2, <1>3, <1>4, Zenon DEF Next

-----------------------------------------------------------------------------

\* No handler undoes what another one persisted (_APPEND_EXPLOIT_SQL appends to
\* the column as it is, not to what the handler has read).
THEOREM NoAppendIsLost == Spec => NoLostUpdate
  <1>1. ASSUME Typed, [Next]_vars, saves' = saves PROVE IsPrefix(proposals, proposals')
    <2>0. proposals \in Seq(Proposals)
        BY <1>1 DEF Typed
    <2>1. proposals' = proposals => IsPrefix(proposals, proposals')
        BY <2>0 DEF IsPrefix
    <2>2. ASSUME NEW r \in Requests, Post(r) PROVE proposals' = proposals
        BY <1>1, <2>2, PostMoves
    <2>3. ASSUME NEW r \in Requests, HandlerStep(r)
          PROVE  proposals' = proposals \/ Persist(r)
        BY <1>1, <2>3, ReadMoves, DraftMoves, MergeMoves, Zenon DEF HandlerStep
    <2>4. ASSUME NEW r \in Requests, Persist(r) PROVE IsPrefix(proposals, proposals')
      <3>1. CASE proposals' = proposals
          BY <2>1, <3>1
      <3>2. CASE proposals' = Appended(r)
        <4>1. proposals' = Append(proposals, Payload(r))
            BY <3>2 DEF Appended
        <4> HIDE DEF Payload
        <4> QED BY <2>0, <4>1 DEF IsPrefix
      <3> QED BY <1>1, <2>4, <3>1, <3>2, PersistMoves
    <2>5. ~SaveReview
        BY <1>1 DEF SaveReview, Typed
    <2>6. UNCHANGED vars => proposals' = proposals
        BY DEF vars, row
    <2> QED BY <1>1, <2>1, <2>2, <2>3, <2>4, <2>5, <2>6, Zenon DEF Next
  <1> QED BY <1>1, InitTyped, StepTyped, PTL DEF Spec, NoLostUpdate

-----------------------------------------------------------------------------

\* Each of the two bounds follows from Typed and one fact about the row.
LEMMA AdmittedFinite ==
  /\ IsFiniteSet(Admitted)
  /\ Cardinality(Admitted) \in Nat
  /\ Cardinality(Requests) \in Nat
  /\ Cardinality(Admitted) <= Cardinality(Requests)
  <1>1. Admitted \subseteq Requests
      BY DEF Admitted
  <1> QED BY <1>1, RequestsAssumption, FS_Subset, FS_CardinalityType

\* A handler that was admitted and still is changes nothing, one that newly is
\* found the row below the cap, and one that leaves may have appended once.
LEMMA StepOverrun == Typed /\ OverrunIsBounded /\ [Next]_vars => OverrunIsBounded'
  <1> SUFFICES ASSUME Typed, OverrunIsBounded, [Next]_vars PROVE OverrunIsBounded'
      OBVIOUS
  <1>0. /\ IsFiniteSet(Admitted)
        /\ Cardinality(Admitted) \in Nat
        /\ Cardinality(Requests) \in Nat
        /\ MAX_EXPLOIT_PROPOSALS \in Nat \ {0}
        /\ proposals \in Seq(Proposals)
        /\ Len(proposals) \in Nat
        /\ Len(proposals) + Cardinality(Admitted)
             < MAX_EXPLOIT_PROPOSALS + Cardinality(Requests)
      BY AdmittedFinite, CapAssumption DEF OverrunIsBounded, Typed
  <1>1. Admitted' \subseteq Requests
      BY DEF Admitted
  <1>2. /\ Cardinality(Admitted') \in Nat
        /\ Cardinality(Admitted') <= Cardinality(Requests)
      BY <1>1, RequestsAssumption, FS_Subset, FS_CardinalityType
  <1>3. ASSUME Admitted' \subseteq Admitted, proposals' = proposals
        PROVE  OverrunIsBounded'
    <2>1. Cardinality(Admitted') <= Cardinality(Admitted)
        BY <1>0, <1>3, FS_Subset
    <2> QED BY <1>0, <1>2, <1>3, <2>1 DEF OverrunIsBounded
  <1>4. ASSUME Len(proposals') \in Nat, Len(proposals') < MAX_EXPLOIT_PROPOSALS
        PROVE  OverrunIsBounded'
      BY <1>0, <1>2, <1>4 DEF OverrunIsBounded
  <1>5. ASSUME NEW r \in Requests, Post(r) PROVE OverrunIsBounded'
    <2>1. Admitted' \subseteq Admitted
        BY <1>5, PostMoves DEF Admitted
    <2> QED BY <1>3, <1>5, <2>1, PostMoves
  <1>6. ASSUME NEW r \in Requests, ReadReview(r) PROVE OverrunIsBounded'
    <2>1. CASE pc'[r] = "idle"
      <3>1. Admitted' \subseteq Admitted
          BY <1>6, <2>1, ReadMoves DEF Admitted, Alone
      <3> QED BY <1>3, <1>6, <3>1, ReadMoves
    <2>2. CASE ~AtCap(proposals)
      <3>1. Len(proposals) < MAX_EXPLOIT_PROPOSALS
          BY <1>0, <2>2 DEF AtCap
      <3> QED BY <1>0, <1>4, <1>6, <3>1, ReadMoves
    <2> QED BY <1>6, <2>1, <2>2, ReadMoves
  <1>7. ASSUME NEW r \in Requests, Draft(r) \/ GenerateArtifact(r)
        PROVE  OverrunIsBounded'
    <2>1. Admitted' \subseteq Admitted
        BY <1>7, DraftMoves DEF Admitted, Alone
    <2> QED BY <1>3, <1>7, <2>1, DraftMoves
  <1>8. ASSUME NEW r \in Requests, Persist(r) PROVE OverrunIsBounded'
    <2>1. Admitted' = Admitted \ {r} /\ r \in Admitted
        BY <1>8, PersistMoves DEF Admitted, Alone
    <2>2. Cardinality(Admitted') = Cardinality(Admitted) - 1
        BY <1>0, <2>1, FS_RemoveElement
    <2>3. Len(proposals') \in Nat /\ Len(proposals') <= Len(proposals) + 1
      <3>1. proposals' = proposals \/ proposals' = Append(proposals, Payload(r))
          BY <1>8, PersistMoves DEF Appended
      <3>2. Payload(r) \in Proposals
          BY <1>8, PersistMoves, PayloadType
      <3> QED BY <1>0, <3>1, <3>2
    <2> QED BY <1>0, <1>2, <2>2, <2>3 DEF OverrunIsBounded
  <1>9. ASSUME NEW r \in Requests, MergeAndWrite(r) PROVE OverrunIsBounded'
    <2>1. Admitted' \subseteq Admitted
        BY <1>9, MergeMoves DEF Admitted, Alone
    <2> QED BY <1>3, <1>9, <2>1, MergeMoves
  <1>10. CASE SaveReview
    <2>1. Len(proposals') = 0
        BY <1>10, SaveMoves
    <2> QED BY <1>0, <1>4, <2>1
  <1>11. CASE UNCHANGED vars
    <2>1. Admitted' \subseteq Admitted /\ proposals' = proposals
        BY <1>11 DEF Admitted, vars, row, handlers
    <2> QED BY <1>3, <2>1
  <1> QED BY <1>5, <1>6, <1>7, <1>8, <1>9, <1>10, <1>11, Zenon DEF Next, HandlerStep

\* However many handlers pass the cap check of the endpoint before the first of
\* them writes, the row overshoots the cap by less than their number.
THEOREM OvershootBound == Spec => []OverrunIsBounded
  <1>1. Init => OverrunIsBounded
    <2> SUFFICES ASSUME Init PROVE OverrunIsBounded
        OBVIOUS
    <2>1. Len(proposals) = 0
        BY DEF Init
    <2> QED BY <2>1, AdmittedFinite, CapAssumption DEF OverrunIsBounded
  <1> QED BY <1>1, InitTyped, StepTyped, StepOverrun, PTL DEF Spec

-----------------------------------------------------------------------------

\* ServedInSequence is not inductive: between its check and its append a
\* handler relies on the row it read.  Without overlap nobody else is on the
\* way, so at that point the row still has room and no record of the finding.
HasRoom(r) == /\ Len(proposals) < MAX_EXPLOIT_PROPOSALS
              /\ \A i \in DOMAIN proposals : proposals[i].finding # target[r]

AloneInv ==
  ~overlapped =>
    /\ \A q, r \in Requests : pc[q] # "idle" /\ pc[r] # "idle" => q = r
    /\ \A r \in Admitted : HasRoom(r)
    /\ ServedInSequence

LEMMA StepAlone == Typed /\ AloneInv /\ [Next]_vars => AloneInv'
  <1> SUFFICES ASSUME Typed, AloneInv, [Next]_vars, ~overlapped'
               PROVE  /\ \A q, r \in Requests : pc'[q] # "idle" /\ pc'[r] # "idle" => q = r
                      /\ \A r \in Admitted' : HasRoom(r)'
                      /\ ServedInSequence'
      BY DEF AloneInv
  <1>0. ~overlapped
      BY DEF Next, HandlerStep, Post, ReadReview, Draft, GenerateArtifact, Persist,
             MergeAndWrite, SaveReview, vars
  <1>1. /\ \A q, r \in Requests : pc[q] # "idle" /\ pc[r] # "idle" => q = r
        /\ \A r \in Admitted : HasRoom(r)
        /\ Len(proposals) <= MAX_EXPLOIT_PROPOSALS
        /\ Distinct(proposals)
        /\ proposals \in Seq(Proposals)
        /\ MAX_EXPLOIT_PROPOSALS \in Nat \ {0}
      BY <1>0, CapAssumption
      DEF AloneInv, ServedInSequence, CapHoldsInSequence, OneRecordInSequence, Typed
  <1>2. ASSUME Len(proposals') <= MAX_EXPLOIT_PROPOSALS, Distinct(proposals')
        PROVE  ServedInSequence'
      BY <1>2 DEF ServedInSequence, CapHoldsInSequence, OneRecordInSequence, Distinct
  \* A step of the handler that is served, which leaves the row alone.
  <1>3. ASSUME NEW r \in Requests, Alone(r), pc[r] # "idle", proposals' = proposals,
               r \in Admitted' => HasRoom(r)
        PROVE  /\ \A q, x \in Requests : pc'[q] # "idle" /\ pc'[x] # "idle" => q = x
               /\ \A x \in Admitted' : HasRoom(x)'
               /\ ServedInSequence'
    <2>1. \A q \in Requests \ {r} : pc'[q] = "idle"
        BY <1>1, <1>3 DEF Alone
    <2>2. \A x \in Admitted' : x = r
        BY <2>1 DEF Admitted
    <2>3. HasRoom(r)' <=> HasRoom(r)
        BY <1>3 DEF HasRoom, Alone
    <2>4. ServedInSequence'
        BY <1>1, <1>2, <1>3
    <2> QED BY <1>3, <2>1, <2>2, <2>3, <2>4
  <1>4. ASSUME NEW r \in Requests, Post(r)
        PROVE  /\ \A q, x \in Requests : pc'[q] # "idle" /\ pc'[x] # "idle" => q = x
               /\ \A x \in Admitted' : HasRoom(x)'
               /\ ServedInSequence'
    <2>1. \A q \in Requests : pc[q] = "idle"
        BY <1>4 DEF Post, At
    <2>2. \A q \in Requests \ {r} : pc'[q] = "idle"
        BY <1>4, <2>1, PostMoves
    <2>3. Admitted' = {}
        BY <1>4, <2>2, PostMoves DEF Admitted
    <2>4. ServedInSequence'
        BY <1>1, <1>2, <1>4, PostMoves
    <2> QED BY <2>2, <2>3, <2>4
  <1>5. ASSUME NEW r \in Requests, ReadReview(r)
        PROVE  /\ \A q, x \in Requests : pc'[q] # "idle" /\ pc'[x] # "idle" => q = x
               /\ \A x \in Admitted' : HasRoom(x)'
               /\ ServedInSequence'
    <2>1. r \in Admitted' => ~AtCap(proposals) /\ ~AlreadyCreated(proposals, target[r])
        BY <1>5, ReadMoves DEF Admitted
    <2>2. r \in Admitted' => HasRoom(r)
        BY <1>1, <2>1 DEF HasRoom, AtCap, AlreadyCreated
    <2> QED BY <1>3, <1>5, <2>2, ReadMoves
  <1>6. ASSUME NEW r \in Requests, Draft(r) \/ GenerateArtifact(r)
        PROVE  /\ \A q, x \in Requests : pc'[q] # "idle" /\ pc'[x] # "idle" => q = x
               /\ \A x \in Admitted' : HasRoom(x)'
               /\ ServedInSequence'
    <2>1. r \in Admitted
        BY <1>6, DraftMoves DEF Admitted
    <2>2. HasRoom(r)
        BY <1>1, <2>1
    <2> QED BY <1>3, <1>6, <2>2, DraftMoves
  <1>7. ASSUME NEW r \in Requests, Persist(r)
        PROVE  /\ \A q, x \in Requests : pc'[q] # "idle" /\ pc'[x] # "idle" => q = x
               /\ \A x \in Admitted' : HasRoom(x)'
               /\ ServedInSequence'
    <2>1. r \in Admitted /\ r \notin Admitted'
        BY <1>7, PersistMoves DEF Admitted
    <2>2. CASE proposals' = proposals
        BY <1>3, <1>7, <2>1, <2>2, PersistMoves
    <2>3. CASE proposals' = Appended(r)
      <3>1. \A q \in Requests \ {r} : pc'[q] = "idle"
          BY <1>1, <1>7, PersistMoves DEF Alone
      <3>2. Admitted' = {}
          BY <2>1, <3>1 DEF Admitted
      <3>3. HasRoom(r)
          BY <1>1, <2>1
      <3>4. Payload(r) \in Proposals /\ Payload(r).finding = target[r]
          BY <1>7, PersistMoves, PayloadType DEF Payload
      <3>5. proposals' = Append(proposals, Payload(r))
          BY <2>3 DEF Appended
      <3> HIDE DEF Payload
      <3>6. Len(proposals') <= MAX_EXPLOIT_PROPOSALS
          BY <1>1, <3>3, <3>4, <3>5 DEF HasRoom
      <3>7. Distinct(proposals')
        <4>1. /\ DOMAIN proposals' = DOMAIN proposals \cup {Len(proposals) + 1}
              /\ proposals'[Len(proposals) + 1].finding = target[r]
              /\ \A i \in DOMAIN proposals : proposals'[i] = proposals[i]
            BY <1>1, <3>4, <3>5
        <4> QED BY <1>1, <3>3, <4>1 DEF Distinct, HasRoom
      <3> QED BY <1>2, <3>1, <3>2, <3>6, <3>7
    <2> QED BY <1>7, <2>2, <2>3, PersistMoves
  <1>8. ASSUME NEW r \in Requests, MergeAndWrite(r)
        PROVE  /\ \A q, x \in Requests : pc'[q] # "idle" /\ pc'[x] # "idle" => q = x
               /\ \A x \in Admitted' : HasRoom(x)'
               /\ ServedInSequence'
    <2>1. r \notin Admitted'
        BY <1>8, MergeMoves DEF Admitted
    <2> QED BY <1>3, <1>8, <2>1, MergeMoves
  <1>9. CASE SaveReview
    <2>1. proposals' = <<>> /\ Admitted' = Admitted /\ pc' = pc
        BY <1>9, SaveMoves DEF Admitted
    <2>2. Len(proposals') = 0 /\ Distinct(proposals')
        BY <2>1 DEF Distinct
    <2>3. \A r \in Requests : HasRoom(r)'
        BY <1>1, <2>1 DEF HasRoom
    <2> QED BY <1>1, <1>2, <2>1, <2>2, <2>3 DEF Admitted
  <1>10. CASE UNCHANGED vars
    <2>1. /\ UNCHANGED <<pc, target, proposals, overlapped>> /\ Admitted' = Admitted
        BY <1>10 DEF vars, row, handlers, Admitted
    <2>2. ServedInSequence'
        BY <1>1, <1>2, <2>1
    <2> QED BY <1>1, <2>1, <2>2 DEF HasRoom
  <1> QED BY <1>4, <1>5, <1>6, <1>7, <1>8, <1>9, <1>10, Zenon DEF Next, HandlerStep

\* Requests that do not overlap stay within the cap and create one record per
\* finding, whatever fails on the way and whatever a resumed review upserts.
THEOREM SequenceIsServed == Spec => []ServedInSequence
  <1>1. Init => AloneInv
      BY CapAssumption DEF Init, AloneInv, Admitted, ServedInSequence,
         CapHoldsInSequence, OneRecordInSequence, Distinct
  <1>2. AloneInv => ServedInSequence
      BY DEF AloneInv, ServedInSequence, CapHoldsInSequence, OneRecordInSequence
  <1> QED BY <1>1, <1>2, InitTyped, StepTyped, StepAlone, PTL DEF Spec

=============================================================================
