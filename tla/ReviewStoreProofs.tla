-------------------------- MODULE ReviewStoreProofs --------------------------
(***************************************************************************)
(* Theorems of ReviewStore, for any number of tasks, readers and threads, any   *)
(* states that are saved, and any sizes of pool and batch.                      *)
(***************************************************************************)
EXTENDS ReviewStore, FiniteSetTheorems, TLAPS

-----------------------------------------------------------------------------
(* Types, and the rows of review_findings.                                   *)

Places ==
  {"start", "upsert", "replace", "saved", "select", "embed", "row", "findings", "done"}

ReviewRows == [by : Tasks \cup {NoOne}, finding_count : Nat]

Results == [row : ReviewRows, findings : SUBSET Rows]

Outcomes == {"none", "all", "cut off", "stopped"}

\* Everything but the bound on the free connections.
Typed ==
  /\ reviews \in [Threads -> ReviewRows]
  /\ review_findings \subseteq Rows
  /\ nextId \in Nat
  /\ rowLock \in [Threads -> Tasks \cup {NoOne}]
  /\ free \in Int
  /\ pc \in [Tasks \cup Readers -> Places]
  /\ thread \in [Tasks \cup Readers -> Threads]
  /\ state \in [Tasks -> States]
  /\ todo \in [Tasks -> SUBSET Rows]
  /\ backfill \in [Tasks -> Outcomes]
  /\ got \in [Readers -> Results]
  /\ overtaken \in SUBSET Readers

\* An id is given once, and to one row.
RowsInv ==
  /\ IsFiniteSet(review_findings)
  /\ \A r \in review_findings : r.id < nextId
  /\ \A r, s \in review_findings : r.id = s.id => r = s

\* A row that is still to be embedded, if it is there, has the text it had.
VectorInv ==
  /\ VectorIsOfItsText
  /\ \A k \in Tasks : \A target \in todo[k] :
       /\ target.id < nextId
       /\ \A r \in review_findings : r.id = target.id => r.finding = target.finding

\* A backfill that took everything still has in hand what it has not embedded.
BackfillInv ==
  \A k \in Tasks : backfill[k] = "all" =>
    /\ pc[k] \in {"embed", "done"}
    /\ \A r \in review_findings : r.by = k =>
         \/ r.finding = Blank
         \/ r.embedding # NoVector
         \/ pc[k] = "embed" /\ \E target \in todo[k] : target.id = r.id

\* The rows of a save: its findings, numbered from first on.
Numbered(rows, first, findings, k) ==
  /\ \A r \in rows :
       /\ r.by = k
       /\ r.id \in first .. (first + Len(findings) - 1)
       /\ r.finding = findings[r.id - first + 1]
  /\ \A i \in 1 .. Len(findings) : \E r \in rows : r.id = first + i - 1

\* The tables hold one save of a thread as a whole.
ContentInv ==
  \A t \in Threads :
    \/ reviews[t] = NoRow /\ FindingsOf(t) = {}
    \/ /\ reviews[t].by \in Tasks
       /\ reviews[t].finding_count = Len(state[reviews[t].by])
       /\ \E first \in 0 .. nextId :
            Numbered(FindingsOf(t), first, state[reviews[t].by], reviews[t].by)

\* What a reader has is what there is until a save overtakes it.
Reading(r) ==
  /\ pc[r] \in {"start", "row", "findings", "done"}
  /\ pc[r] \in {"start", "row"} => got[r] = NothingGot
  /\ pc[r] = "findings" /\ r \notin overtaken => got[r].row = reviews[thread[r]]
  /\ pc[r] = "done" /\ r \notin overtaken =>
       /\ Cardinality(got[r].findings) = got[r].row.finding_count
       /\ \A f \in got[r].findings : f.by = got[r].row.by

ReadInv == \A r \in Readers : Reading(r)

Holding == {"upsert", "replace", "select", "embed", "row", "findings"}

Holders == {p \in Tasks \cup Readers : pc[p] \in Holding}

\* Every connection is idle or in the hands of one coroutine.
PoolInv == IsFiniteSet(Holders) /\ free + Cardinality(Holders) = PoolSize /\ free >= 0

-----------------------------------------------------------------------------
(* Lemmas about rows.                                                        *)

\* Rows whose ids fill m places are m rows.
LEMMA CountRows ==
  ASSUME NEW rows, NEW first \in Nat, NEW m \in Nat,
         \A r \in rows : r.id \in first .. (first + m - 1),
         \A r, s \in rows : r.id = s.id => r = s,
         \A i \in 1 .. m : \E r \in rows : r.id = first + i - 1
  PROVE  IsFiniteSet(rows) /\ Cardinality(rows) = m
  <1> DEFINE g == [i \in 1 .. m |-> CHOOSE r \in rows : r.id = first + i - 1]
  <1>1. \A i \in 1 .. m : g[i] \in rows /\ g[i].id = first + i - 1
      OBVIOUS
  <1>2. \A r \in rows : \E i \in 1 .. m : g[i] = r
    <2> SUFFICES ASSUME NEW r \in rows PROVE \E i \in 1 .. m : g[i] = r
        OBVIOUS
    <2>1. r.id - first + 1 \in 1 .. m /\ first + (r.id - first + 1) - 1 = r.id
        OBVIOUS
    <2> QED BY <1>1, <2>1
  <1>3. \A i, j \in 1 .. m : g[i] = g[j] => i = j
    <2> SUFFICES ASSUME NEW i \in 1 .. m, NEW j \in 1 .. m, g[i] = g[j] PROVE i = j
        OBVIOUS
    <2>1. first + i - 1 = first + j - 1
        BY <1>1
    <2> QED BY <2>1
  <1>4. g \in Bijection(1 .. m, rows)
    <2>1. g \in [1 .. m -> rows]
        BY <1>1
    <2> HIDE DEF g
    <2> QED BY <1>2, <1>3, <2>1 DEF Bijection, Injection, Surjection, IsInjective
  <1>5. ExistsBijection(1 .. m, rows)
      BY <1>4 DEF ExistsBijection
  <1>6. Cardinality(rows) = m
      BY <1>5, FS_CountingElements
  <1>7. IsFiniteSet(rows)
      BY <1>5, FS_NatBijection
  <1> QED BY <1>6, <1>7

\* Sorted by id, the rows of a save are its findings.
LEMMA NumberedRows ==
  ASSUME NEW rows \in SUBSET Rows, NEW first \in Nat, NEW findings \in Seq(Findings), NEW k,
         Numbered(rows, first, findings, k),
         \A r, s \in rows : r.id = s.id => r = s
  PROVE  /\ IsFiniteSet(rows) /\ Cardinality(rows) = Len(findings)
         /\ InIdOrder(rows) = findings
  <1> DEFINE n == Len(findings)
  <1>0. n \in Nat /\ findings = [i \in 1 .. n |-> findings[i]]
      OBVIOUS
  <1>1. /\ \A r \in rows : r.id \in first .. (first + n - 1) /\ r.finding = findings[r.id - first + 1]
        /\ \A i \in 1 .. n : \E r \in rows : r.id = first + i - 1
      BY DEF Numbered
  <1> HIDE DEF n
  <1>2. IsFiniteSet(rows) /\ Cardinality(rows) = n
      BY <1>0, <1>1, CountRows
  <1>3. \A r \in rows : Position(r, rows) = r.id - first + 1
    <2> SUFFICES ASSUME NEW r \in rows PROVE Position(r, rows) = r.id - first + 1
        OBVIOUS
    <2> DEFINE below == {s \in rows : s.id <= r.id}
               m == r.id - first + 1
    <2>1. m \in Nat /\ m <= n
        BY <1>0, <1>1
    <2>2. \A s \in below : s.id \in first .. (first + m - 1)
      <3> SUFFICES ASSUME NEW s \in below PROVE s.id \in first .. (first + m - 1)
          OBVIOUS
      <3>1. s \in rows /\ s.id <= r.id /\ s.id \in first .. (first + n - 1)
          BY <1>1
      <3> QED BY <1>0, <1>1, <3>1
    <2>3. \A i \in 1 .. m : \E s \in below : s.id = first + i - 1
      <3> SUFFICES ASSUME NEW i \in 1 .. m PROVE \E s \in below : s.id = first + i - 1
          OBVIOUS
      <3>1. i \in 1 .. n
          BY <1>0, <2>1
      <3>2. PICK s \in rows : s.id = first + i - 1
          BY <1>1, <3>1
      <3>3. s.id <= r.id
          BY <1>1, <2>1, <3>2
      <3> QED BY <3>2, <3>3
    <2>4. \A s, q \in below : s.id = q.id => s = q
        OBVIOUS
    <2> HIDE DEF below, m
    <2>5. Cardinality(below) = m
        BY <2>1, <2>2, <2>3, <2>4, CountRows
    <2> QED BY <2>5 DEF Position, below, m
  <1>4. \A i \in 1 .. n : (CHOOSE r \in rows : Position(r, rows) = i).finding = findings[i]
    <2> SUFFICES ASSUME NEW i \in 1 .. n
                 PROVE  (CHOOSE r \in rows : Position(r, rows) = i).finding = findings[i]
        OBVIOUS
    <2> DEFINE q == CHOOSE r \in rows : Position(r, rows) = i
    <2>1. PICK r \in rows : r.id = first + i - 1
        BY <1>1
    <2>2. Position(r, rows) = i
        BY <1>0, <1>3, <2>1
    <2>3. q \in rows /\ Position(q, rows) = i
        BY <2>2
    <2> HIDE DEF q
    <2>4. q.id - first + 1 = i
        BY <1>3, <2>3
    <2>5. q.finding = findings[i]
        BY <1>1, <2>3, <2>4
    <2> QED BY <2>5 DEF q
  <1>5. InIdOrder(rows) = [i \in 1 .. n |-> findings[i]]
      BY <1>2, <1>4 DEF InIdOrder
  <1> QED BY <1>0, <1>2, <1>5 DEF n

\* What a save inserts.
LEMMA NewRows ==
  ASSUME Typed, NEW k \in Tasks
  PROVE  /\ NewFindings(k) \subseteq Rows
         /\ Numbered(NewFindings(k), nextId, state[k], k)
         /\ \A r, s \in NewFindings(k) : r.id = s.id => r = s
         /\ \A r \in NewFindings(k) : r.thread = thread[k] /\ r.embedding = NoVector
         /\ IsFiniteSet(NewFindings(k))
         /\ state[k] \in Seq(Findings)
  <1> DEFINE s == state[k]
             row(i) == [id |-> nextId + i - 1, thread |-> thread[k], finding |-> s[i],
                        by |-> k, embedding |-> NoVector]
  <1>1. /\ s \in Seq(Findings) /\ nextId \in Nat /\ thread[k] \in Threads
        /\ Len(s) \in Nat /\ DOMAIN s = 1 .. Len(s)
    <2>1. s \in Seq(Findings) /\ nextId \in Nat /\ thread[k] \in Threads
        BY StatesAssumption DEF Typed
    <2> QED BY <2>1
  <1>2. \A i \in 1 .. Len(s) :
          /\ row(i).id = nextId + i - 1 /\ row(i).thread = thread[k] /\ row(i).finding = s[i]
          /\ row(i).by = k /\ row(i).embedding = NoVector
          /\ row(i) \in Rows
    <2> SUFFICES ASSUME NEW i \in 1 .. Len(s) PROVE row(i) \in Rows
        OBVIOUS
    <2>1. s[i] \in Findings /\ nextId + i - 1 \in Nat
        BY <1>1
    <2> QED BY <1>1, <2>1 DEF Rows
  <1>3. NewFindings(k) = {row(i) : i \in 1 .. Len(s)}
      BY <1>1 DEF NewFindings
  <1> HIDE DEF row, s
  <1>4. \A r \in NewFindings(k) :
          /\ r.by = k /\ r.id \in nextId .. (nextId + Len(s) - 1)
          /\ r.finding = s[r.id - nextId + 1]
          /\ r.thread = thread[k] /\ r.embedding = NoVector /\ r \in Rows
    <2> SUFFICES ASSUME NEW i \in 1 .. Len(s), NEW r, r = row(i)
                 PROVE  /\ r.by = k /\ r.id \in nextId .. (nextId + Len(s) - 1)
                        /\ r.finding = s[r.id - nextId + 1]
                        /\ r.thread = thread[k] /\ r.embedding = NoVector /\ r \in Rows
        BY <1>3
    <2>1. r.id = nextId + i - 1 /\ (nextId + i - 1) - nextId + 1 = i
        BY <1>1, <1>2
    <2> QED BY <1>1, <1>2, <2>1
  <1>5. \A i \in 1 .. Len(s) : \E r \in NewFindings(k) : r.id = nextId + i - 1
      BY <1>2, <1>3
  <1>6. \A r, q \in NewFindings(k) : r.id = q.id => r = q
    <2> SUFFICES ASSUME NEW i \in 1 .. Len(s), NEW j \in 1 .. Len(s), row(i).id = row(j).id
                 PROVE  row(i) = row(j)
        BY <1>3
    <2>1. nextId + i - 1 = nextId + j - 1
        BY <1>2
    <2>2. i = j
        BY <1>1, <2>1
    <2> QED BY <2>2
  <1>7. IsFiniteSet(NewFindings(k))
      BY <1>1, <1>4, <1>5, <1>6, CountRows
  <1> QED BY <1>1, <1>4, <1>5, <1>6, <1>7 DEF Numbered, s

\* What an embedding changes: nothing but the vector of the rows of that id.
LEMMA EmbeddedRows ==
  ASSUME NEW rows \in SUBSET Rows, NEW target \in Rows, IsFiniteSet(rows)
  PROVE  /\ Embedded(rows, target) \subseteq Rows
         /\ IsFiniteSet(Embedded(rows, target))
         /\ \A q \in Embedded(rows, target) : \E r \in rows :
              /\ q.id = r.id /\ q.thread = r.thread /\ q.finding = r.finding /\ q.by = r.by
              /\ q.embedding = IF r.id = target.id THEN target.finding ELSE r.embedding
         /\ \A r \in rows : \E q \in Embedded(rows, target) :
              q.id = r.id /\ q.thread = r.thread /\ q.finding = r.finding /\ q.by = r.by
         /\ (\A r, s \in rows : r.id = s.id => r = s) =>
              \A p, q \in Embedded(rows, target) : p.id = q.id => p = q
  <1> DEFINE e(r) == IF SameRow(r, target) THEN [r EXCEPT !.embedding = target.finding] ELSE r
             f == [r \in rows |-> e(r)]
  <1>1. \A r \in rows :
          /\ e(r) \in Rows
          /\ e(r).id = r.id /\ e(r).thread = r.thread /\ e(r).finding = r.finding /\ e(r).by = r.by
          /\ e(r).embedding = IF r.id = target.id THEN target.finding ELSE r.embedding
      BY DEF Rows, SameRow
  <1>2. Embedded(rows, target) = {e(r) : r \in rows}
      BY DEF Embedded
  <1>3. f \in Surjection(rows, Embedded(rows, target))
    <2>1. f \in [rows -> Embedded(rows, target)]
        BY <1>2
    <2>2. \A q \in Embedded(rows, target) : \E r \in rows : f[r] = q
        BY <1>2
    <2> QED BY <2>1, <2>2 DEF Surjection
  <1>4. IsFiniteSet(Embedded(rows, target))
      BY <1>3, FS_Surjection
  <1> HIDE DEF e, f
  <1>5. \A q \in Embedded(rows, target) : \E r \in rows :
              /\ q.id = r.id /\ q.thread = r.thread /\ q.finding = r.finding /\ q.by = r.by
              /\ q.embedding = IF r.id = target.id THEN target.finding ELSE r.embedding
      BY <1>1, <1>2
  <1>6. \A r \in rows : \E q \in Embedded(rows, target) :
              q.id = r.id /\ q.thread = r.thread /\ q.finding = r.finding /\ q.by = r.by
      BY <1>1, <1>2
  <1>7. (\A r, s \in rows : r.id = s.id => r = s) =>
              \A p, q \in Embedded(rows, target) : p.id = q.id => p = q
      BY <1>1, <1>2
  <1> QED BY <1>1, <1>2, <1>4, <1>5, <1>6, <1>7

-----------------------------------------------------------------------------
(* Every step keeps the types and the rows in order.                         *)

LEMMA InitTyped == Init => Typed
  BY SizesAssumption, StatesAssumption
  DEF Init, Typed, NoRow, NothingGot, Rows, Places, ReviewRows, Results, Outcomes

\* The steps of a task that persists.
LEMMA TaskTyped ==
  ASSUME Typed, NEW k \in Tasks, TaskStep(k) \/ SaveFails(k) \/ BackfillStops(k)
  PROVE  Typed'
  <1> USE DEF database, locks, persist, reading, Goto, Acquired, Released
  <1>0. k \in Tasks \cup Readers /\ PoolSize \in Nat
      BY SizesAssumption
  <1>1. CASE BeginSave(k)
      BY <1>0, <1>1 DEF BeginSave, Typed, Places
  <1>2. CASE Upsert(k)
      BY <1>0, <1>2 DEF Upsert, ReviewsAfterUpsert, Typed, Places
  <1>3. CASE ReplaceAndCommit(k)
    <2>1. NewFindings(k) \subseteq Rows /\ Len(state[k]) \in Nat
        BY NewRows
    <2>2. review_findings' \subseteq Rows
        BY <1>3, <2>1 DEF ReplaceAndCommit, WithoutFindings, Typed
    <2>3. RowOf(k) \in ReviewRows
        BY <2>1 DEF RowOf, ReviewRows
    <2>4. reviews' \in [Threads -> ReviewRows]
        BY <1>3, <2>3 DEF ReplaceAndCommit, Typed
    <2>5. nextId' \in Nat
        BY <1>3, <2>1 DEF ReplaceAndCommit, Typed
    <2>6. /\ rowLock' \in [Threads -> Tasks \cup {NoOne}] /\ free' \in Int
          /\ pc' \in [Tasks \cup Readers -> Places]
          /\ overtaken' \in SUBSET Readers
        BY <1>0, <1>3 DEF ReplaceAndCommit, Typed, Places
    <2>7. UNCHANGED <<thread, state, todo, backfill, got>>
        BY <1>3 DEF ReplaceAndCommit
    <2> QED BY <2>2, <2>4, <2>5, <2>6, <2>7 DEF Typed
  <1>4. CASE BeginBackfill(k)
      BY <1>0, <1>4 DEF BeginBackfill, Typed, Places
  <1>5. CASE SelectPending(k)
    <2>1. {r \in Selected : r.finding # Blank} \in SUBSET Rows
        BY DEF Selected, FirstPending, Pending, Typed
    <2>2. todo' \in [Tasks -> SUBSET Rows]
        BY <1>5, <2>1 DEF SelectPending, Typed, Places
    <2>3. backfill' \in [Tasks -> Outcomes]
        BY <1>5 DEF SelectPending, Typed, Outcomes
    <2> QED BY <1>0, <1>5, <2>2, <2>3 DEF SelectPending, Typed, Places
  <1>6. CASE EmbedRow(k)
    <2>1. PICK target \in todo[k] : /\ review_findings' = Embedded(review_findings, target)
                                    /\ todo' = [todo EXCEPT ![k] = @ \ {target}]
        BY <1>6 DEF EmbedRow
    <2>2. target \in Rows
        BY DEF Typed
    <2>3. \A r \in review_findings : [r EXCEPT !.embedding = target.finding] \in Rows
        BY <2>2 DEF Typed, Rows
    <2>4. review_findings' \subseteq Rows
        BY <2>1, <2>3 DEF Embedded, Typed
    <2> QED BY <1>6, <2>1, <2>4 DEF EmbedRow, Typed
  <1>7. CASE BackfillEnds(k)
      BY <1>0, <1>7 DEF BackfillEnds, Typed, Places
  <1>8. CASE SaveFails(k)
    <2>1. rowLock' \in [Threads -> Tasks \cup {NoOne}]
        BY <1>8 DEF SaveFails, Typed, Places
    <2> QED BY <1>0, <1>8, <2>1 DEF SaveFails, Typed, Places
  <1>9. CASE BackfillStops(k)
    <2>1. backfill' \in [Tasks -> Outcomes]
        BY <1>9 DEF BackfillStops, Typed, Outcomes
    <2> QED BY <1>0, <1>9, <2>1 DEF BackfillStops, Typed, Places
  <1> QED BY <1>1, <1>2, <1>3, <1>4, <1>5, <1>6, <1>7, <1>8, <1>9 DEF TaskStep

\* The steps of a request that reads.
LEMMA ReaderTyped ==
  ASSUME Typed, NEW r \in Readers, ReaderStep(r)
  PROVE  Typed'
  <1> USE DEF database, locks, persist, reading, Goto, Acquired, Released
  <1>0. r \in Tasks \cup Readers /\ PoolSize \in Nat
      BY SizesAssumption
  <1>1. CASE BeginRead(r)
      BY <1>0, <1>1 DEF BeginRead, Typed, Places
  <1>2. CASE ReadRow(r)
    <2>1. got' \in [Readers -> Results]
        BY <1>0, <1>2 DEF ReadRow, Typed, Results
    <2>2. /\ pc' \in [Tasks \cup Readers -> Places]
          /\ free' \in Int
        BY <1>0, <1>2 DEF ReadRow, Typed, Places
    <2> QED BY <1>2, <2>1, <2>2 DEF ReadRow, Typed
  <1>3. CASE ReadFindings(r)
    <2>1. got' \in [Readers -> Results]
        BY <1>0, <1>3 DEF ReadFindings, FindingsOf, Typed, Results
    <2> QED BY <1>0, <1>3, <2>1 DEF ReadFindings, Typed, Places
  <1> QED BY <1>1, <1>2, <1>3 DEF ReaderStep

LEMMA StepTyped == Typed /\ [Next]_vars => Typed'
  <1> SUFFICES ASSUME Typed, [Next]_vars PROVE Typed'
      OBVIOUS
  <1>1. CASE UNCHANGED vars
      BY <1>1 DEF vars, database, locks, persist, reading, Typed
  <1>2. CASE Next
      BY <1>2, TaskTyped, ReaderTyped DEF Next
  <1> QED BY <1>1, <1>2

\* What the steps do to the tables: a save replaces, a backfill embeds.
LEMMA TablesMove ==
  ASSUME Typed, [Next]_vars
  PROVE  /\ UNCHANGED <<thread, state>>
         /\ \/ \E k \in Tasks : ReplaceAndCommit(k)
            \/ \E k \in Tasks : EmbedRow(k)
            \/ UNCHANGED <<reviews, review_findings, nextId, overtaken>>
  <1> USE DEF database, locks, persist, reading
  <1>1. CASE UNCHANGED vars
      BY <1>1 DEF vars
  <1>2. ASSUME NEW k \in Tasks, TaskStep(k) \/ SaveFails(k) \/ BackfillStops(k)
        PROVE  /\ UNCHANGED <<thread, state>>
               /\ \/ ReplaceAndCommit(k) \/ EmbedRow(k)
                  \/ UNCHANGED <<reviews, review_findings, nextId, overtaken>>
      BY <1>2 DEF TaskStep, BeginSave, Upsert, ReviewsAfterUpsert, ReplaceAndCommit, BeginBackfill,
                  SelectPending, EmbedRow, BackfillEnds, SaveFails, BackfillStops
  <1>3. ASSUME NEW r \in Readers, ReaderStep(r)
        PROVE  /\ UNCHANGED <<thread, state>>
               /\ UNCHANGED <<reviews, review_findings, nextId, overtaken>>
      BY <1>3 DEF ReaderStep, BeginRead, ReadRow, ReadFindings
  <1> QED BY <1>1, <1>2, <1>3 DEF Next

\* The tables after a save.
LEMMA SaveMoves ==
  ASSUME Typed, RowsInv, NEW k \in Tasks, ReplaceAndCommit(k)
  PROVE  /\ review_findings' = (review_findings \ FindingsOf(thread[k])) \cup NewFindings(k)
         /\ nextId' = nextId + Len(state[k]) /\ nextId' >= nextId
         /\ FindingsOf(thread[k])' = NewFindings(k)
         /\ \A t \in Threads \ {thread[k]} : FindingsOf(t)' = FindingsOf(t)
         /\ \A r \in NewFindings(k) : nextId <= r.id /\ r.id < nextId'
  <1>1. /\ review_findings' = (review_findings \ FindingsOf(thread[k])) \cup NewFindings(k)
        /\ nextId' = nextId + Len(state[k])
        /\ thread' = thread
      BY DEF ReplaceAndCommit, WithoutFindings
  <1>2. \A r \in NewFindings(k) : r.thread = thread[k]
      BY NewRows
  <1>3. nextId \in Nat /\ Len(state[k]) \in Nat
      BY NewRows DEF Typed
  <1>4. \A r \in NewFindings(k) : r.id \in nextId .. (nextId + Len(state[k]) - 1)
      BY NewRows DEF Numbered
  <1>5. \A r \in NewFindings(k) : nextId <= r.id /\ r.id < nextId'
      BY <1>1, <1>3, <1>4
  <1>6. FindingsOf(thread[k])' = NewFindings(k)
      BY <1>1, <1>2 DEF FindingsOf
  <1>7. \A t \in Threads \ {thread[k]} : FindingsOf(t)' = FindingsOf(t)
      BY <1>1, <1>2 DEF FindingsOf
  <1> QED BY <1>1, <1>3, <1>5, <1>6, <1>7

\* The tables after an embedding.
LEMMA EmbedMoves ==
  ASSUME Typed, RowsInv, NEW k \in Tasks, EmbedRow(k)
  PROVE  \E target \in todo[k] :
           /\ target \in Rows
           /\ review_findings' = Embedded(review_findings, target)
           /\ todo' = [todo EXCEPT ![k] = @ \ {target}]
           /\ UNCHANGED <<reviews, nextId, pc, backfill, free, overtaken, got>>
           /\ review_findings \in SUBSET Rows /\ IsFiniteSet(review_findings)
  BY DEF EmbedRow, Typed, RowsInv, reading, locks

LEMMA InitRows == Init => RowsInv
  BY FS_EmptySet DEF Init, RowsInv

LEMMA StepRows == Typed /\ RowsInv /\ [Next]_vars => RowsInv'
  <1> SUFFICES ASSUME Typed, RowsInv, [Next]_vars PROVE RowsInv'
      OBVIOUS
  <1>1. ASSUME NEW k \in Tasks, ReplaceAndCommit(k) PROVE RowsInv'
    <2> DEFINE kept == review_findings \ FindingsOf(thread[k])
               new == NewFindings(k)
    <2>1. /\ review_findings' = kept \cup new
          /\ nextId' >= nextId
          /\ \A r \in new : nextId <= r.id /\ r.id < nextId'
        BY <1>1, SaveMoves
    <2>2. /\ \A r, s \in new : r.id = s.id => r = s
          /\ IsFiniteSet(new) /\ new \subseteq Rows
        BY NewRows
    <2>3. /\ \A r \in kept : r.id < nextId /\ r.id \in Nat
          /\ \A r, s \in kept : r.id = s.id => r = s
          /\ kept \in SUBSET review_findings
        BY DEF RowsInv, Typed, Rows
    <2>4. nextId \in Nat /\ nextId' \in Nat
        BY StepTyped DEF Typed
    <2> HIDE DEF kept, new
    <2>5. IsFiniteSet(kept)
        BY <2>3, FS_Subset DEF RowsInv
    <2>6. IsFiniteSet(review_findings')
        BY <2>1, <2>2, <2>5, FS_Union
    <2>7. \A r \in kept, s \in new : r.id # s.id
        BY <2>1, <2>2, <2>3, <2>4 DEF Rows
    <2>8. \A r \in review_findings' : r.id < nextId'
        BY <2>1, <2>3, <2>4
    <2>9. \A r, s \in review_findings' : r.id = s.id => r = s
        BY <2>1, <2>2, <2>3, <2>7
    <2> QED BY <2>6, <2>8, <2>9 DEF RowsInv
  <1>2. ASSUME NEW k \in Tasks, EmbedRow(k) PROVE RowsInv'
    <2>1. PICK target \in todo[k] :
            /\ target \in Rows /\ review_findings' = Embedded(review_findings, target)
            /\ nextId' = nextId
            /\ review_findings \in SUBSET Rows /\ IsFiniteSet(review_findings)
        BY <1>2, EmbedMoves
    <2>2. IsFiniteSet(review_findings')
        BY <2>1, EmbeddedRows
    <2>3. \A q \in review_findings' : q.id < nextId'
        BY <2>1, EmbeddedRows DEF RowsInv
    <2>4. \A p, q \in review_findings' : p.id = q.id => p = q
        BY <2>1, EmbeddedRows DEF RowsInv
    <2> QED BY <2>2, <2>3, <2>4 DEF RowsInv
  <1>3. CASE UNCHANGED <<review_findings, nextId>>
      BY <1>3 DEF RowsInv
  <1> QED BY <1>1, <1>2, <1>3, TablesMove

LEMMA RowsAlways == Spec => [](Typed /\ RowsInv)
  BY InitTyped, StepTyped, InitRows, StepRows, PTL DEF Spec

-----------------------------------------------------------------------------
(* Vectors.  What embed_pending has selected may be gone when its vector comes,  *)
(* and a row saved meanwhile has another id: an id stands for one text for good.  *)

LEMMA InitVectors == Init => VectorInv /\ BackfillInv
  BY DEF Init, VectorInv, VectorIsOfItsText, BackfillInv

\* What a task selects are rows that are there.
LEMMA TodoMoves ==
  ASSUME Typed, [Next]_vars
  PROVE  \A k \in Tasks : \A target \in todo'[k] :
           target \in todo[k] \/ target \in review_findings
  <1> USE DEF database, locks, persist, reading
  <1>1. ASSUME NEW k \in Tasks, SelectPending(k)
        PROVE  \A j \in Tasks : \A target \in todo'[j] :
                 target \in todo[j] \/ target \in review_findings
      BY <1>1 DEF SelectPending, Selected, FirstPending, Pending, Typed
  <1>2. ASSUME NEW k \in Tasks, EmbedRow(k)
        PROVE  \A j \in Tasks : \A target \in todo'[j] : target \in todo[j]
      BY <1>2 DEF EmbedRow, Typed
  <1>3. [Next]_vars => \/ \E k \in Tasks : SelectPending(k) \/ EmbedRow(k)
                       \/ todo' = todo
      BY DEF Next, vars, TaskStep, BeginSave, Upsert, ReplaceAndCommit, BeginBackfill, BackfillEnds,
             SaveFails, BackfillStops, ReaderStep, BeginRead, ReadRow, ReadFindings
  <1> QED BY <1>1, <1>2, <1>3

LEMMA StepVectors == Typed /\ RowsInv /\ VectorInv /\ [Next]_vars => VectorInv'
  <1> SUFFICES ASSUME Typed, RowsInv, VectorInv, [Next]_vars PROVE VectorInv'
      OBVIOUS
  <1>0. /\ \A k \in Tasks : \A target \in todo[k] :
             /\ target \in Rows /\ target.id < nextId
             /\ \A r \in review_findings : r.id = target.id => r.finding = target.finding
        /\ \A r \in review_findings : r.embedding \in {NoVector, r.finding}
        /\ review_findings \subseteq Rows /\ nextId \in Nat /\ nextId' \in Nat
        /\ Typed'
      BY StepTyped DEF VectorInv, VectorIsOfItsText, Typed
  <1>1. ASSUME NEW k \in Tasks, NEW target \in todo'[k]
        PROVE  /\ target \in Rows /\ target.id < nextId
               /\ \A r \in review_findings : r.id = target.id => r.finding = target.finding
      BY <1>0, TodoMoves DEF RowsInv
  <1>2. ASSUME /\ nextId' >= nextId
               /\ \A q \in review_findings' :
                    /\ q.embedding \in {NoVector, q.finding}
                    /\ \/ q.id >= nextId
                       \/ \E r \in review_findings : q.id = r.id /\ q.finding = r.finding
        PROVE  VectorInv'
    <2>1. ASSUME NEW k \in Tasks, NEW target \in todo'[k]
          PROVE  /\ target.id < nextId'
                 /\ \A q \in review_findings' : q.id = target.id => q.finding = target.finding
      <3>1. target.id \in Nat
          BY <1>1, <2>1 DEF Rows
      <3> QED BY <1>0, <1>1, <1>2, <2>1, <3>1
    <2> QED BY <1>2, <2>1 DEF VectorInv, VectorIsOfItsText
  <1>3. ASSUME NEW k \in Tasks, ReplaceAndCommit(k) PROVE VectorInv'
    <2>1. \A q \in review_findings' :
            /\ q.embedding \in {NoVector, q.finding}
            /\ q.id >= nextId \/ q \in review_findings
        BY <1>0, <1>3, SaveMoves, NewRows
    <2> QED BY <1>2, <1>3, <2>1, SaveMoves
  <1>4. ASSUME NEW k \in Tasks, EmbedRow(k) PROVE VectorInv'
    <2>1. PICK target \in todo[k] :
            /\ target \in Rows /\ review_findings' = Embedded(review_findings, target)
            /\ nextId' = nextId
            /\ review_findings \in SUBSET Rows /\ IsFiniteSet(review_findings)
        BY <1>4, EmbedMoves
    <2>2. ASSUME NEW q \in review_findings'
          PROVE  /\ q.embedding \in {NoVector, q.finding}
                 /\ \E r \in review_findings : q.id = r.id /\ q.finding = r.finding
      <3>1. PICK r \in review_findings :
              /\ q.id = r.id /\ q.finding = r.finding
              /\ q.embedding = IF r.id = target.id THEN target.finding ELSE r.embedding
          BY <2>1, <2>2, EmbeddedRows
      <3> QED BY <1>0, <3>1
    <2> QED BY <1>0, <1>2, <2>1, <2>2
  <1>5. CASE UNCHANGED <<review_findings, nextId>>
      BY <1>0, <1>2, <1>5
  <1> QED BY <1>3, <1>4, <1>5, TablesMove

\* A batch that holds the whole backlog is the whole backlog.
LEMMA WholeBacklog ==
  ASSUME Typed, RowsInv, Cardinality(Pending) <= BatchSize
  PROVE  Selected = Pending
  <1>1. Pending \subseteq review_findings /\ IsFiniteSet(Pending)
      BY FS_Subset DEF Pending, RowsInv
  <1>2. \A r \in Pending : Position(r, Pending) <= BatchSize
    <2> SUFFICES ASSUME NEW r \in Pending PROVE Position(r, Pending) <= BatchSize
        OBVIOUS
    <2> DEFINE below == {s \in Pending : s.id <= r.id}
    <2>1. below \in SUBSET Pending
        OBVIOUS
    <2> HIDE DEF below
    <2>2. /\ Cardinality(below) <= Cardinality(Pending)
          /\ Cardinality(below) \in Nat /\ Cardinality(Pending) \in Nat
        BY <1>1, <2>1, FS_Subset, FS_CardinalityType
    <2> QED BY <2>2, SizesAssumption DEF Position, below
  <1> QED BY <1>2 DEF Selected, FirstPending

LEMMA StepBackfill == Typed /\ RowsInv /\ VectorInv /\ BackfillInv /\ [Next]_vars => BackfillInv'
  <1> SUFFICES ASSUME Typed, RowsInv, VectorInv, BackfillInv, [Next]_vars,
                      NEW k \in Tasks, backfill'[k] = "all"
               PROVE  /\ pc'[k] \in {"embed", "done"}
                      /\ \A q \in review_findings' : q.by = k =>
                           \/ q.finding = Blank
                           \/ q.embedding # NoVector
                           \/ pc'[k] = "embed" /\ \E target \in todo'[k] : target.id = q.id
      BY DEF BackfillInv
  <1> DEFINE Owed(q) == pc[k] = "embed" /\ \E target \in todo[k] : target.id = q.id
             Owed2(q) == pc'[k] = "embed" /\ \E target \in todo'[k] : target.id = q.id
             Goal == /\ pc'[k] \in {"embed", "done"}
                     /\ \A q \in review_findings' : q.by = k =>
                          q.finding = Blank \/ q.embedding # NoVector \/ Owed2(q)
  <1> SUFFICES Goal
      OBVIOUS
  <1> USE DEF database, locks, persist, reading, Goto
  <1>0. ASSUME backfill[k] = "all"
        PROVE  /\ pc[k] \in {"embed", "done"}
               /\ \A r \in review_findings : r.by = k =>
                    r.finding = Blank \/ r.embedding # NoVector \/ Owed(r)
      BY <1>0 DEF BackfillInv
  <1>1. CASE UNCHANGED <<pc, todo, backfill, review_findings>>
      BY <1>0, <1>1
  <1>2. ASSUME NEW p \in Tasks \cup Readers, p # k,
               pc'[k] = pc[k], todo'[k] = todo[k], backfill'[k] = backfill[k],
               review_findings' = review_findings
        PROVE  Goal
      BY <1>0, <1>2
  <1>3. ASSUME NEW j \in Tasks,
               BeginSave(j) \/ Upsert(j) \/ BeginBackfill(j) \/ SaveFails(j)
        PROVE  Goal
    <2>1. /\ pc[j] \in {"start", "upsert", "replace", "saved"}
          /\ \A p \in Tasks \cup Readers : p # j => pc'[p] = pc[p]
          /\ UNCHANGED <<todo, backfill, review_findings>>
        BY <1>3 DEF BeginSave, Upsert, BeginBackfill, SaveFails, Typed
    <2>2. j # k
        BY <1>0, <2>1
    <2> QED BY <1>2, <2>1, <2>2
  <1>4. ASSUME NEW j \in Tasks, BackfillStops(j) PROVE Goal
    <2>1. /\ \A p \in Tasks : p # j => pc'[p] = pc[p] /\ backfill'[p] = backfill[p]
          /\ backfill'[j] = "stopped"
          /\ UNCHANGED <<todo, review_findings>>
        BY <1>4 DEF BackfillStops, Typed
    <2> QED BY <1>2, <2>1
  <1>5. ASSUME NEW j \in Tasks, ReplaceAndCommit(j) PROVE Goal
    <2>1. /\ pc[j] = "replace"
          /\ \A p \in Tasks : p # j => pc'[p] = pc[p]
          /\ UNCHANGED <<todo, backfill>>
        BY <1>5 DEF ReplaceAndCommit, Typed
    <2>2. j # k
        BY <1>0, <2>1
    <2>3. \A q \in review_findings' : q.by = k => q \in review_findings
        BY <1>5, <2>2, SaveMoves, NewRows DEF Numbered
    <2> QED BY <1>0, <2>1, <2>2, <2>3
  <1>6. ASSUME NEW j \in Tasks, SelectPending(j) PROVE Goal
    <2>1. /\ \A p \in Tasks : p # j =>
               pc'[p] = pc[p] /\ todo'[p] = todo[p] /\ backfill'[p] = backfill[p]
          /\ pc'[j] = "embed"
          /\ todo'[j] = {r \in Selected : r.finding # Blank}
          /\ backfill'[j] = IF Cardinality(Pending) <= BatchSize THEN "all" ELSE "cut off"
          /\ review_findings' = review_findings
        BY <1>6 DEF SelectPending, Typed
    <2>2. CASE j # k
        BY <1>2, <2>1, <2>2
    <2>3. CASE j = k
      <3>1. Selected = Pending
          BY <2>1, <2>3, WholeBacklog
      <3>2. \A q \in review_findings :
              q.finding = Blank \/ q.embedding # NoVector \/ q \in todo'[k]
          BY <2>1, <2>3, <3>1 DEF Pending
      <3> QED BY <2>1, <2>3, <3>2
    <2> QED BY <2>2, <2>3
  <1>7. ASSUME NEW j \in Tasks, EmbedRow(j) PROVE Goal
    <2>1. PICK target \in todo[j] :
            /\ target \in Rows /\ review_findings' = Embedded(review_findings, target)
            /\ todo' = [todo EXCEPT ![j] = @ \ {target}]
            /\ UNCHANGED <<pc, backfill>>
            /\ review_findings \in SUBSET Rows /\ IsFiniteSet(review_findings)
        BY <1>7, EmbedMoves
    <2>2. target.finding # NoVector
        BY <2>1, NobodyAssumption DEF Rows
    <2>3. \A p \in Tasks : \A t \in todo[p] : t.id = target.id \/ t \in todo'[p]
        BY <2>1 DEF Typed
    <2>4. \A q \in review_findings' : \E r \in review_findings :
            /\ q.id = r.id /\ q.finding = r.finding /\ q.by = r.by
            /\ q.embedding = IF r.id = target.id THEN target.finding ELSE r.embedding
      <3> HIDE DEF Owed, Owed2, Goal
      <3> QED BY <2>1, EmbeddedRows
    <2>5. ASSUME NEW q \in review_findings', q.by = k
          PROVE  q.finding = Blank \/ q.embedding # NoVector \/ Owed2(q)
      <3>1. PICK r \in review_findings :
              /\ q.id = r.id /\ q.finding = r.finding /\ q.by = r.by
              /\ q.embedding = IF r.id = target.id THEN target.finding ELSE r.embedding
          BY <2>4, <2>5
      <3>2. r.finding = Blank \/ r.embedding # NoVector \/ Owed(r)
          BY <1>0, <2>1, <2>5, <3>1
      <3> QED BY <2>1, <2>2, <2>3, <3>1, <3>2
    <2> QED BY <1>0, <2>1, <2>5
  <1>8. ASSUME NEW j \in Tasks, BackfillEnds(j) PROVE Goal
    <2>1. /\ \A p \in Tasks : p # j => pc'[p] = pc[p]
          /\ pc[j] = "embed" /\ pc'[j] = "done" /\ todo[j] = {}
          /\ UNCHANGED <<todo, backfill, review_findings>>
        BY <1>8 DEF BackfillEnds, Typed
    <2>2. CASE j # k
        BY <1>2, <2>1, <2>2
    <2>3. CASE j = k
        BY <1>0, <2>1, <2>3
    <2> QED BY <2>2, <2>3
  <1>9. ASSUME NEW r \in Readers, ReaderStep(r) PROVE Goal
    <2>1. /\ \A p \in Tasks : pc'[p] = pc[p]
          /\ UNCHANGED <<todo, backfill, review_findings>>
        BY <1>9, ProcessesAssumption DEF ReaderStep, BeginRead, ReadRow, ReadFindings, Typed
    <2> QED BY <1>0, <2>1
  <1> QED BY <1>1, <1>3, <1>4, <1>5, <1>6, <1>7, <1>8, <1>9 DEF Next, TaskStep, vars

LEMMA VectorsAlways == Spec => [](VectorInv /\ BackfillInv)
  BY RowsAlways, InitVectors, StepVectors, StepBackfill, PTL DEF Spec

\* However saves and backfills of any number of tasks interleave, no finding gets
\* the vector of another text, and a backfill that was not cut short leaves none
\* of its own findings without one.
THEOREM VectorsBelong == Spec => []VectorsAreOwn
  <1>1. VectorInv /\ BackfillInv => VectorsAreOwn
      BY DEF VectorInv, BackfillInv, VectorsAreOwn, BackfillReachesOwn
  <1> QED BY <1>1, VectorsAlways, PTL

-----------------------------------------------------------------------------
(* Content.  Every thread has the row and the findings of one save: the ids that  *)
(* a save hands out are consecutive, and an embedding leaves them alone.           *)

LEMMA InitContent == Init => ContentInv
  BY DEF Init, ContentInv, FindingsOf

\* Rows that differ in their vectors only are those of the same save.
LEMMA NumberedKept ==
  ASSUME NEW rows, NEW rows2, NEW first, NEW findings, NEW k, Numbered(rows, first, findings, k),
         \A q \in rows2 : \E r \in rows : q.id = r.id /\ q.finding = r.finding /\ q.by = r.by,
         \A r \in rows : \E q \in rows2 : q.id = r.id
  PROVE  Numbered(rows2, first, findings, k)
  BY DEF Numbered

LEMMA StepContent == Typed /\ RowsInv /\ ContentInv /\ [Next]_vars => ContentInv'
  <1> SUFFICES ASSUME Typed, RowsInv, ContentInv, [Next]_vars PROVE ContentInv'
      OBVIOUS
  <1>0. state' = state /\ thread' = thread /\ nextId \in Nat /\ nextId' \in Nat
      BY TablesMove, StepTyped DEF Typed
  <1>1. ASSUME NEW t \in Threads, reviews'[t] = reviews[t], nextId' >= nextId,
               \A q \in FindingsOf(t)' : \E r \in FindingsOf(t) :
                 q.id = r.id /\ q.finding = r.finding /\ q.by = r.by,
               \A r \in FindingsOf(t) : \E q \in FindingsOf(t)' : q.id = r.id
        PROVE  \/ reviews'[t] = NoRow /\ FindingsOf(t)' = {}
               \/ /\ reviews'[t].by \in Tasks
                  /\ reviews'[t].finding_count = Len(state'[reviews'[t].by])
                  /\ \E first \in 0 .. nextId' :
                       Numbered(FindingsOf(t)', first, state'[reviews'[t].by], reviews'[t].by)
    <2>1. CASE reviews[t] = NoRow /\ FindingsOf(t) = {}
        BY <1>1, <2>1
    <2>2. CASE ~(reviews[t] = NoRow /\ FindingsOf(t) = {})
      <3>1. /\ reviews[t].by \in Tasks
            /\ reviews[t].finding_count = Len(state[reviews[t].by])
          BY <2>2 DEF ContentInv
      <3>2. PICK first \in 0 .. nextId :
              Numbered(FindingsOf(t), first, state[reviews[t].by], reviews[t].by)
          BY <2>2 DEF ContentInv
      <3>3. Numbered(FindingsOf(t)', first, state[reviews[t].by], reviews[t].by)
          BY <1>1, <3>2, NumberedKept
      <3>4. first \in 0 .. nextId'
          BY <1>0, <1>1
      <3> QED BY <1>0, <1>1, <3>1, <3>3, <3>4
    <2> QED BY <2>1, <2>2
  <1>2. ASSUME NEW k \in Tasks, ReplaceAndCommit(k) PROVE ContentInv'
    <2>1. /\ reviews' = [reviews EXCEPT ![thread[k]] = RowOf(k)]
          /\ nextId' >= nextId
          /\ FindingsOf(thread[k])' = NewFindings(k)
          /\ \A t \in Threads \ {thread[k]} : FindingsOf(t)' = FindingsOf(t)
          /\ Numbered(NewFindings(k), nextId, state[k], k)
        BY <1>2, SaveMoves, NewRows DEF ReplaceAndCommit
    <2>2. ASSUME NEW t \in Threads, t # thread[k]
          PROVE  \/ reviews'[t] = NoRow /\ FindingsOf(t)' = {}
                 \/ /\ reviews'[t].by \in Tasks
                    /\ reviews'[t].finding_count = Len(state'[reviews'[t].by])
                    /\ \E first \in 0 .. nextId' :
                         Numbered(FindingsOf(t)', first, state'[reviews'[t].by], reviews'[t].by)
      <3>1. reviews'[t] = reviews[t] /\ FindingsOf(t)' = FindingsOf(t)
          BY <2>1, <2>2 DEF Typed
      <3> QED BY <1>1, <2>1, <3>1
    <2>3. /\ reviews'[thread[k]].by = k
          /\ reviews'[thread[k]].finding_count = Len(state[k])
        BY <2>1 DEF Typed, RowOf
    <2>4. nextId \in 0 .. nextId'
        BY <1>0, <2>1
    <2>5. /\ reviews'[thread[k]].by \in Tasks
          /\ reviews'[thread[k]].finding_count = Len(state'[reviews'[thread[k]].by])
          /\ \E first \in 0 .. nextId' :
               Numbered(FindingsOf(thread[k])', first, state'[reviews'[thread[k]].by],
                        reviews'[thread[k]].by)
        BY <1>0, <2>1, <2>3, <2>4
    <2> QED BY <1>0, <2>2, <2>5 DEF ContentInv
  <1>3. ASSUME NEW k \in Tasks, EmbedRow(k) PROVE ContentInv'
    <2>1. PICK target \in todo[k] :
            /\ target \in Rows /\ review_findings' = Embedded(review_findings, target)
            /\ reviews' = reviews /\ nextId' = nextId
            /\ review_findings \in SUBSET Rows /\ IsFiniteSet(review_findings)
        BY <1>3, EmbedMoves
    <2>2. /\ \A q \in review_findings' : \E r \in review_findings :
               q.id = r.id /\ q.thread = r.thread /\ q.finding = r.finding /\ q.by = r.by
          /\ \A r \in review_findings : \E q \in review_findings' :
               q.id = r.id /\ q.thread = r.thread
        BY <2>1, EmbeddedRows
    <2>3. ASSUME NEW t \in Threads
          PROVE  /\ \A q \in FindingsOf(t)' : \E r \in FindingsOf(t) :
                      q.id = r.id /\ q.finding = r.finding /\ q.by = r.by
                 /\ \A r \in FindingsOf(t) : \E q \in FindingsOf(t)' : q.id = r.id
        BY <2>2 DEF FindingsOf
    <2> QED BY <1>0, <1>1, <2>1, <2>3 DEF ContentInv
  <1>4. CASE UNCHANGED <<reviews, review_findings, nextId>>
    <2>1. \A t \in Threads : FindingsOf(t)' = FindingsOf(t)
        BY <1>4 DEF FindingsOf
    <2> QED BY <1>0, <1>4, <2>1 DEF ContentInv
  <1> QED BY <1>2, <1>3, <1>4, TablesMove

\* What the tables hold of a thread.
LEMMA ContentOfThread ==
  ASSUME Typed, RowsInv, ContentInv, NEW t \in Threads
  PROVE  /\ Cardinality(FindingsOf(t)) = reviews[t].finding_count
         /\ \A f \in FindingsOf(t) : f.by = reviews[t].by
         /\ reviews[t] = NoRow =>
              reviews[t].finding_count = 0 /\ InIdOrder(FindingsOf(t)) = <<>>
         /\ reviews[t] # NoRow =>
              /\ reviews[t].by \in Tasks
              /\ reviews[t].finding_count = Len(state[reviews[t].by])
              /\ InIdOrder(FindingsOf(t)) = state[reviews[t].by]
  <1>1. CASE reviews[t] = NoRow /\ FindingsOf(t) = {}
    <2>1. Cardinality({}) = 0
        BY FS_EmptySet
    <2>2. InIdOrder({}) = <<>>
        BY <2>1 DEF InIdOrder
    <2> QED BY <1>1, <2>1, <2>2 DEF NoRow
  <1>2. CASE ~(reviews[t] = NoRow /\ FindingsOf(t) = {})
    <2> DEFINE k == reviews[t].by
    <2>1. k \in Tasks /\ reviews[t].finding_count = Len(state[k])
        BY <1>2 DEF ContentInv
    <2>2. PICK first \in 0 .. nextId : Numbered(FindingsOf(t), first, state[k], k)
        BY <1>2 DEF ContentInv
    <2>3. /\ FindingsOf(t) \in SUBSET Rows /\ state[k] \in Seq(Findings) /\ first \in Nat
          /\ \A r, s \in FindingsOf(t) : r.id = s.id => r = s
        BY <2>1, StatesAssumption DEF FindingsOf, Typed, RowsInv
    <2>4. Cardinality(FindingsOf(t)) = Len(state[k]) /\ InIdOrder(FindingsOf(t)) = state[k]
        BY <2>2, <2>3, NumberedRows
    <2>5. \A f \in FindingsOf(t) : f.by = k
        BY <2>2 DEF Numbered
    <2>6. reviews[t] # NoRow
        BY <2>1, NobodyAssumption DEF NoRow
    <2> QED BY <2>1, <2>4, <2>5, <2>6
  <1> QED BY <1>1, <1>2

LEMMA ContentAlways == Spec => []ContentInv
  BY RowsAlways, InitContent, StepContent, PTL DEF Spec

-----------------------------------------------------------------------------
(* Reads.                                                                   *)

LEMMA InitRead == Init => ReadInv
  BY DEF Init, ReadInv, Reading

LEMMA StepRead == Typed /\ RowsInv /\ ContentInv /\ ReadInv /\ [Next]_vars => ReadInv'
  <1> SUFFICES ASSUME Typed, RowsInv, ContentInv, ReadInv, [Next]_vars,
                      NEW r \in Readers
               PROVE  Reading(r)'
      BY DEF ReadInv
  <1> USE DEF database, locks, persist, reading, Goto
  <1>0. Reading(r) /\ thread[r] \in Threads /\ thread' = thread /\ r \notin Tasks
      BY TablesMove, ProcessesAssumption DEF ReadInv, Typed
  <1>1. ASSUME pc'[r] = pc[r], got'[r] = got[r], r \notin overtaken' => r \notin overtaken,
               pc[r] = "findings" /\ r \notin overtaken' =>
                 reviews'[thread[r]] = reviews[thread[r]]
        PROVE  Reading(r)'
      BY <1>0, <1>1 DEF Reading
  <1>2. CASE UNCHANGED vars
      BY <1>1, <1>2 DEF vars
  <1>3. ASSUME NEW k \in Tasks, ReplaceAndCommit(k) PROVE Reading(r)'
    <2>1. /\ pc'[r] = pc[r] /\ got' = got
          /\ overtaken' = overtaken \cup {q \in Readers : pc[q] = "findings" /\ thread[q] = thread[k]}
          /\ thread[r] # thread[k] => reviews'[thread[r]] = reviews[thread[r]]
        BY <1>0, <1>3 DEF ReplaceAndCommit, Typed
    <2> QED BY <1>1, <2>1
  <1>4. ASSUME NEW k \in Tasks,
               TaskStep(k) \/ SaveFails(k) \/ BackfillStops(k), ~ReplaceAndCommit(k)
        PROVE  Reading(r)'
    <2>1. pc'[r] = pc[r] /\ UNCHANGED <<got, overtaken, reviews>>
        BY <1>0, <1>4 DEF TaskStep, BeginSave, Upsert, ReviewsAfterUpsert, BeginBackfill, SelectPending,
                          EmbedRow, BackfillEnds, SaveFails, BackfillStops, Typed
    <2> QED BY <1>1, <2>1
  <1>5. ASSUME NEW q \in Readers, q # r, ReaderStep(q) PROVE Reading(r)'
    <2>1. pc'[r] = pc[r] /\ got'[r] = got[r] /\ UNCHANGED <<overtaken, reviews>>
        BY <1>5 DEF ReaderStep, BeginRead, ReadRow, ReadFindings, Typed
    <2> QED BY <1>1, <2>1
  <1>6. CASE BeginRead(r)
    <2>1. pc[r] = "start" /\ pc'[r] = "row" /\ got' = got
        BY <1>6 DEF BeginRead, Typed
    <2> QED BY <1>0, <2>1 DEF Reading
  <1>7. CASE ReadRow(r)
    <2>1. /\ pc[r] = "row" /\ got[r] = NothingGot
          /\ UNCHANGED <<reviews, overtaken>>
          /\ got'[r] = [got[r] EXCEPT !.row = reviews[thread[r]]]
          /\ pc'[r] = IF reviews[thread[r]] = NoRow THEN "done" ELSE "findings"
        BY <1>0, <1>7 DEF ReadRow, Typed, Reading
    <2>2. got'[r].row = reviews[thread[r]] /\ got'[r].findings = {}
        BY <2>1 DEF NothingGot
    <2>3. CASE reviews[thread[r]] = NoRow
      <3>1. Cardinality(got'[r].findings) = got'[r].row.finding_count
          BY <2>2, <2>3, FS_EmptySet DEF NoRow
      <3> QED BY <2>1, <2>2, <2>3, <3>1 DEF Reading
    <2>4. CASE reviews[thread[r]] # NoRow
        BY <1>0, <2>1, <2>2, <2>4 DEF Reading
    <2> QED BY <2>3, <2>4
  <1>8. CASE ReadFindings(r)
    <2>1. /\ pc[r] = "findings" /\ pc'[r] = "done" /\ UNCHANGED overtaken
          /\ got'[r] = [got[r] EXCEPT !.findings = FindingsOf(thread[r])]
          /\ got[r] \in Results
        BY <1>0, <1>8 DEF ReadFindings, Typed
    <2>2. got'[r].findings = FindingsOf(thread[r]) /\ got'[r].row = got[r].row
        BY <2>1 DEF Results
    <2>3. r \notin overtaken => got[r].row = reviews[thread[r]]
        BY <1>0, <2>1 DEF Reading
    <2>4. /\ Cardinality(FindingsOf(thread[r])) = reviews[thread[r]].finding_count
          /\ \A f \in FindingsOf(thread[r]) : f.by = reviews[thread[r]].by
        BY <1>0, ContentOfThread
    <2> QED BY <2>1, <2>2, <2>3, <2>4 DEF Reading
  <1> QED BY <1>2, <1>3, <1>4, <1>5, <1>6, <1>7, <1>8 DEF Next, ReaderStep, TaskStep

\* A reader between whose two queries no save of its thread committed has the row
\* and the findings of one save, though it reads them in no transaction.
THEOREM ReadsAreWhole == Spec => []ReadsOneSave
  <1>1. ReadInv => ReadsOneSave
      BY DEF ReadInv, Reading, ReadsOneSave
  <1>2. Spec => []ReadInv
      BY RowsAlways, ContentAlways, InitRead, StepRead, PTL DEF Spec
  <1> QED BY <1>1, <1>2, PTL

-----------------------------------------------------------------------------
(* Refinement.  A commit is the Save of StoreContract, an embedding a stutter.  *)

\* What a thread's saved state is, whatever vectors its rows have.
Content(t) ==
  IF reviews[t] = NoRow THEN Contract!NothingSaved
  ELSE [count |-> Len(state[reviews[t].by]), findings |-> state[reviews[t].by], exists |-> TRUE]

SavedIsContent == \A t \in Threads : Saved(t) = Content(t)

LEMMA ContentSaved == Typed /\ RowsInv /\ ContentInv => SavedIsContent
  <1> SUFFICES ASSUME Typed, RowsInv, ContentInv, NEW t \in Threads PROVE Saved(t) = Content(t)
      BY DEF SavedIsContent
  <1>1. CASE reviews[t] = NoRow
    <2>1. reviews[t].finding_count = 0 /\ InIdOrder(FindingsOf(t)) = <<>>
        BY <1>1, ContentOfThread
    <2>2. (reviews[t] # NoRow) = FALSE
        BY <1>1
    <2> QED BY <1>1, <2>1, <2>2 DEF Saved, Content, Contract!NothingSaved
  <1>2. CASE reviews[t] # NoRow
    <2>1. /\ reviews[t].finding_count = Len(state[reviews[t].by])
          /\ InIdOrder(FindingsOf(t)) = state[reviews[t].by]
        BY <1>2, ContentOfThread
    <2>2. (reviews[t] # NoRow) = TRUE
        BY <1>2
    <2> QED BY <1>2, <2>1, <2>2 DEF Saved, Content
  <1> QED BY <1>1, <1>2

LEMMA InitStore == Typed /\ SavedIsContent /\ Init => Contract!ContractInit
  <1> SUFFICES ASSUME SavedIsContent, Init PROVE Contract!ContractInit
      OBVIOUS
  <1>1. \A t \in Threads : Saved(t) = Contract!NothingSaved
      BY DEF SavedIsContent, Content, Init
  <1> QED BY <1>1 DEF Contract!ContractInit

LEMMA StepStore ==
  Typed /\ SavedIsContent /\ SavedIsContent' /\ [Next]_vars =>
    [\E t \in Threads, findings \in States : Contract!Save(t, findings)]_
       ([t \in Threads |-> Saved(t)])
  <1> DEFINE saved == [t \in Threads |-> Saved(t)]
  <1> SUFFICES ASSUME Typed, SavedIsContent, SavedIsContent', [Next]_vars
               PROVE  \/ \E t \in Threads, findings \in States : Contract!Save(t, findings)
                      \/ saved' = saved
      OBVIOUS
  <1>0. state' = state /\ thread' = thread
      BY TablesMove
  <1>1. /\ saved = [t \in Threads |-> Content(t)]
        /\ saved' = [t \in Threads |-> Content(t)']
      BY DEF SavedIsContent
  <1>2. CASE UNCHANGED reviews
    <2>1. \A t \in Threads : Content(t)' = Content(t)
        BY <1>0, <1>2 DEF Content, Contract!NothingSaved
    <2> QED BY <1>1, <2>1
  <1>3. ASSUME NEW k \in Tasks, ReplaceAndCommit(k)
        PROVE  Contract!Save(thread[k], state[k])
    <2>1. reviews' = [reviews EXCEPT ![thread[k]] = RowOf(k)] /\ thread[k] \in Threads
        BY <1>3 DEF ReplaceAndCommit, Typed
    <2>2. \A t \in Threads : t # thread[k] => Content(t)' = Content(t)
        BY <1>0, <2>1 DEF Content, Typed, Contract!NothingSaved
    <2>3. reviews'[thread[k]].by = k /\ reviews'[thread[k]] # NoRow
        BY <2>1, NobodyAssumption DEF Typed, RowOf, NoRow
    <2>4. Content(thread[k])' = [count |-> Len(state[k]), findings |-> state[k], exists |-> TRUE]
        BY <1>0, <2>3 DEF Content
    <2>5. saved' = [saved EXCEPT ![thread[k]] =
                      [count |-> Len(state[k]), findings |-> state[k], exists |-> TRUE]]
        BY <1>0, <1>1, <2>1, <2>2, <2>4
    <2> QED BY <2>5 DEF Contract!Save
  <1>4. \A k \in Tasks : thread[k] \in Threads /\ state[k] \in States
      BY DEF Typed
  <1>5. (\E k \in Tasks : ReplaceAndCommit(k)) \/ UNCHANGED reviews
      BY TablesMove DEF EmbedRow
  <1> QED BY <1>2, <1>3, <1>4, <1>5

\* For any number of tasks, failures at any point included, the review and its
\* findings of a thread change together, from one saved state to another.
THEOREM StoreImplementsContract == Spec => SavesAreAtomic
  <1>1. Spec => [](Typed /\ SavedIsContent)
      BY RowsAlways, ContentAlways, ContentSaved, PTL
  <1> QED BY <1>1, InitTyped, InitStore, StepStore, PTL DEF Spec, SavesAreAtomic, Contract!ContractSpec

-----------------------------------------------------------------------------
(* The pool.                                                                 *)

\* A coroutine that acquires a connection holds one ...
LEMMA PoolTakes ==
  ASSUME Typed, PoolInv, NEW p \in Tasks \cup Readers, NEW label \in Holding,
         pc[p] \notin Holding, Acquired, Goto(p, label)
  PROVE  PoolInv'
  <1>1. pc \in [Tasks \cup Readers -> Places] /\ pc' = [pc EXCEPT ![p] = label]
      BY DEF Typed, Goto
  <1>2. Holders' = Holders \cup {p} /\ p \notin Holders
      BY <1>1 DEF Holders
  <1>3. IsFiniteSet(Holders') /\ Cardinality(Holders') = Cardinality(Holders) + 1
      BY <1>2, FS_AddElement DEF PoolInv
  <1>4. free' = free - 1 /\ free > 0 /\ free \in Int
      BY DEF Acquired, Typed
  <1> QED BY <1>3, <1>4, FS_CardinalityType, SizesAssumption DEF PoolInv

\* ... one that leaves the block returns it ...
LEMMA PoolReturns ==
  ASSUME Typed, PoolInv, NEW p \in Tasks \cup Readers, NEW label \in Places \ Holding,
         pc[p] \in Holding, free' = Released(p), Goto(p, label)
  PROVE  PoolInv'
  <1>1. pc \in [Tasks \cup Readers -> Places] /\ pc' = [pc EXCEPT ![p] = label]
      BY DEF Typed, Goto
  <1>2. Holders' = Holders \ {p} /\ p \in Holders
      BY <1>1 DEF Holders
  <1>3. IsFiniteSet(Holders') /\ Cardinality(Holders') = Cardinality(Holders) - 1
      BY <1>2, FS_RemoveElement DEF PoolInv
  <1>4. free' = free + 1 /\ free \in Int
      BY DEF Released, Typed
  <1> QED BY <1>3, <1>4, FS_CardinalityType, SizesAssumption DEF PoolInv

\* ... and one that goes on inside it, or outside, changes nothing.
LEMMA PoolStays ==
  ASSUME Typed, PoolInv, NEW p \in Tasks \cup Readers, NEW label \in Places,
         pc[p] \in Holding <=> label \in Holding, free' = free, Goto(p, label)
  PROVE  PoolInv'
  <1>1. Holders' = Holders
      BY DEF Holders, Typed, Goto
  <1> QED BY <1>1 DEF PoolInv

LEMMA InitPool == Init => PoolInv
  <1> SUFFICES ASSUME Init PROVE PoolInv
      OBVIOUS
  <1>1. Holders = {}
      BY DEF Init, Holders, Holding
  <1> QED BY <1>1, FS_EmptySet, SizesAssumption DEF Init, PoolInv

LEMMA StepPool == Typed /\ PoolInv /\ [Next]_vars => PoolInv'
  <1> SUFFICES ASSUME Typed, PoolInv, [Next]_vars PROVE PoolInv'
      OBVIOUS
  <1> USE DEF Holding, Places
  <1>0. ASSUME UNCHANGED <<pc, free>> PROVE PoolInv'
      BY <1>0 DEF PoolInv, Holders
  <1>1. ASSUME NEW k \in Tasks, TaskStep(k) \/ SaveFails(k) \/ BackfillStops(k) PROVE PoolInv'
    <2>1. CASE BeginSave(k) \/ BeginBackfill(k)
        BY <2>1, PoolTakes DEF BeginSave, BeginBackfill
    <2>2. CASE Upsert(k) \/ SelectPending(k)
        BY <2>2, PoolStays DEF Upsert, SelectPending, locks
    <2>3. CASE ReplaceAndCommit(k) \/ BackfillEnds(k)
        BY <2>3, PoolReturns DEF ReplaceAndCommit, BackfillEnds
    <2>4. CASE EmbedRow(k)
        BY <1>0, <2>4 DEF EmbedRow, locks
    <2>5. CASE SaveFails(k)
        BY <2>5, PoolStays, PoolReturns DEF SaveFails
    <2>6. CASE BackfillStops(k)
        BY <2>6, PoolStays, PoolReturns DEF BackfillStops
    <2> QED BY <1>1, <2>1, <2>2, <2>3, <2>4, <2>5, <2>6 DEF TaskStep
  <1>2. ASSUME NEW r \in Readers, ReaderStep(r) PROVE PoolInv'
    <2>1. CASE BeginRead(r)
        BY <2>1, PoolTakes DEF BeginRead
    <2>2. CASE ReadRow(r)
        BY <2>2, PoolStays, PoolReturns DEF ReadRow
    <2>3. CASE ReadFindings(r)
        BY <2>3, PoolReturns DEF ReadFindings
    <2> QED BY <1>2, <2>1, <2>2, <2>3 DEF ReaderStep
  <1>3. CASE UNCHANGED vars
      BY <1>0, <1>3 DEF vars, locks
  <1> QED BY <1>1, <1>2, <1>3 DEF Next

\* Every variable keeps its type; the pool never lends more connections than it
\* has nor gets back more than it lent, whichever statement of whichever
\* coroutine fails, because each connection is idle or in one block.
THEOREM TypeCorrect == Spec => []TypeOK
  <1>1. Typed /\ PoolInv => TypeOK
    <2> SUFFICES ASSUME Typed, PoolInv PROVE TypeOK
        OBVIOUS
    <2>1. Cardinality(Holders) \in Nat
        BY FS_CardinalityType DEF PoolInv
    <2>2. free \in 0 .. PoolSize
        BY <2>1, SizesAssumption DEF Typed, PoolInv
    <2> QED BY <2>2, Zenon DEF Typed, TypeOK, Places, ReviewRows, Results, Outcomes
  <1>2. Init => Typed /\ PoolInv
      BY InitTyped, InitPool
  <1>3. Typed /\ PoolInv /\ [Next]_vars => Typed' /\ PoolInv'
      BY StepTyped, StepPool
  <1> QED BY <1>1, <1>2, <1>3, PTL DEF Spec
=============================================================================
