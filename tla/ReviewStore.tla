----------------------------- MODULE ReviewStore -----------------------------
(***************************************************************************)
(* storage/review_store.py against Postgres, and its callers: tasks that end    *)
(* a review in _persist_review (main.py: save_review, then embed_pending) and    *)
(* HTTP requests that read one (get_review, two queries).  Every operation        *)
(* borrows a connection of the pool.  A transaction is visible to others when it      *)
(* commits, so what follows its upsert, which takes the row's lock, is one action.    *)
(***************************************************************************)
EXTENDS Naturals, FiniteSets, Sequences

CONSTANTS
  Tasks,     \* tasks that persist a review, each once
  Readers,   \* requests that read one
  Threads,
  Findings,  \* finding dicts, told apart by their canonical text
  Blank,     \* the finding without file, category and issue
  States,    \* the sequences of findings a state may be saved with
  PoolSize,  \* max_size of the asyncpg pool
  BatchSize, \* batch_size of embed_pending
  NoOne, NoVector

ASSUME StatesAssumption == States \subseteq Seq(Findings) /\ Blank \in Findings
ASSUME SizesAssumption == PoolSize \in Nat \ {0} /\ BatchSize \in Nat \ {0}
ASSUME NobodyAssumption == NoOne \notin Tasks /\ NoVector \notin Findings
ASSUME ProcessesAssumption == Tasks \cap Readers = {}

VARIABLES
  reviews,         \* [Threads -> the row: the task that saved it, finding_count]
  review_findings, \* the committed rows of that table
  nextId,          \* its BIGSERIAL
  rowLock,         \* [Threads -> the task whose transaction holds the row]
  free,            \* idle connections of the pool
  pc,              \* [Tasks \cup Readers -> where the coroutine is]
  thread,          \* [Tasks \cup Readers -> the thread it works on]
  state,           \* [Tasks -> the findings of the state it saves]
  todo,            \* [Tasks -> the rows embed_pending has still to embed]
  backfill,        \* history: how the backfill of a task ended
  got,             \* [Readers -> what the two queries returned]
  overtaken        \* history: readers between whose queries a save committed

database == <<reviews, review_findings, nextId>>
locks == <<rowLock, free>>
persist == <<state, todo, backfill>>
reading == <<got, overtaken>>
vars == <<database, locks, pc, thread, persist, reading>>

NoRow == [by |-> NoOne, finding_count |-> 0]
NothingGot == [row |-> NoRow, findings |-> {}]

FindingsOf(t) == {r \in review_findings : r.thread = t}

Init ==
  /\ reviews = [t \in Threads |-> NoRow]
  /\ review_findings = {}
  /\ nextId = 1
  /\ rowLock = [t \in Threads |-> NoOne]
  /\ free = PoolSize
  /\ pc = [p \in Tasks \cup Readers |-> "start"]
  /\ thread \in [Tasks \cup Readers -> Threads]
  /\ state \in [Tasks -> States]
  /\ todo = [k \in Tasks |-> {}]
  /\ backfill = [k \in Tasks |-> "none"]
  /\ got = [r \in Readers |-> NothingGot]
  /\ overtaken = {}

Goto(p, label) == pc' = [pc EXCEPT ![p] = label]

\* pool.acquire() waits for a free connection, and leaving the block returns it.
Acquired == free > 0 /\ free' = free - 1

KeptFor(p) == free

Released(p) == free + 1

-----------------------------------------------------------------------------
(* save_review: one transaction.                                            *)

BeginSave(k) ==
  /\ pc[k] = "start"
  /\ Acquired
  /\ Goto(k, "upsert")
  /\ UNCHANGED <<database, rowLock, thread, persist, reading>>

RowOf(k) == [by |-> k, finding_count |-> Len(state[k])]

VisibleAtUpsert(k) == [reviews EXCEPT ![thread[k]] = RowOf(k)]

\* The transaction has not committed.
ReviewsAfterUpsert(k) == reviews

\* INSERT .. ON CONFLICT DO UPDATE waits for a transaction that holds the row.
Upsert(k) ==
  /\ pc[k] = "upsert"
  /\ rowLock[thread[k]] = NoOne
  /\ rowLock' = [rowLock EXCEPT ![thread[k]] = k]
  /\ reviews' = ReviewsAfterUpsert(k)
  /\ Goto(k, "replace")
  /\ UNCHANGED <<review_findings, nextId, free, thread, persist, reading>>

NewFindings(k) ==
  {[id |-> nextId + i - 1, thread |-> thread[k], finding |-> state[k][i],
    by |-> k, embedding |-> NoVector] : i \in DOMAIN state[k]}

KeepsOldFindings(t) == review_findings

WithoutFindings(t) == review_findings \ FindingsOf(t)

\* DELETE, one INSERT per finding and COMMIT: nobody sees a part of them, and nobody
\* else can add findings of a locked row.
ReplaceAndCommit(k) ==
  /\ pc[k] = "replace"
  /\ reviews' = [reviews EXCEPT ![thread[k]] = RowOf(k)]
  /\ review_findings' = WithoutFindings(thread[k]) \cup NewFindings(k)
  /\ nextId' = nextId + Len(state[k])
  /\ rowLock' = [rowLock EXCEPT ![thread[k]] = NoOne]
  /\ free' = Released(k)
  /\ overtaken' = overtaken \cup {r \in Readers : pc[r] = "findings" /\ thread[r] = thread[k]}
  /\ Goto(k, "saved")
  /\ UNCHANGED <<thread, persist, got>>

\* Stop, an error of the database, or no connection in time: rolled back, and
\* _persist_review returns.
SaveFails(k) ==
  /\ pc[k] \in {"start", "upsert", "replace"}
  /\ free' = IF pc[k] = "start" THEN free ELSE Released(k)
  /\ rowLock' = [t \in Threads |-> IF rowLock[t] = k THEN NoOne ELSE rowLock[t]]
  /\ Goto(k, "done")
  /\ UNCHANGED <<database, thread, persist, reading>>

-----------------------------------------------------------------------------
(* embed_pending: one connection, a statement per row.                      *)

BeginBackfill(k) ==
  /\ pc[k] = "saved"
  /\ Acquired
  /\ Goto(k, "select")
  /\ UNCHANGED <<database, rowLock, thread, persist, reading>>

Pending == {r \in review_findings : r.embedding = NoVector}

\* ORDER BY id.
Position(r, rows) == Cardinality({s \in rows : s.id <= r.id})

FirstPending(n) == {r \in Pending : Position(r, Pending) <= n}

SelectedOneLess == FirstPending(BatchSize - 1)

\* ORDER BY id LIMIT batch_size: rows without text count.
Selected == FirstPending(BatchSize)

SelectPending(k) ==
  /\ pc[k] = "select"
  /\ todo' = [todo EXCEPT ![k] = {r \in Selected : r.finding # Blank}]
  /\ backfill' = [backfill EXCEPT ![k] =
                    IF Cardinality(Pending) <= BatchSize THEN "all" ELSE "cut off"]
  /\ Goto(k, "embed")
  /\ UNCHANGED <<database, locks, thread, state, reading>>

SameThread(r, target) == r.thread = target.thread

SameRow(r, target) == r.id = target.id

\* UPDATE .. WHERE id stores the vector of target's text if the row is still there.
Embedded(rows, target) ==
  {IF SameRow(r, target) THEN [r EXCEPT !.embedding = target.finding] ELSE r : r \in rows}

\* The vector of the next row's text has come.
EmbedRow(k) ==
  /\ pc[k] = "embed"
  /\ \E target \in todo[k] :
       /\ \A other \in todo[k] : target.id <= other.id
       /\ review_findings' = Embedded(review_findings, target)
       /\ todo' = [todo EXCEPT ![k] = @ \ {target}]
  /\ UNCHANGED <<reviews, nextId, locks, pc, thread, state, backfill, reading>>

BackfillEnds(k) ==
  /\ pc[k] = "embed" /\ todo[k] = {}
  /\ free' = Released(k)
  /\ Goto(k, "done")
  /\ UNCHANGED <<database, rowLock, thread, persist, reading>>

\* No embedder, embed() returned None, an error of the database, or Stop.
BackfillStops(k) ==
  /\ pc[k] \in {"saved", "select", "embed"}
  /\ free' = IF pc[k] = "saved" THEN free ELSE Released(k)
  /\ backfill' = [backfill EXCEPT ![k] = "stopped"]
  /\ Goto(k, "done")
  /\ UNCHANGED <<database, rowLock, thread, state, todo, reading>>

-----------------------------------------------------------------------------
(* get_review: two queries on one connection, no transaction.               *)

BeginRead(r) ==
  /\ pc[r] = "start"
  /\ Acquired
  /\ Goto(r, "row")
  /\ UNCHANGED <<database, rowLock, thread, persist, reading>>

ReadRow(r) ==
  /\ pc[r] = "row"
  /\ got' = [got EXCEPT ![r].row = reviews[thread[r]]]
  /\ IF reviews[thread[r]] = NoRow
     THEN Goto(r, "done") /\ free' = Released(r)
     ELSE Goto(r, "findings") /\ UNCHANGED free
  /\ UNCHANGED <<database, rowLock, thread, persist, overtaken>>

ReadFindings(r) ==
  /\ pc[r] = "findings"
  /\ got' = [got EXCEPT ![r].findings = FindingsOf(thread[r])]
  /\ free' = Released(r)
  /\ Goto(r, "done")
  /\ UNCHANGED <<database, rowLock, thread, persist, overtaken>>

TaskStep(k) ==
  \/ BeginSave(k) \/ Upsert(k) \/ ReplaceAndCommit(k)
  \/ BeginBackfill(k) \/ SelectPending(k) \/ EmbedRow(k) \/ BackfillEnds(k)

ReaderStep(r) == BeginRead(r) \/ ReadRow(r) \/ ReadFindings(r)

Next ==
  \/ \E k \in Tasks : TaskStep(k) \/ SaveFails(k) \/ BackfillStops(k)
  \/ \E r \in Readers : ReaderStep(r)

Spec == Init /\ [][Next]_vars

\* The event loop runs every coroutine, the pool and Postgres serve waiters in
\* order, and queries and embedding calls end.
FairSpec ==
  /\ Spec
  /\ \A k \in Tasks : SF_vars(TaskStep(k))
  /\ \A r \in Readers : SF_vars(ReaderStep(r))

-----------------------------------------------------------------------------

Rows == [id : Nat, thread : Threads, finding : Findings, by : Tasks,
         embedding : Findings \cup {NoVector}]

\* The type of every variable.
TypeOK ==
  /\ reviews \in [Threads -> [by : Tasks \cup {NoOne}, finding_count : Nat]]
  /\ review_findings \subseteq Rows
  /\ nextId \in Nat
  /\ rowLock \in [Threads -> Tasks \cup {NoOne}]
  /\ free \in 0 .. PoolSize
  /\ pc \in [Tasks \cup Readers -> {"start", "upsert", "replace", "saved", "select",
                                    "embed", "row", "findings", "done"}]
  /\ thread \in [Tasks \cup Readers -> Threads]
  /\ state \in [Tasks -> States]
  /\ todo \in [Tasks -> SUBSET Rows]
  /\ backfill \in [Tasks -> {"none", "all", "cut off", "stopped"}]
  /\ got \in [Readers -> [row : [by : Tasks \cup {NoOne}, finding_count : Nat],
                          findings : SUBSET Rows]]
  /\ overtaken \in SUBSET Readers

InIdOrder(rows) ==
  [i \in 1 .. Cardinality(rows) |-> (CHOOSE r \in rows : Position(r, rows) = i).finding]

\* What the tables hold of a thread, in the order get_review returns it.
Saved(t) ==
  [count |-> reviews[t].finding_count,
   findings |-> InIdOrder(FindingsOf(t)),
   exists |-> reviews[t] # NoRow]

Contract == INSTANCE StoreContract WITH saved <- [t \in Threads |-> Saved(t)]

\* However saves, backfills and failures interleave, a thread's row and its
\* findings change together, to one saved state as a whole.
SavesAreAtomic == Contract!ContractSpec

\* A vector was computed from the text of the very row it is stored in, although
\* the rows embed_pending selected may be gone, or replaced, by the time it comes.
VectorIsOfItsText ==
  \A r \in review_findings : r.embedding \in {NoVector, r.finding}

\* "Embed any unembedded findings (including the ones we just inserted)": a
\* backfill that ran to its end over a backlog of at most a batch leaves none
\* that has text.
BackfillReachesOwn ==
  \A k \in Tasks : (pc[k] = "done" /\ backfill[k] = "all") =>
    \A r \in review_findings : r.by = k => r.finding = Blank \/ r.embedding # NoVector

\* A backfill gives every finding it owes a vector, and none another's.
VectorsAreOwn == VectorIsOfItsText /\ BackfillReachesOwn

\* A reader gets the row and the findings of one save, unless another save of the
\* thread committed between its two queries.
ReadsOneSave ==
  \A r \in Readers : (pc[r] = "done" /\ r \notin overtaken) =>
    /\ Cardinality(got[r].findings) = got[r].row.finding_count
    /\ \A f \in got[r].findings : f.by = got[r].row.by

\* No task or request waits for ever for a connection or a row.
EveryoneIsServed == \A p \in Tasks \cup Readers : <>(pc[p] = "done")
=============================================================================
