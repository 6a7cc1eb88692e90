------------------------------ MODULE ReviewPage ------------------------------
(***************************************************************************)
(* The page of web/src: App.tsx with its HTTP-backed hooks useReview and      *)
(* useCriticalFindings, which are the same machine (the second one is also     *)
(* refreshed when a POST that creates an exploit returns).  A hook runs a       *)
(* chain of fetches with a retry timer per selected thread, App refreshes it     *)
(* once when the stream of the thread reports its end, and the user may switch   *)
(* to another review at any time.  Requests of an earlier selection go on.       *)
(***************************************************************************)
EXTENDS Naturals, FiniteSets

CONSTANTS
  Threads,       \* thread_ids the user may open
  NoThread,      \* null
  Retries,       \* length of RETRY_DELAYS_MS
  MaxSelections, \* bound on threads opened
  MaxShots,      \* bound on single fetches that are not part of a chain
  MaxErrors      \* bound on responses other than 200 and 404

ASSUME NoThreadAssumption == NoThread \notin Threads
ASSUME RetriesAssumption == Retries \in Nat
ASSUME BoundsAssumption ==
  MaxSelections \in Nat /\ MaxShots \in Nat /\ MaxErrors \in Nat

Chains == 1 .. MaxSelections
Shots == MaxSelections + 1 .. MaxSelections + MaxShots
Requests == Chains \cup Shots
NoTimer == 0

VARIABLES
  ended,     \* the threads whose __done__ or __cancelled__ is in the stream
  row,       \* the threads whose row is in the database
  threadId,  \* App: currentThreadId
  isDone,    \* useReviewStream: the stream of threadId has ended
  shown,     \* the thread whose data the hook holds, or NoThread
  loading,
  selections,\* chains started so far: the newest belongs to threadId
  shots,     \* single fetches started so far
  request,   \* [Requests -> the fetch: its thread, attempt and state]
  timerRef,  \* retryTimerRef: the chain whose timer can be cancelled
  posting,   \* the threads a POST .../exploits is under way for
  errors,    \* responses that were errors so far
  overtaken, \* history: at the last switch an answer, POST or stray timer was left
  preempted  \* history: a refresh cancelled the timer of the current chain

server == <<ended, row>>
hook == <<shown, loading, request, timerRef>>
counters == <<selections, shots, errors>>
history == <<overtaken, preempted>>
vars == <<server, threadId, isDone, hook, counters, posting, history>>

\* A fetch is sent, answered (the server has looked at the row), or its chain
\* sleeps until the retry timer fires.
Fetches == [thread : Threads \cup {NoThread}, attempt : Nat,
            state : {"none", "sent", "ok", "404", "error", "timer", "over"}]

NoFetch == [thread |-> NoThread, attempt |-> 0, state |-> "none"]

Fetch(t, n) == [thread |-> t, attempt |-> n, state |-> "sent"]

Over(requests, q) == [requests EXCEPT ![q].state = "over"]

OnTheWay(q) == request[q].state \in {"sent", "ok", "404", "error"}

Sleeps(q) == request[q].state = "timer"

Init ==
  /\ ended = {}
  /\ row = {}
  /\ threadId = NoThread
  /\ isDone = FALSE
  /\ shown = NoThread
  /\ loading = FALSE
  /\ selections = 0
  /\ shots = 0
  /\ request = [q \in Requests |-> NoFetch]
  /\ timerRef = NoTimer
  /\ posting = {}
  /\ errors = 0
  /\ overtaken = FALSE
  /\ preempted = FALSE

-----------------------------------------------------------------------------
(* The server: the stream ends before the row is written, if it ever is.    *)

StreamOfThreadEnds(t) ==
  /\ ended' = ended \cup {t}
  /\ UNCHANGED <<row, threadId, isDone, hook, counters, posting, history>>

RowIsWritten(t) ==
  /\ t \in ended
  /\ row' = row \cup {t}
  /\ UNCHANGED <<ended, threadId, isDone, hook, counters, posting, history>>

-----------------------------------------------------------------------------
(* The hook.                                                                *)

KeepTimer(requests) == requests

\* cancelPendingRetry: the timer in the ref, if there is one.
Cancelled(requests) ==
  IF timerRef = NoTimer THEN requests ELSE Over(requests, timerRef)

\* refresh(): no retry goes with the fetch, and the pending one is cancelled.
RefreshOf(t, requests) ==
  /\ shots < MaxShots
  /\ shots' = shots + 1
  /\ request' = [Cancelled(requests) EXCEPT ![MaxSelections + shots + 1] = Fetch(t, 0)]
  /\ timerRef' = NoTimer
  /\ preempted' = (preempted \/ timerRef = selections)

ShownAsBefore == shown

\* The effect of a new threadId clears what is shown at once.
Cleared == NoThread

\* setCurrentThreadId(t) and the effects of the render that follows: cleanup and
\* restart of the hook; App's effect still sees the old stream's isDone and
\* refreshes; the stream hook resets.
SelectThread(t) ==
  /\ t # threadId
  /\ selections < MaxSelections
  /\ threadId' = t
  /\ selections' = selections + 1
  /\ shown' = Cleared
  /\ loading' = TRUE
  /\ isDone' = FALSE
  /\ overtaken' = (posting # {} \/ \E q \in Requests :
                      OnTheWay(q) \/ (Sleeps(q) /\ q # timerRef))
  /\ preempted' = FALSE
  /\ LET started == [Cancelled(request) EXCEPT ![selections + 1] = Fetch(t, 0)]
     IN IF isDone
        THEN /\ shots < MaxShots
             /\ shots' = shots + 1
             /\ request' = [started EXCEPT ![MaxSelections + shots + 1] = Fetch(t, 0)]
        ELSE request' = started /\ UNCHANGED shots
  /\ timerRef' = NoTimer
  /\ UNCHANGED <<server, posting, errors>>

\* The terminal envelope of the open thread arrives, live or replayed: isDone
\* turns true and App's effect refreshes.
StreamReportsEnd ==
  /\ threadId \in ended
  /\ ~isDone
  /\ isDone' = TRUE
  /\ RefreshOf(threadId, request)
  /\ UNCHANGED <<server, threadId, shown, loading, selections, posting, errors, overtaken>>

\* handleCreateExploit: the callback keeps the thread of its render.
CreateExploit ==
  /\ shown # NoThread
  /\ threadId \notin posting
  /\ posting' = posting \cup {threadId}
  /\ UNCHANGED <<server, threadId, isDone, hook, counters, history>>

CreateExploitReturns(t) ==
  /\ t \in posting
  /\ posting' = posting \ {t}
  /\ RefreshOf(t, request)
  /\ UNCHANGED <<server, threadId, isDone, shown, loading, selections, errors, overtaken>>

\* The request reaches the server, which looks for the row.
ServerAnswers(q) ==
  /\ request[q].state = "sent"
  /\ \/ /\ request' = [request EXCEPT ![q].state =
                         IF request[q].thread \in row THEN "ok" ELSE "404"]
        /\ UNCHANGED errors
     \/ /\ errors < MaxErrors
        /\ errors' = errors + 1
        /\ request' = [request EXCEPT ![q].state = "error"]
  /\ UNCHANGED <<server, threadId, isDone, shown, loading, timerRef, selections,
                 shots, posting, history>>

\* fetchOnce: the ref says "mounted" again as soon as another thread is open.
ShownAfter(q) == IF request[q].state = "ok" THEN request[q].thread ELSE shown

\* A single fetch is over with its answer.
ShotReturns(q) ==
  /\ q \in Shots
  /\ request[q].state \in {"ok", "404", "error"}
  /\ shown' = ShownAfter(q)
  /\ request' = Over(request, q)
  /\ UNCHANGED <<server, threadId, isDone, loading, timerRef, counters, posting, history>>

GivesUpOneEarly(q) ==
  \/ request[q].state \in {"ok", "error"}
  \/ request[q].attempt + 1 >= Retries

\* fetchWithRetry: only a 404 is retried, until the schedule is exhausted.
ChainIsOver(q) ==
  \/ request[q].state \in {"ok", "error"}
  \/ request[q].attempt >= Retries

LoadingAfterAnyAnswer(q) == FALSE

LoadingAfter(q) == loading /\ ~ChainIsOver(q)

\* One attempt of a chain is over with its answer.
ChainReturns(q) ==
  /\ q \in Chains
  /\ request[q].state \in {"ok", "404", "error"}
  /\ shown' = ShownAfter(q)
  /\ loading' = LoadingAfter(q)
  /\ IF ChainIsOver(q)
     THEN request' = Over(request, q) /\ UNCHANGED timerRef
     ELSE request' = [request EXCEPT ![q].state = "timer"] /\ timerRef' = q
  /\ UNCHANGED <<server, threadId, isDone, counters, posting, history>>

\* The ref is cleared whichever chain's timer it holds by now.
RetryTimerFires(q) ==
  /\ Sleeps(q)
  /\ timerRef' = NoTimer
  /\ request' = [request EXCEPT ![q] = Fetch(request[q].thread, request[q].attempt + 1)]
  /\ UNCHANGED <<server, threadId, isDone, shown, loading, counters, posting, history>>

Next ==
  \/ \E t \in Threads :
       \/ StreamOfThreadEnds(t) \/ RowIsWritten(t)
       \/ SelectThread(t) \/ CreateExploitReturns(t)
  \/ StreamReportsEnd
  \/ CreateExploit
  \/ \E q \in Requests :
       ServerAnswers(q) \/ ShotReturns(q) \/ ChainReturns(q) \/ RetryTimerFires(q)

Spec == Init /\ [][Next]_vars

-----------------------------------------------------------------------------

\* The type of every variable.
TypeOK ==
  /\ ended \in SUBSET Threads
  /\ row \in SUBSET Threads
  /\ threadId \in Threads \cup {NoThread}
  /\ isDone \in BOOLEAN
  /\ shown \in Threads \cup {NoThread}
  /\ loading \in BOOLEAN
  /\ selections \in 0 .. MaxSelections
  /\ shots \in 0 .. MaxShots
  /\ request \in [Requests -> Fetches]
  /\ timerRef \in Chains \cup {NoTimer}
  /\ posting \in SUBSET Threads
  /\ errors \in Nat
  /\ overtaken \in BOOLEAN
  /\ preempted \in BOOLEAN

CurrentChainIsAlive == selections > 0 /\ (OnTheWay(selections) \/ Sleeps(selections))

\* Unless an answer or a POST was left under way at the last switch, the page shows
\* nothing but the open thread: switching in a quiet moment puts it right again.
ShowsOpenThread == ~overtaken => shown \in {NoThread, threadId}

\* ... and the only timer left running is the one of the open thread's chain,
\* where the next cleanup or refresh finds it.
TimerIsOurs ==
  ~overtaken => \A q \in Requests : Sleeps(q) => q = selections /\ timerRef = q

\* ... and "waiting for the review to finish" is shown exactly while the chain of
\* the open thread is still trying, or after a refresh has cancelled its retry: then
\* it is shown although nothing is tried any more.
LoadingIsTrue == ~overtaken => (loading <=> CurrentChainIsAlive \/ preempted)

\* The page has nothing to show, nothing under way, and the row is there.
LeftEmpty ==
  /\ threadId \in row
  /\ shown = NoThread
  /\ \A q \in Requests : request[q].state \in {"none", "over"}

\* A page is left empty only after the schedule is exhausted, after an error of the
\* server, or when a refresh has cancelled the retry of the open thread's chain and
\* came itself too early for the row.
EmptyOnlyWhenExhausted ==
  (LeftEmpty /\ errors = 0) => request[selections].attempt = Retries \/ preempted

\* What the page shows, says and waits for is so of the review that is open.
PageIsTrue == ShowsOpenThread /\ TimerIsOurs /\ LoadingIsTrue /\ EmptyOnlyWhenExhausted
=============================================================================
