--------------------------- MODULE ReviewPageProofs ---------------------------
(***************************************************************************)
(* Theorems of ReviewPage, for any threads, any retry schedule and any bounds.  *)
(***************************************************************************)
EXTENDS ReviewPage, TLAPS

FetchStates == {"none", "sent", "ok", "404", "error", "timer", "over"}

Live == {"sent", "ok", "404", "error", "timer"}

\* The types, with the fetches and their states folded.
Typed ==
  /\ ended \in SUBSET Threads
  /\ row \in SUBSET Threads
  /\ threadId \in Threads \cup {NoThread}
  /\ isDone \in BOOLEAN
  /\ shown \in Threads \cup {NoThread}
  /\ loading \in BOOLEAN
  /\ selections \in 0 .. MaxSelections
  /\ shots \in 0 .. MaxShots
  /\ request \in [Requests -> Fetches]
  /\ timerRef \in Chains \cup {NoTimer}
  /\ posting \in SUBSET Threads
  /\ errors \in Nat
  /\ overtaken \in BOOLEAN
  /\ preempted \in BOOLEAN

\* Before a thread is opened nothing happens; afterwards every fetch is for a thread.
OpenInv ==
  /\ selections > 0 => threadId \in Threads
  /\ selections = 0 => /\ threadId = NoThread /\ shown = NoThread /\ posting = {}
                       /\ \A q \in Requests : request[q].state = "none"
  /\ \A q \in Requests : request[q].state # "none" => request[q].thread \in Threads
  /\ \A q \in Chains : request[q].state # "none" => q <= selections

\* Only a chain sleeps, with a retry left, and the ref names one that does.
TimerInv ==
  /\ \A q \in Requests : request[q].state = "timer" =>
       q \in Chains /\ request[q].attempt < Retries
  /\ \A q \in Chains : request[q].attempt <= Retries
  /\ timerRef # NoTimer => request[timerRef].state = "timer"

\* While nothing was left under way at the last switch, whatever is under way is for the
\* open thread, and the only chain under way is the newest.
OwnInv == ~overtaken =>
  /\ posting \subseteq {threadId}
  /\ shown \in {NoThread, threadId}
  /\ \A q \in Requests : request[q].state \in Live => request[q].thread = threadId
  /\ \A q \in Chains : request[q].state \in Live => q = selections
  /\ \A q \in Requests : request[q].state = "timer" => timerRef = q

\* A chain that is over has found the row, met an error, used up its schedule or
\* lost its timer to a refresh.
ExhaustedInv ==
  /\ errors = 0 => \A q \in Requests : request[q].state # "error"
  /\ (selections > 0 /\ errors = 0 /\ ~preempted) =>
       \/ request[selections].state \in Live
       \/ shown # NoThread
       \/ request[selections].attempt = Retries

\* A chain whose retry was cancelled is over for good.
PreemptedInv == preempted => selections > 0 /\ request[selections].state = "over"

Inv == Typed /\ OpenInv /\ TimerInv /\ OwnInv /\ LoadingIsTrue /\ ExhaustedInv /\ PreemptedInv

-----------------------------------------------------------------------------
(* What the updates do to the fetches.                                       *)

LEMMA Fields ==
  ASSUME NEW f \in Fetches
  PROVE  f.thread \in Threads \cup {NoThread} /\ f.attempt \in Nat /\ f.state \in FetchStates
  BY DEF Fetches, FetchStates

LEMMA FetchFields ==
  ASSUME NEW t \in Threads, NEW n \in Nat
  PROVE  /\ Fetch(t, n) \in Fetches
         /\ Fetch(t, n).thread = t /\ Fetch(t, n).attempt = n /\ Fetch(t, n).state = "sent"
  BY DEF Fetch, Fetches

\* A fetch gets another state and keeps its thread and its attempt.
LEMMA StateFields ==
  ASSUME NEW f \in [Requests -> Fetches], NEW q \in Requests, NEW s \in FetchStates,
         NEW g, g = [f EXCEPT ![q].state = s]
  PROVE  /\ g \in [Requests -> Fetches]
         /\ g[q].thread = f[q].thread /\ g[q].attempt = f[q].attempt /\ g[q].state = s
         /\ \A p \in Requests : p # q => g[p] = f[p]
  BY DEF Fetches, FetchStates

LEMMA CancelledFields ==
  ASSUME Typed
  PROVE  LET g == Cancelled(request) IN
         /\ g \in [Requests -> Fetches]
         /\ \A q \in Requests :
              /\ g[q].thread = request[q].thread /\ g[q].attempt = request[q].attempt
              /\ g[q].state = IF q = timerRef THEN "over" ELSE request[q].state
  <1>0. request \in [Requests -> Fetches] /\ NoTimer \notin Requests
        /\ (timerRef # NoTimer => timerRef \in Requests) /\ "over" \in FetchStates
      BY BoundsAssumption DEF Typed, NoTimer, Requests, Chains, Shots, FetchStates
  <1>1. CASE timerRef = NoTimer
      BY <1>0, <1>1 DEF Cancelled
  <1>2. CASE timerRef # NoTimer
    <2>1. Cancelled(request) = [request EXCEPT ![timerRef].state = "over"]
        BY <1>2 DEF Cancelled, Over
    <2> QED BY <1>0, <1>2, <2>1, StateFields
  <1> QED BY <1>1, <1>2

LEMMA InitInv == Init => Inv
  <1> SUFFICES ASSUME Init PROVE Inv
      OBVIOUS
  <1>1. NoFetch \in Fetches /\ NoFetch.state = "none" /\ NoFetch.attempt = 0
      BY DEF NoFetch, Fetches
  <1>2. Chains \subseteq Requests
      BY DEF Requests
  <1>3. Typed
    <2>1. request \in [Requests -> Fetches]
        BY <1>1 DEF Init
    <2>2. selections \in 0 .. MaxSelections /\ shots \in 0 .. MaxShots /\ errors \in Nat
        BY BoundsAssumption DEF Init
    <2> QED BY <2>1, <2>2 DEF Init, Typed
  <1>4. OpenInv /\ TimerInv
      BY <1>1, <1>2, RetriesAssumption DEF Init, OpenInv, TimerInv
  <1>5. OwnInv /\ ExhaustedInv
      BY <1>1, <1>2 DEF Init, OwnInv, ExhaustedInv, Live
  <1>6. LoadingIsTrue /\ PreemptedInv
      BY DEF Init, LoadingIsTrue, CurrentChainIsAlive, OnTheWay, Sleeps, PreemptedInv
  <1> QED BY <1>3, <1>4, <1>5, <1>6 DEF Inv

-----------------------------------------------------------------------------
(* Every step keeps the invariant.                                           *)

\* refresh() adds a fetch for the open thread and stops at most the chain that
\* it says it stopped.
LEMMA RefreshKeeps ==
  ASSUME Inv, NEW t \in Threads, ~overtaken => t = threadId, selections > 0,
         RefreshOf(t, request), posting' \subseteq posting, isDone' \in BOOLEAN,
         UNCHANGED <<server, threadId, shown, loading, selections, errors, overtaken>>
  PROVE  Inv'
  <1> DEFINE shot == MaxSelections + shots + 1
  <1>1. shot \in Requests /\ shot \notin Chains /\ shots' \in 0 .. MaxShots
      BY BoundsAssumption DEF Inv, Typed, RefreshOf, Requests, Shots, Chains
  <1>2. Fetch(t, 0) \in Fetches /\ Fetch(t, 0).thread = t /\ Fetch(t, 0).attempt = 0
        /\ Fetch(t, 0).state = "sent"
      BY FetchFields
  <1> HIDE DEF shot
  <1>3. /\ request' \in [Requests -> Fetches]
        /\ request'[shot] = Fetch(t, 0)
        /\ \A q \in Requests : q # shot =>
             /\ request'[q].thread = request[q].thread /\ request'[q].attempt = request[q].attempt
             /\ request'[q].state = IF q = timerRef THEN "over" ELSE request[q].state
    <2>1. request' = [Cancelled(request) EXCEPT ![shot] = Fetch(t, 0)] /\ Typed
        BY DEF RefreshOf, shot, Inv
    <2> DEFINE g == Cancelled(request)
    <2>2. /\ g \in [Requests -> Fetches]
          /\ \A q \in Requests :
               /\ g[q].thread = request[q].thread /\ g[q].attempt = request[q].attempt
               /\ g[q].state = IF q = timerRef THEN "over" ELSE request[q].state
        BY <2>1, CancelledFields
    <2> HIDE DEF g
    <2>3. request' = [g EXCEPT ![shot] = Fetch(t, 0)]
        BY <2>1 DEF g
    <2> QED BY <1>1, <1>2, <2>2, <2>3
  <1>4. timerRef' = NoTimer /\ preempted' = (preempted \/ timerRef = selections)
      BY DEF RefreshOf
  <1>5. Chains \subseteq Requests /\ selections \in Chains /\ (selections' > 0)
      BY DEF Requests, Chains, Inv, Typed
  <1>6. Typed'
      BY <1>1, <1>3, <1>4 DEF Inv, Typed, server
  <1>7. OpenInv'
    <2>1. \A q \in Requests : q = timerRef => request[q].state = "timer"
        BY BoundsAssumption DEF Inv, TimerInv, NoTimer, Requests, Chains, Shots
    <2> QED BY <1>1, <1>2, <1>3, <1>5, <2>1 DEF Inv, OpenInv
  <1>8. TimerInv'
      BY <1>1, <1>2, <1>3, <1>4, <1>5, RetriesAssumption DEF Inv, TimerInv
  <1>9. OwnInv'
      BY <1>1, <1>2, <1>3, <1>4, <1>5 DEF Inv, OwnInv, Live
  <1>10. LoadingIsTrue'
    <2> SUFFICES ASSUME ~overtaken' PROVE LoadingIsTrue'
        BY DEF LoadingIsTrue
    <2>1. selections' = selections /\ loading' = loading /\ ~overtaken /\ selections # shot
        BY <1>1, <1>5
    <2>2. loading <=> CurrentChainIsAlive \/ preempted
        BY <2>1 DEF Inv, LoadingIsTrue
    <2>3. CASE timerRef = selections
      <3>1. request[selections].state = "timer"
          BY <1>5, <2>3, BoundsAssumption DEF Inv, TimerInv, NoTimer, Chains
      <3> QED BY <1>4, <1>5, <2>1, <2>2, <2>3, <3>1
              DEF LoadingIsTrue, CurrentChainIsAlive, OnTheWay, Sleeps
    <2>4. CASE timerRef # selections
      <3>1. request'[selections].state = request[selections].state
          BY <1>3, <1>5, <2>1, <2>4
      <3> QED BY <1>4, <1>5, <2>1, <2>2, <2>4, <3>1
              DEF LoadingIsTrue, CurrentChainIsAlive, OnTheWay, Sleeps
    <2> QED BY <2>3, <2>4
  <1>12. PreemptedInv'
      BY <1>1, <1>3, <1>4, <1>5 DEF Inv, PreemptedInv
  <1>11. ExhaustedInv'
      BY <1>1, <1>2, <1>3, <1>4, <1>5 DEF Inv, ExhaustedInv, Live, TimerInv
  <1> QED BY <1>6, <1>7, <1>8, <1>9, <1>10, <1>11, <1>12 DEF Inv

\* Another thread is opened: a new chain, and nothing of the old one left in the
\* clear unless the history says so.
LEMMA SelectKeeps ==
  ASSUME Inv, NEW t \in Threads, SelectThread(t)
  PROVE  Inv'
  <1> DEFINE chain == selections + 1
             shot == MaxSelections + shots + 1
             added == {chain} \cup (IF isDone THEN {shot} ELSE {})
             g == Cancelled(request)
  <1>1. /\ chain \in Chains /\ chain \in Requests /\ Chains \subseteq Requests
        /\ (isDone => shot \in Requests /\ shot \notin Chains)
        /\ shots' \in 0 .. MaxShots /\ selections' = chain /\ selections' \in 0 .. MaxSelections
        /\ selections' > 0
      BY BoundsAssumption DEF Inv, Typed, SelectThread, Requests, Shots, Chains
  <1>2. Fetch(t, 0) \in Fetches /\ Fetch(t, 0).thread = t /\ Fetch(t, 0).attempt = 0
        /\ Fetch(t, 0).state = "sent"
      BY FetchFields
  <1>3. /\ request' \in [Requests -> Fetches]
        /\ \A q \in added : request'[q] = Fetch(t, 0)
        /\ \A q \in Requests \ added :
             /\ request'[q].thread = request[q].thread /\ request'[q].attempt = request[q].attempt
             /\ request'[q].state = IF q = timerRef THEN "over" ELSE request[q].state
    <2>1. /\ g \in [Requests -> Fetches]
          /\ \A q \in Requests :
               /\ g[q].thread = request[q].thread /\ g[q].attempt = request[q].attempt
               /\ g[q].state = IF q = timerRef THEN "over" ELSE request[q].state
        BY CancelledFields DEF Inv
    <2>2. IF isDone
          THEN request' = [[g EXCEPT ![chain] = Fetch(t, 0)] EXCEPT ![shot] = Fetch(t, 0)]
          ELSE request' = [g EXCEPT ![chain] = Fetch(t, 0)]
        BY DEF SelectThread
    <2> HIDE DEF g, chain, shot
    <2>3. CASE isDone
        BY <1>1, <1>2, <2>1, <2>2, <2>3
    <2>4. CASE ~isDone
        BY <1>1, <1>2, <2>1, <2>2, <2>4
    <2> QED BY <2>3, <2>4
  <1>4. /\ threadId' = t /\ shown' = NoThread /\ loading' = TRUE /\ isDone' = FALSE
        /\ timerRef' = NoTimer /\ UNCHANGED <<ended, row, posting, errors>>
        /\ preempted' = FALSE
        /\ overtaken' = (posting # {} \/ \E q \in Requests :
                            OnTheWay(q) \/ (Sleeps(q) /\ q # timerRef))
      BY DEF SelectThread, server, Cleared
  <1>5. chain \in added /\ \A q \in added : q \in Chains => q = chain
      BY <1>1
  <1>6. \A q \in Requests : q = timerRef => request[q].state = "timer"
      BY BoundsAssumption DEF Inv, TimerInv, NoTimer, Requests, Chains, Shots
  <1>7. Typed'
      BY <1>1, <1>3, <1>4 DEF Inv, Typed
  <1>8. selections \in Nat /\ chain = selections + 1 /\ added \subseteq Requests
      BY <1>1 DEF Inv, Typed
  <1> HIDE DEF added, chain
  <1>9. OpenInv'
      BY <1>1, <1>2, <1>3, <1>4, <1>5, <1>6, <1>8 DEF Inv, OpenInv, Chains
  <1>10. TimerInv'
    <2>1. ASSUME NEW q \in Requests, request'[q].state = "timer"
          PROVE  q \in Chains /\ request'[q].attempt < Retries
      <3>1. q \notin added
          BY <1>2, <1>3, <2>1
      <3>2. request[q].state = "timer" /\ request'[q].attempt = request[q].attempt
          BY <1>3, <2>1, <3>1
      <3> QED BY <3>2 DEF Inv, TimerInv
    <2>2. ASSUME NEW q \in Chains PROVE request'[q].attempt <= Retries
      <3>1. request'[q].attempt \in {0, request[q].attempt}
          BY <1>1, <1>2, <1>3
      <3> QED BY <3>1, RetriesAssumption DEF Inv, TimerInv
    <2> QED BY <1>4, <2>1, <2>2 DEF TimerInv
  <1>11. OwnInv'
    <2> SUFFICES ASSUME ~overtaken' PROVE OwnInv'
        BY DEF OwnInv
    <2>1. posting = {} /\ \A q \in Requests : ~OnTheWay(q) /\ (Sleeps(q) => q = timerRef)
        BY <1>4
    <2>2. \A q \in Requests \ added : request'[q].state \notin Live
        BY <1>3, <2>1 DEF OnTheWay, Sleeps, Live
    <2>3. \A q \in Requests : request'[q].state \in Live =>
            request'[q].thread = t /\ (q \in Chains => q = chain) /\ request'[q].state # "timer"
        BY <1>2, <1>3, <1>5, <2>2
    <2> QED BY <1>1, <1>4, <2>1, <2>3 DEF OwnInv, Live
  <1>12. LoadingIsTrue' /\ PreemptedInv'
      BY <1>1, <1>2, <1>3, <1>4, <1>5
      DEF LoadingIsTrue, CurrentChainIsAlive, OnTheWay, Sleeps, PreemptedInv
  <1>13. ExhaustedInv'
      BY <1>1, <1>2, <1>3, <1>4, <1>5 DEF Inv, ExhaustedInv, Live
  <1> QED BY <1>7, <1>9, <1>10, <1>11, <1>12, <1>13 DEF Inv

\* The server's answer changes the state of a fetch that is under way.
LEMMA AnswerKeeps ==
  ASSUME Inv, NEW q \in Requests, ServerAnswers(q)
  PROVE  Inv'
  <1>1. PICK s \in {"ok", "404", "error"} :
          /\ request' = [request EXCEPT ![q].state = s]
          /\ s = "error" => errors' = errors + 1
          /\ s # "error" => errors' = errors
      BY Zenon DEF ServerAnswers
  <1>2. /\ request[q].state = "sent"
        /\ UNCHANGED <<ended, row, threadId, isDone, shown, loading, timerRef, selections, shots,
                       posting, overtaken, preempted>>
      BY DEF ServerAnswers, server, history
  <1>3. /\ request' \in [Requests -> Fetches]
        /\ request'[q].thread = request[q].thread /\ request'[q].attempt = request[q].attempt
        /\ request'[q].state = s
        /\ \A p \in Requests : p # q => request'[p] = request[p]
    <2>1. request \in [Requests -> Fetches] /\ s \in FetchStates
        BY DEF Inv, Typed, FetchStates
    <2> QED BY <1>1, <2>1 DEF Fetches, FetchStates
  <1>4. Chains \subseteq Requests /\ (selections > 0 => selections \in Chains) /\ errors \in Nat
        /\ (timerRef # NoTimer => timerRef \in Chains)
      BY DEF Requests, Chains, Inv, Typed
  <1>5. errors' \in Nat /\ (errors' = 0 => errors = 0 /\ s # "error")
      BY <1>1, <1>4
  <1>6. Typed'
      BY <1>2, <1>3, <1>5 DEF Inv, Typed
  <1>7. OpenInv'
      BY <1>2, <1>3, <1>4 DEF Inv, OpenInv
  <1>8. TimerInv'
      BY <1>2, <1>3, <1>4 DEF Inv, TimerInv
  <1>9. OwnInv'
      BY <1>2, <1>3, <1>4 DEF Inv, OwnInv, Live
  <1>10. LoadingIsTrue' /\ PreemptedInv'
      BY <1>2, <1>3, <1>4
      DEF Inv, LoadingIsTrue, CurrentChainIsAlive, OnTheWay, Sleeps, PreemptedInv
  <1>11. ExhaustedInv'
      BY <1>2, <1>3, <1>4, <1>5 DEF Inv, ExhaustedInv, Live
  <1> QED BY <1>6, <1>7, <1>8, <1>9, <1>10, <1>11 DEF Inv

\* The page shows nothing it did not ask for.
LEMMA ShownFetch ==
  ASSUME Inv, NEW q \in Requests, request[q].state \in {"ok", "404", "error"}, shown' = ShownAfter(q)
  PROVE  /\ shown' \in Threads \cup {NoThread}
         /\ ~overtaken => shown' \in {NoThread, threadId}
         /\ shown # NoThread \/ request[q].state = "ok" => shown' # NoThread
         /\ selections > 0
  <1>1. request[q].thread \in Threads /\ selections > 0
      BY DEF Inv, OpenInv, Typed
  <1> QED BY <1>1, NoThreadAssumption DEF ShownAfter, Inv, Typed, OwnInv, Live

LEMMA ShotKeeps ==
  ASSUME Inv, NEW q \in Requests, ShotReturns(q)
  PROVE  Inv'
  <1>1. q \in Shots /\ q \notin Chains /\ Chains \subseteq Requests
        /\ (selections > 0 => selections \in Chains /\ selections # q)
        /\ (timerRef # NoTimer => timerRef \in Chains /\ timerRef # q)
      BY BoundsAssumption DEF ShotReturns, Shots, Chains, Requests, Inv, Typed
  <1>2. /\ request[q].state \in {"ok", "404", "error"} /\ shown' = ShownAfter(q)
        /\ request' = [request EXCEPT ![q].state = "over"]
        /\ UNCHANGED <<ended, row, threadId, isDone, loading, timerRef, selections, shots, errors,
                       posting, overtaken, preempted>>
      BY DEF ShotReturns, Over, server, counters, history
  <1>3. /\ request' \in [Requests -> Fetches]
        /\ request'[q].thread = request[q].thread /\ request'[q].attempt = request[q].attempt
        /\ request'[q].state = "over"
        /\ \A p \in Requests : p # q => request'[p] = request[p]
    <2>1. request \in [Requests -> Fetches] /\ "over" \in FetchStates
        BY DEF Inv, Typed, FetchStates
    <2> QED BY <1>2, <2>1 DEF Fetches, FetchStates
  <1>4. /\ shown' \in Threads \cup {NoThread}
        /\ ~overtaken => shown' \in {NoThread, threadId}
        /\ shown # NoThread => shown' # NoThread
        /\ selections > 0
      BY <1>2, ShownFetch
  <1>5. Typed'
      BY <1>2, <1>3, <1>4 DEF Inv, Typed
  <1>6. OpenInv' /\ TimerInv'
      BY <1>1, <1>2, <1>3, <1>4 DEF Inv, OpenInv, TimerInv
  <1>7. OwnInv'
      BY <1>1, <1>2, <1>3, <1>4 DEF Inv, OwnInv, Live
  <1>8. LoadingIsTrue' /\ ExhaustedInv' /\ PreemptedInv'
      BY <1>1, <1>2, <1>3, <1>4
      DEF Inv, LoadingIsTrue, CurrentChainIsAlive, OnTheWay, Sleeps, ExhaustedInv, PreemptedInv, Live
  <1> QED BY <1>5, <1>6, <1>7, <1>8 DEF Inv

\* A chain's answer ends the chain or puts it to sleep.
LEMMA ChainKeeps ==
  ASSUME Inv, NEW q \in Requests, ChainReturns(q)
  PROVE  Inv'
  <1>0. q \in Chains /\ Chains \subseteq Requests
        /\ (selections > 0 => selections \in Chains)
        /\ (timerRef # NoTimer => timerRef \in Chains)
      BY DEF ChainReturns, Requests, Chains, Inv, Typed
  <1>1. PICK s \in {"over", "timer"} :
          /\ request' = [request EXCEPT ![q].state = s]
          /\ timerRef' = IF s = "timer" THEN q ELSE timerRef
          /\ s = "over" <=> ChainIsOver(q)
    <2>1. CASE ChainIsOver(q)
        BY <2>1, Zenon DEF ChainReturns, Over
    <2>2. CASE ~ChainIsOver(q)
        BY <2>2, Zenon DEF ChainReturns
    <2> QED BY <2>1, <2>2
  <1>2. /\ request[q].state \in {"ok", "404", "error"}
        /\ shown' = ShownAfter(q)
        /\ loading' = (loading /\ s = "timer")
        /\ UNCHANGED <<ended, row, threadId, isDone, selections, shots, errors, posting,
                       overtaken, preempted>>
      BY <1>1 DEF ChainReturns, LoadingAfter, server, counters, history
  <1>3. /\ request' \in [Requests -> Fetches]
        /\ request'[q].thread = request[q].thread /\ request'[q].attempt = request[q].attempt
        /\ request'[q].state = s
        /\ \A p \in Requests : p # q => request'[p] = request[p]
    <2>1. request \in [Requests -> Fetches] /\ s \in FetchStates
        BY DEF Inv, Typed, FetchStates
    <2> QED BY <1>1, <2>1 DEF Fetches, FetchStates
  <1>4. /\ shown' \in Threads \cup {NoThread}
        /\ ~overtaken => shown' \in {NoThread, threadId}
        /\ shown # NoThread \/ request[q].state = "ok" => shown' # NoThread
        /\ selections > 0
      BY <1>2, ShownFetch
  <1>5. request[q].attempt \in Nat /\ request[q].attempt <= Retries
      BY <1>0, Fields DEF Inv, Typed, TimerInv
  <1>6. /\ s = "timer" => request[q].attempt < Retries
        /\ s = "over" => request[q].state \in {"ok", "error"} \/ request[q].attempt = Retries
      BY <1>1, <1>2, <1>5, RetriesAssumption DEF ChainIsOver
  <1>7. Typed'
      BY <1>0, <1>1, <1>2, <1>3, <1>4 DEF Inv, Typed
  <1>8. OpenInv'
      BY <1>0, <1>2, <1>3, <1>4 DEF Inv, OpenInv
  <1>9. TimerInv'
      BY <1>0, <1>1, <1>2, <1>3, <1>6 DEF Inv, TimerInv
  <1>10. OwnInv'
    <2> SUFFICES ASSUME ~overtaken' PROVE OwnInv'
        BY DEF OwnInv
    <2>1. q = selections /\ ~overtaken
        BY <1>0, <1>2 DEF Inv, OwnInv, Live
    <2>2. \A p \in Requests : p # q => request[p].state # "timer"
        BY <1>0, <1>2, <2>1 DEF Inv, OwnInv, TimerInv, Live
    <2> QED BY <1>0, <1>1, <1>2, <1>3, <1>4, <2>1, <2>2 DEF Inv, OwnInv, Live
  <1>11. LoadingIsTrue'
    <2> SUFFICES ASSUME ~overtaken' PROVE LoadingIsTrue'
        BY DEF LoadingIsTrue
    <2>1. q = selections
        BY <1>0, <1>2 DEF Inv, OwnInv, Live
    <2>2. ~preempted
        BY <1>2, <2>1 DEF Inv, PreemptedInv
    <2>3. loading = TRUE
        BY <1>2, <1>4, <2>1 DEF Inv, LoadingIsTrue, CurrentChainIsAlive, OnTheWay, Typed
    <2>4. loading' = (s = "timer")
        BY <1>2, <2>3
    <2> QED BY <1>2, <1>3, <1>4, <2>1, <2>2, <2>4
            DEF LoadingIsTrue, CurrentChainIsAlive, OnTheWay, Sleeps
  <1>13. PreemptedInv'
      BY <1>0, <1>2, <1>3, <1>4 DEF Inv, PreemptedInv
  <1>12. ExhaustedInv'
      BY <1>0, <1>2, <1>3, <1>4, <1>6 DEF Inv, ExhaustedInv, Live
  <1> QED BY <1>7, <1>8, <1>9, <1>10, <1>11, <1>12, <1>13 DEF Inv

\* The timer that fires starts the next attempt of its chain.
LEMMA TimerKeeps ==
  ASSUME Inv, NEW q \in Requests, RetryTimerFires(q)
  PROVE  Inv'
  <1>0. q \in Chains /\ Chains \subseteq Requests
        /\ (selections > 0 => selections \in Chains)
        /\ (timerRef # NoTimer => timerRef \in Chains)
      BY DEF RetryTimerFires, Sleeps, Requests, Chains, Inv, Typed, TimerInv
  <1>1. /\ request[q].thread \in Threads /\ request[q].attempt \in Nat
        /\ request[q].attempt < Retries /\ request \in [Requests -> Fetches]
      BY Fields DEF RetryTimerFires, Sleeps, Inv, Typed, TimerInv, OpenInv
  <1>2. /\ Fetch(request[q].thread, request[q].attempt + 1) \in Fetches
        /\ Fetch(request[q].thread, request[q].attempt + 1).thread = request[q].thread
        /\ Fetch(request[q].thread, request[q].attempt + 1).attempt = request[q].attempt + 1
        /\ Fetch(request[q].thread, request[q].attempt + 1).state = "sent"
      BY <1>1, FetchFields
  <1>3. /\ request' \in [Requests -> Fetches]
        /\ request'[q].thread = request[q].thread
        /\ request'[q].attempt = request[q].attempt + 1
        /\ request'[q].state = "sent"
        /\ \A p \in Requests : p # q => request'[p] = request[p]
      BY <1>1, <1>2 DEF RetryTimerFires
  <1>4. /\ request[q].state = "timer" /\ timerRef' = NoTimer
        /\ UNCHANGED <<ended, row, threadId, isDone, shown, loading, selections, shots, errors,
                       posting, overtaken, preempted>>
      BY DEF RetryTimerFires, Sleeps, server, counters, history
  <1>5. Typed'
      BY <1>3, <1>4 DEF Inv, Typed
  <1>6. OpenInv'
      BY <1>0, <1>3, <1>4 DEF Inv, OpenInv
  <1>7. TimerInv'
      BY <1>0, <1>1, <1>3, <1>4, RetriesAssumption DEF Inv, TimerInv
  <1>8. OwnInv'
      BY <1>0, <1>3, <1>4 DEF Inv, OwnInv, Live
  <1>9. LoadingIsTrue' /\ PreemptedInv'
      BY <1>0, <1>3, <1>4
      DEF Inv, LoadingIsTrue, CurrentChainIsAlive, OnTheWay, Sleeps, PreemptedInv
  <1>10. ExhaustedInv'
      BY <1>0, <1>3, <1>4 DEF Inv, ExhaustedInv, Live
  <1> QED BY <1>5, <1>6, <1>7, <1>8, <1>9, <1>10 DEF Inv

\* What the server and a POST that starts do is not about the fetches.
LEMMA OthersKeep ==
  ASSUME Inv, NEW t \in Threads,
         StreamOfThreadEnds(t) \/ RowIsWritten(t) \/ CreateExploit \/ UNCHANGED vars
  PROVE  Inv'
  <1>1. /\ UNCHANGED <<threadId, isDone, shown, loading, request, timerRef, selections, shots,
                       errors, overtaken, preempted>>
        /\ ended' \in SUBSET Threads /\ row' \in SUBSET Threads
        /\ posting' = posting \/ (posting' = posting \cup {threadId} /\ shown # NoThread)
      BY DEF StreamOfThreadEnds, RowIsWritten, CreateExploit, vars, server, hook, counters,
             history, Inv, Typed
  <1>2. selections = 0 => posting' = {}
      BY <1>1 DEF Inv, OpenInv
  <1>3. posting' \in SUBSET Threads
      BY <1>1, NoThreadAssumption DEF Inv, OpenInv, Typed
  <1>4. Typed'
      BY <1>1, <1>3 DEF Inv, Typed
  <1>5. OpenInv' /\ TimerInv'
      BY <1>1, <1>2 DEF Inv, OpenInv, TimerInv
  <1>6. OwnInv'
      BY <1>1 DEF Inv, OwnInv
  <1>7. LoadingIsTrue' /\ ExhaustedInv' /\ PreemptedInv'
      BY <1>1
      DEF Inv, LoadingIsTrue, CurrentChainIsAlive, OnTheWay, Sleeps, ExhaustedInv, PreemptedInv
  <1> QED BY <1>4, <1>5, <1>6, <1>7 DEF Inv

LEMMA StepInv == Inv /\ [Next]_vars => Inv'
  <1> SUFFICES ASSUME Inv, [Next]_vars PROVE Inv'
      OBVIOUS
  <1>1. ASSUME NEW t \in Threads, CreateExploitReturns(t) PROVE Inv'
    <2>1. t \in posting /\ selections > 0 /\ (~overtaken => t = threadId)
        BY <1>1 DEF CreateExploitReturns, Inv, OpenInv, OwnInv, Typed
    <2>2. /\ RefreshOf(t, request) /\ posting' \subseteq posting /\ isDone' \in BOOLEAN
          /\ UNCHANGED <<server, threadId, shown, loading, selections, errors, overtaken>>
        BY <1>1 DEF CreateExploitReturns, Inv, Typed
    <2> QED BY <2>1, <2>2, RefreshKeeps
  <1>2. CASE StreamReportsEnd
    <2>1. threadId \in Threads /\ selections > 0
        BY <1>2, NoThreadAssumption DEF StreamReportsEnd, Inv, Typed, OpenInv
    <2>2. /\ RefreshOf(threadId, request) /\ posting' \subseteq posting /\ isDone' \in BOOLEAN
          /\ UNCHANGED <<server, threadId, shown, loading, selections, errors, overtaken>>
        BY <1>2 DEF StreamReportsEnd
    <2> QED BY <2>1, <2>2, RefreshKeeps
  <1>3. ASSUME NEW t \in Threads, SelectThread(t) PROVE Inv'
      BY <1>3, SelectKeeps
  <1>4. ASSUME NEW t \in Threads, StreamOfThreadEnds(t) \/ RowIsWritten(t) PROVE Inv'
      BY <1>4, OthersKeep
  <1>5. CASE CreateExploit \/ UNCHANGED vars
    <2>1. CASE Threads = {}
      <3>1. UNCHANGED vars
          BY <1>5, <2>1 DEF CreateExploit, Inv, Typed
      <3> QED BY <3>1 DEF vars, server, hook, counters, history, Inv, Typed, OpenInv, TimerInv,
                          OwnInv, LoadingIsTrue, CurrentChainIsAlive, OnTheWay, Sleeps,
                          ExhaustedInv, PreemptedInv
    <2> QED BY <1>5, <2>1, OthersKeep
  <1>6. ASSUME NEW q \in Requests,
               ServerAnswers(q) \/ ShotReturns(q) \/ ChainReturns(q) \/ RetryTimerFires(q)
        PROVE  Inv'
      BY <1>6, AnswerKeeps, ShotKeeps, ChainKeeps, TimerKeeps
  <1> QED BY <1>1, <1>2, <1>3, <1>4, <1>5, <1>6 DEF Next

\* Every variable keeps its type: in particular a POST under way is for a thread.
THEOREM TypeCorrect == Spec => []TypeOK
  <1>1. Inv => TypeOK
      BY Zenon DEF Inv, Typed, TypeOK
  <1> QED BY <1>1, InitInv, StepInv, PTL DEF Spec

\* However selections, timers, refreshes, POSTs and answers interleave: unless an
\* answer, a POST or a stray timer was left at the last switch, the page shows the
\* open thread, no timer of another runs, and it says it is waiting exactly while it
\* tries or after a refresh has cancelled its retry.  It is left empty, with the row
\* there, only by a used-up schedule, an error, or such a refresh.  What a page does
\* after a switch that overtook an answer is not part of the claim.
THEOREM PageStaysTrue == Spec => []PageIsTrue
  <1>1. Inv => PageIsTrue
    <2> SUFFICES ASSUME Inv PROVE PageIsTrue
        OBVIOUS
    <2>1. ShowsOpenThread
        BY DEF Inv, OwnInv, ShowsOpenThread
    <2>2. TimerIsOurs
        BY DEF Inv, OwnInv, TimerInv, TimerIsOurs, Sleeps, Live
    <2>3. EmptyOnlyWhenExhausted
      <3>1. threadId \in row => selections > 0 /\ selections \in Requests
          BY NoThreadAssumption DEF Inv, OpenInv, Typed, Requests, Chains
      <3> QED BY <3>1 DEF Inv, ExhaustedInv, EmptyOnlyWhenExhausted, LeftEmpty, Live
    <2> QED BY <2>1, <2>2, <2>3 DEF Inv, PageIsTrue
  <1> QED BY <1>1, InitInv, StepInv, PTL DEF Spec
=============================================================================
