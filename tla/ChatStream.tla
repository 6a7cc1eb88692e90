------------------------------ MODULE ChatStream ------------------------------
(***************************************************************************)
(* How the events of one review thread reach its browser tabs: ProgressStore, *)
(* ChatStore and ChatHub of src/src/chat, and the /ws/chat/{thread_id} handler *)
(* of main.py.  A producer (the graph loop, a file coroutine, a resume task)    *)
(* stores an event and then awaits one send per connected socket; a handler     *)
(* registers its socket and then awaits one send per stored event.  The two     *)
(* interleave at every send.  Both stores keep a bounded number of threads and   *)
(* drop the oldest one whole, even when it is still running.                      *)
(***************************************************************************)
EXTENDS Naturals, Sequences

CONSTANTS
  Sockets,      \* WebSocket connections, each used once
  Producers,    \* tasks that emit events of the thread
  MaxEvents,    \* bound on progress events
  MaxMessages,  \* bound on chat messages
  MaxMishaps    \* bound on evictions and on broadcasts that Stop cuts short

ASSUME BoundsAssumption ==
  MaxEvents \in Nat /\ MaxMessages \in Nat /\ MaxMishaps \in Nat

VARIABLES
  stored,       \* number of events appended to ProgressStore for the thread
  history,      \* number of messages appended to ChatStore for the thread
  evicted,      \* of either, how many an eviction has removed again
  connections,  \* ChatHub: the sockets of the thread
  sending,      \* the broadcasts under way: producer, item, sockets left
  open,         \* the sockets whose client is there
  pc,           \* [Sockets -> where its handler is]
  cursor,       \* [Sockets -> items of the list under replay already sent]
  limit,        \* [Sockets -> length of that list when it was copied]
  snapshot,     \* history: [Sockets -> stored when the socket was registered]
  missing,      \* history: [Sockets -> evicted when its list was copied]
  received,     \* [Sockets -> items in the order the client gets them]
  author,       \* history: [progress event -> producer]
  cut,          \* history: items whose broadcast was cancelled half-way
  mishaps       \* history: evictions and broadcasts cut short

stores == <<stored, history, evicted, author>>
handler == <<pc, cursor, limit, snapshot, missing>>
faults == <<cut, mishaps>>
vars == <<stores, connections, sending, open, handler, received, faults>>

Lists == {"progress", "chat"}

Event(i) == <<"progress", i>>
Message(i) == <<"chat", i>>
Items == Lists \X Nat

\* A producer's broadcast: the item and the sockets it has not been sent to.
Broadcasts == [by : Producers, item : Items, to : SUBSET Sockets]

BroadcastTo(p, item, to) ==
  IF to = {} THEN {} ELSE {[by |-> p, item |-> item, to |-> to]}

Init ==
  /\ stored = 0
  /\ history = 0
  /\ evicted = [list \in Lists |-> 0]
  /\ connections = {}
  /\ sending = {}
  /\ open = {}
  /\ pc = [s \in Sockets |-> "new"]
  /\ cursor = [s \in Sockets |-> 0]
  /\ limit = [s \in Sockets |-> 0]
  /\ snapshot = [s \in Sockets |-> 0]
  /\ missing = [s \in Sockets |-> [list \in Lists |-> 0]]
  /\ received = [s \in Sockets |-> <<>>]
  /\ author = <<>>
  /\ cut = {}
  /\ mishaps = 0

-----------------------------------------------------------------------------
(* The producers.                                                           *)

NeverWaits(p) == TRUE

\* A producer awaits its broadcast before it goes on.
Ready(p) == \A b \in sending : b.by # p

\* emit and _stream_graph_with_progress: append, then broadcast to a copy of
\* the connections; nothing runs between the two.
Emit(p) ==
  /\ Ready(p)
  /\ stored < MaxEvents
  /\ stored' = stored + 1
  /\ author' = Append(author, p)
  /\ sending' = sending \cup BroadcastTo(p, Event(stored + 1), connections)
  /\ UNCHANGED <<history, evicted, connections, open, handler, received, faults>>

\* The same for a chat message.
Say(p) ==
  /\ Ready(p)
  /\ history < MaxMessages
  /\ history' = history + 1
  /\ sending' = sending \cup BroadcastTo(p, Message(history + 1), connections)
  /\ UNCHANGED <<stored, evicted, author, connections, open, handler, received, faults>>

\* One send_json of the broadcast loop; to a dead socket it fails silently.
Deliver(b, s) ==
  /\ s \in b.to
  /\ sending' = (sending \ {b}) \cup BroadcastTo(b.by, b.item, b.to \ {s})
  /\ received' = IF s \in open
                 THEN [received EXCEPT ![s] = Append(@, b.item)]
                 ELSE received
  /\ UNCHANGED <<stores, connections, open, handler, faults>>

\* Stop cancels the producer at a send.  The loop suppresses Exception, which
\* CancelledError is not: the sockets left do not get the item.
CancelledAtSend(b) ==
  /\ mishaps < MaxMishaps
  /\ mishaps' = mishaps + 1
  /\ sending' = sending \ {b}
  /\ cut' = cut \cup {b.item}
  /\ UNCHANGED <<stores, connections, open, handler, received>>

\* The length of a list of this thread in its store, with what was evicted.
Appended(list) == IF list = "progress" THEN stored ELSE history

\* Other threads have filled the store with newer lists: the first append of one
\* more evicts this thread's list, all of it.  A later append here starts a new one.
Evict(list) ==
  /\ mishaps < MaxMishaps
  /\ evicted[list] < Appended(list)
  /\ mishaps' = mishaps + 1
  /\ evicted' = [evicted EXCEPT ![list] = Appended(list)]
  /\ UNCHANGED <<stored, history, author, connections, sending, open, handler, received, cut>>

-----------------------------------------------------------------------------
(* The handler of one socket.                                               *)

\* progress_store.get and get_history return the live list.
LimitOfLiveList(s) == Appended(pc[s])

LimitOffByOne(s) == limit[s] - 1

\* They return a copy: its length is fixed when it is made.
Limit(s) == limit[s]

Holds(list) == evicted[list] < Appended(list)

\* Copy a list that is not empty and send its first item.
BeginReplay(s, list) ==
  /\ pc' = [pc EXCEPT ![s] = list]
  /\ limit' = [limit EXCEPT ![s] = Appended(list)]
  /\ cursor' = [cursor EXCEPT ![s] = evicted[list] + 1]
  /\ received' = [received EXCEPT ![s] = Append(@, <<list, evicted[list] + 1>>)]

\* Go on to the chat history, or past it when there is none.
TurnToChat(s) ==
  IF Holds("chat")
  THEN BeginReplay(s, "chat")
  ELSE /\ pc' = [pc EXCEPT ![s] = "receive"]
       /\ UNCHANGED <<limit, cursor, received>>

ConnectAfterReplay(s) == connections

\* hub.connect comes before the replay.
Registered(s) == connections \cup {s}

\* accept, hub.connect, the copy of the progress events and the first send.
Connect(s) ==
  /\ pc[s] = "new"
  /\ open' = open \cup {s}
  /\ connections' = Registered(s)
  /\ snapshot' = [snapshot EXCEPT ![s] = stored]
  /\ IF Holds("progress") THEN BeginReplay(s, "progress") ELSE TurnToChat(s)
  /\ missing' = [missing EXCEPT ![s] = evicted]
  /\ UNCHANGED <<stores, sending, faults>>

\* The send returned: the next one, the chat history, or the receive loop.
ContinueReplay(s) ==
  /\ pc[s] \in {"progress", "chat"}
  /\ s \in open
  /\ IF cursor[s] < Limit(s)
     THEN /\ cursor' = [cursor EXCEPT ![s] = @ + 1]
          /\ received' = [received EXCEPT ![s] =
                            Append(@, <<pc[s], cursor[s] + 1>>)]
          /\ UNCHANGED <<pc, limit, missing>>
     ELSE IF pc[s] = "progress"
          THEN TurnToChat(s) /\ missing' = [missing EXCEPT ![s]["chat"] = evicted["chat"]]
          ELSE /\ pc' = [pc EXCEPT ![s] = "receive"]
               /\ UNCHANGED <<limit, cursor, received, missing>>
  /\ UNCHANGED <<stores, connections, sending, open, snapshot, faults>>

ClientCloses(s) ==
  /\ s \in open
  /\ open' = open \ {s}
  /\ UNCHANGED <<stores, connections, sending, handler, received, faults>>

\* receive_json raises WebSocketDisconnect, which the handler catches.
Disconnect(s) ==
  /\ pc[s] = "receive"
  /\ s \notin open
  /\ connections' = connections \ {s}
  /\ pc' = [pc EXCEPT ![s] = "closed"]
  /\ UNCHANGED <<stores, sending, open, cursor, limit, snapshot, missing, received, faults>>

\* An exception ends the handler elsewhere: a send of the replay, which is
\* outside the try block, or a frame that is not JSON, which is not a disconnect.
HandlerRaises(s) ==
  /\ \/ pc[s] \in {"progress", "chat"} /\ s \notin open /\ UNCHANGED open
     \/ pc[s] = "receive" /\ s \in open /\ open' = open \ {s}
  /\ pc' = [pc EXCEPT ![s] = "closed"]
  /\ UNCHANGED <<stores, connections, sending, cursor, limit, snapshot, missing, received, faults>>

Next ==
  \/ \E p \in Producers : Emit(p) \/ Say(p)
  \/ \E b \in sending : CancelledAtSend(b) \/ \E s \in Sockets : Deliver(b, s)
  \/ \E list \in Lists : Evict(list)
  \/ \E s \in Sockets : Connect(s) \/ ContinueReplay(s) \/ ClientCloses(s)
                          \/ Disconnect(s) \/ HandlerRaises(s)

Spec == Init /\ [][Next]_vars

-----------------------------------------------------------------------------

\* The type of every variable.
TypeOK ==
  /\ stored \in Nat
  /\ history \in Nat
  /\ evicted \in [Lists -> Nat]
  /\ connections \in SUBSET Sockets
  /\ sending \in SUBSET Broadcasts
  /\ open \in SUBSET Sockets
  /\ pc \in [Sockets -> {"new", "progress", "chat", "receive", "closed"}]
  /\ cursor \in [Sockets -> Nat]
  /\ limit \in [Sockets -> Nat]
  /\ snapshot \in [Sockets -> Nat]
  /\ missing \in [Sockets -> [Lists -> Nat]]
  /\ received \in [Sockets -> Seq(Items)]
  /\ author \in Seq(Producers)
  /\ cut \in SUBSET Items
  /\ mishaps \in Nat

Caught(s, item) == \E k \in DOMAIN received[s] : received[s][k] = item

Coming(s, item) == \E b \in sending : b.item = item /\ s \in b.to

\* Only a broadcast that Stop cut short may leave a tab without its item.
Lost(item) == item \in cut

\* The replay and the live broadcast overlap without a gap: a tab that has
\* caught up has everything the store held when it came, and of what was stored
\* since it has each item whose broadcast was not cut short, or is about to get
\* it, even if the store has lost it meanwhile.
NothingIsMissed ==
  \A s \in open : pc[s] = "receive" =>
    /\ \A i \in missing[s]["progress"] + 1 .. stored :
         \/ Caught(s, Event(i)) \/ Coming(s, Event(i))
         \/ i > snapshot[s] /\ Lost(Event(i))
    /\ \A i \in missing[s]["chat"] + 1 .. history :
         Caught(s, Message(i)) \/ Coming(s, Message(i)) \/ Lost(Message(i))

\* ... and without an overlap: no tab gets a progress event twice, since the
\* socket is registered and the events are copied in one step.
ProgressOnce ==
  \A s \in Sockets : \A k, l \in DOMAIN received[s] :
    (received[s][k] = received[s][l] /\ received[s][k][1] = "progress") => k = l

\* "A tab that opens after the review finishes still sees the full final
\* state": with no event after its registration a tab has the log, in order; if
\* the thread was evicted, the log from the eviction on and nothing before it.
LateTabSeesAll ==
  \A s \in open : (pc[s] \in {"chat", "receive"} /\ snapshot[s] = stored) =>
    /\ \A i \in missing[s]["progress"] + 1 .. stored : Caught(s, Event(i))
    /\ \A k \in DOMAIN received[s] :
         received[s][k][1] = "progress" => received[s][k][2] > missing[s]["progress"]
    /\ \A k, l \in DOMAIN received[s] :
         (/\ received[s][k][1] = "progress" /\ received[s][l][1] = "progress"
          /\ k < l) => received[s][k][2] < received[s][l][2]

\* Replay and live broadcast meet without a gap and without a duplicate.
ReplayMeetsLive == NothingIsMissed /\ ProgressOnce /\ LateTabSeesAll

\* Events of one producer reach a tab in the order they were stored, as long as
\* both come live: __done__ never precedes the nodes that the same run announced.
\* (A file_done is another producer's: gather makes a task of each file.)
LiveInProducerOrder ==
  \A s \in Sockets : \A k, l \in DOMAIN received[s] :
    LET a == received[s][k]  b == received[s][l] IN
    (/\ a[1] = "progress" /\ b[1] = "progress"
     /\ snapshot[s] < a[2] /\ a[2] < b[2]
     /\ author[a[2]] = author[b[2]]) => k < l

\* The hub may keep sockets whose handler has ended, but never loses one that is
\* in use: a tab whose client is there is registered and has a handler, and an
\* unfinished broadcast owes it each item stored since and not yet sent to it.
OpenTabsAreServed ==
  \A s \in open :
    /\ s \in connections
    /\ pc[s] \in {"progress", "chat", "receive"}
    /\ \A i \in snapshot[s] + 1 .. stored :
         Caught(s, Event(i)) \/ Coming(s, Event(i)) \/ Lost(Event(i))
=============================================================================
