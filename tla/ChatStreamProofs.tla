--------------------------- MODULE ChatStreamProofs ---------------------------
(***************************************************************************)
(* Theorems of ChatStream and of WorkflowView, for any number of tabs and        *)
(* producers, any bounds and any logs of a run.                                 *)
(***************************************************************************)
EXTENDS WorkflowView, WellFoundedInduction, TLAPS

Places == {"new", "progress", "chat", "receive", "closed"}

Missed == [Lists -> Nat]

\* The types, with the large sets folded.
Typed ==
  /\ stored \in Nat
  /\ history \in Nat
  /\ evicted \in Missed
  /\ connections \in SUBSET Sockets
  /\ sending \in SUBSET Broadcasts
  /\ open \in SUBSET Sockets
  /\ pc \in [Sockets -> Places]
  /\ cursor \in [Sockets -> Nat]
  /\ limit \in [Sockets -> Nat]
  /\ snapshot \in [Sockets -> Nat]
  /\ missing \in [Sockets -> Missed]
  /\ received \in [Sockets -> Seq(Items)]
  /\ author \in Seq(Producers)
  /\ cut \in SUBSET Items
  /\ mishaps \in Nat

InLog(item) ==
  /\ item[2] >= 1
  /\ item[1] = "progress" => item[2] <= stored
  /\ item[1] = "chat" => item[2] <= history

\* Nothing is sent that was not stored.
LogInv ==
  /\ Len(author) = stored
  /\ evicted["progress"] <= stored /\ evicted["chat"] <= history
  /\ \A b \in sending : InLog(b.item)
  /\ \A s \in Sockets : \A k \in DOMAIN received[s] : InLog(received[s][k])

\* A producer has one broadcast under way, of the last event it stored.
SendInv ==
  /\ \A b, c \in sending : b.item = c.item => b = c
  /\ \A b \in sending : b.item[1] = "progress" =>
       /\ author[b.item[2]] = b.by
       /\ \A j \in 1 .. stored : author[j] = b.by => j <= b.item[2]

\* Where a handler is, and what the hub knows of it.
Handled(s) ==
  /\ s \in open => s \in connections /\ pc[s] \in {"progress", "chat", "receive"}
  /\ pc[s] = "new" => /\ received[s] = <<>> /\ s \notin connections
                      /\ \A b \in sending : s \notin b.to
  /\ snapshot[s] <= stored
  /\ pc[s] # "new" => missing[s]["progress"] <= snapshot[s]
  /\ pc[s] = "progress" => /\ limit[s] = snapshot[s]
                           /\ cursor[s] \in missing[s]["progress"] + 1 .. limit[s]
  /\ pc[s] = "chat" => /\ limit[s] <= history
                       /\ cursor[s] \in missing[s]["chat"] + 1 .. limit[s]

\* The replay has sent the events up to its cursor, in order, and no other of
\* those it copied.
Replayed(s) ==
  /\ pc[s] = "progress" => \A i \in missing[s]["progress"] + 1 .. cursor[s] : Caught(s, Event(i))
  /\ pc[s] \in {"chat", "receive"} =>
       \A i \in missing[s]["progress"] + 1 .. snapshot[s] : Caught(s, Event(i))
  /\ \A k \in DOMAIN received[s] :
       (received[s][k][1] = "progress" /\ received[s][k][2] <= snapshot[s]) =>
         /\ received[s][k][2] > missing[s]["progress"]
         /\ pc[s] = "progress" => received[s][k][2] <= cursor[s]
  /\ \A k, l \in DOMAIN received[s] :
       (/\ received[s][k][1] = "progress" /\ received[s][k][2] <= snapshot[s]
        /\ received[s][l][1] = "progress" /\ received[s][l][2] <= snapshot[s]
        /\ k < l) => received[s][k][2] < received[s][l][2]

Owed(s, item) == Caught(s, item) \/ Coming(s, item) \/ Lost(item)

\* What was stored after the copy comes live.
LiveIsOwed(s) ==
  /\ s \in open => \A i \in snapshot[s] + 1 .. stored : Owed(s, Event(i))
  /\ (s \in open /\ pc[s] = "chat") =>
       /\ \A i \in missing[s]["chat"] + 1 .. cursor[s] : Caught(s, Message(i))
       /\ \A i \in limit[s] + 1 .. history : Owed(s, Message(i))
  /\ (s \in open /\ pc[s] = "receive") =>
       \A i \in missing[s]["chat"] + 1 .. history : Owed(s, Message(i))

\* What comes live is after the copy, and comes once.
LiveOnce(s) ==
  /\ \A b \in sending : (s \in b.to /\ b.item[1] = "progress") =>
       b.item[2] > snapshot[s] /\ ~Caught(s, b.item)
  /\ \A k, l \in DOMAIN received[s] :
       (received[s][k] = received[s][l] /\ received[s][k][1] = "progress") => k = l

InProducerOrder(s) ==
  \A k, l \in DOMAIN received[s] :
    (/\ received[s][k][1] = "progress" /\ received[s][l][1] = "progress"
     /\ snapshot[s] < received[s][k][2] /\ received[s][k][2] < received[s][l][2]
     /\ author[received[s][k][2]] = author[received[s][l][2]]) => k < l

TabInv(s) == Handled(s) /\ Replayed(s) /\ LiveIsOwed(s) /\ LiveOnce(s) /\ InProducerOrder(s)

Inv == Typed /\ LogInv /\ SendInv /\ \A s \in Sockets : TabInv(s)

-----------------------------------------------------------------------------
(* Lemmas about the data.                                                    *)

LEMMA ItemFields ==
  /\ \A i \in Nat : Event(i) \in Items /\ Message(i) \in Items
  /\ \A item \in Items : item[1] \in Lists /\ item[2] \in Nat /\ item = <<item[1], item[2]>>
  /\ \A item \in Items : item[1] = "progress" => item = Event(item[2])
  BY DEF Items, Lists, Event, Message

LEMMA BroadcastFields ==
  ASSUME NEW b \in Broadcasts
  PROVE  b.by \in Producers /\ b.item \in Items /\ b.to \in SUBSET Sockets
  BY DEF Broadcasts

LEMMA NewBroadcast ==
  ASSUME NEW p \in Producers, NEW item \in Items, NEW to \in SUBSET Sockets
  PROVE  /\ BroadcastTo(p, item, to) \subseteq Broadcasts
         /\ \A b \in BroadcastTo(p, item, to) : b.by = p /\ b.item = item /\ b.to = to
         /\ to # {} => \E b \in BroadcastTo(p, item, to) : b.item = item /\ b.to = to
         /\ \A b, c \in BroadcastTo(p, item, to) : b = c
  <1> DEFINE b0 == [by |-> p, item |-> item, to |-> to]
  <1>1. b0 \in Broadcasts /\ b0.by = p /\ b0.item = item /\ b0.to = to
      BY DEF Broadcasts
  <1>2. BroadcastTo(p, item, to) = IF to = {} THEN {} ELSE {b0}
      BY DEF BroadcastTo
  <1> HIDE DEF b0
  <1> QED BY <1>1, <1>2

\* What a tab has when one more item comes.
LEMMA AppendFields ==
  ASSUME NEW f \in [Sockets -> Seq(Items)], NEW s \in Sockets, NEW x \in Items,
         NEW g, g = [f EXCEPT ![s] = Append(@, x)]
  PROVE  /\ g \in [Sockets -> Seq(Items)]
         /\ DOMAIN g[s] = DOMAIN f[s] \cup {Len(f[s]) + 1}
         /\ \A k \in DOMAIN f[s] : k \in Nat /\ k < Len(f[s]) + 1
         /\ Len(f[s]) + 1 \in Nat
         /\ g[s][Len(f[s]) + 1] = x
         /\ \A k \in DOMAIN f[s] : g[s][k] = f[s][k]
         /\ \A t \in Sockets : t # s => g[t] = f[t]
  <1>1. f[s] \in Seq(Items)
      OBVIOUS
  <1>2. g[s] = Append(f[s], x) /\ g \in [Sockets -> Seq(Items)]
        /\ \A t \in Sockets : t # s => g[t] = f[t]
    <2>1. Append(f[s], x) \in Seq(Items)
        BY <1>1
    <2> QED BY <2>1
  <1>3. /\ Len(f[s]) \in Nat /\ DOMAIN f[s] = 1 .. Len(f[s])
        /\ DOMAIN g[s] = 1 .. Len(f[s]) + 1
        /\ g[s][Len(f[s]) + 1] = x
        /\ \A k \in DOMAIN f[s] : g[s][k] = f[s][k]
      BY <1>1, <1>2
  <1> QED BY <1>2, <1>3

LEMMA ReceivedItems ==
  ASSUME Typed, NEW s \in Sockets
  PROVE  /\ Len(received[s]) \in Nat /\ DOMAIN received[s] = 1 .. Len(received[s])
         /\ \A k \in DOMAIN received[s] : received[s][k] \in Items
  <1>1. received[s] \in Seq(Items)
      BY DEF Typed
  <1> QED BY <1>1

LEMMA InitInv == Init => Inv
  <1> SUFFICES ASSUME Init PROVE Inv
      OBVIOUS
  <1>1. Typed
      BY DEF Init, Typed, Missed, Places
  <1>2. LogInv /\ SendInv
      BY DEF Init, LogInv, SendInv, Lists
  <1>3. ASSUME NEW s \in Sockets PROVE TabInv(s)
    <2>1. /\ received[s] = <<>> /\ sending = {} /\ open = {} /\ connections = {}
          /\ pc[s] = "new" /\ snapshot[s] = 0 /\ stored = 0
        BY <1>3 DEF Init
    <2>2. DOMAIN received[s] = {}
        BY <2>1
    <2> QED BY <2>1, <2>2 DEF TabInv, Handled, Replayed, LiveIsOwed, LiveOnce, InProducerOrder
  <1> QED BY <1>1, <1>2, <1>3 DEF Inv

\* A tab to which nothing comes, and which owes nothing more than before.
LEMMA TabKeeps ==
  ASSUME NEW t \in Sockets, TabInv(t),
         received'[t] = received[t], cursor'[t] = cursor[t], limit'[t] = limit[t],
         snapshot'[t] = snapshot[t], missing'[t] = missing[t],
         \/ pc'[t] = pc[t]
         \/ pc[t] # "new" /\ pc'[t] = "closed" /\ t \notin open',
         t \in open' => t \in open /\ (t \in connections => t \in connections'),
         t \notin connections => t \notin connections',
         UNCHANGED <<stored, history, author>>,
         cut \subseteq cut',
         \A b \in sending' : t \in b.to => \E c \in sending : c.item = b.item /\ t \in c.to,
         t \in open' => \A b \in sending : t \in b.to =>
           b.item \in cut' \/ \E c \in sending' : c.item = b.item /\ t \in c.to
  PROVE  TabInv(t)'
  <1>1. Handled(t)'
      BY DEF TabInv, Handled
  <1>2. \A item : Caught(t, item)' <=> Caught(t, item)
      BY DEF Caught
  <1>3. Replayed(t)'
      BY <1>2 DEF TabInv, Replayed
  <1>4. t \in open' => \A item : Owed(t, item) => Owed(t, item)'
      BY <1>2 DEF Owed, Coming, Lost
  <1>5. LiveIsOwed(t)'
      BY <1>2, <1>4 DEF TabInv, LiveIsOwed
  <1>6. LiveOnce(t)'
      BY <1>2 DEF TabInv, LiveOnce
  <1>7. InProducerOrder(t)'
      BY DEF TabInv, InProducerOrder
  <1> QED BY <1>1, <1>3, <1>5, <1>6, <1>7 DEF TabInv

-----------------------------------------------------------------------------
(* The producers' steps.                                                     *)

LEMMA EmitKeeps ==
  ASSUME Inv, NEW p \in Producers, Emit(p)
  PROVE  Inv'
  <1> DEFINE e == Event(stored + 1)
             new == BroadcastTo(p, e, connections)
  <1>1. /\ stored \in Nat /\ history \in Nat /\ connections \in SUBSET Sockets
        /\ sending \subseteq Broadcasts /\ author \in Seq(Producers) /\ Len(author) = stored
      BY DEF Inv, Typed, LogInv
  <1>2. /\ stored' = stored + 1 /\ author' = Append(author, p) /\ sending' = sending \cup new
        /\ UNCHANGED <<history, evicted, connections, open, pc, cursor, limit, snapshot, missing,
                       received, cut, mishaps>>
        /\ \A b \in sending : b.by # p
      BY DEF Emit, Ready, handler, faults
  <1>3. e \in Items /\ e[1] = "progress" /\ e[2] = stored + 1
      BY <1>1, ItemFields DEF Event
  <1>4. /\ new \subseteq Broadcasts
        /\ \A b \in new : b.by = p /\ b.item = e /\ b.to = connections
        /\ connections # {} => \E b \in new : b.item = e /\ b.to = connections
        /\ \A b, c \in new : b = c
      BY <1>1, <1>3, NewBroadcast
  <1> HIDE DEF e, new
  <1>5. /\ author' \in Seq(Producers) /\ Len(author') = stored' /\ author'[stored + 1] = p
        /\ \A j \in 1 .. stored : author'[j] = author[j]
      BY <1>1, <1>2
  <1>6. Typed'
      BY <1>1, <1>2, <1>4, <1>5 DEF Inv, Typed
  <1>7. \A b \in sending : b.item \in Items /\ b.item[2] \in Nat /\ InLog(b.item)
      BY <1>1, BroadcastFields, ItemFields DEF Inv, LogInv
  <1>8. \A s \in Sockets : \A k \in DOMAIN received[s] :
          received[s][k] \in Items /\ received[s][k][2] \in Nat /\ InLog(received[s][k])
      BY ReceivedItems, ItemFields DEF Inv, LogInv
  <1>9. evicted["progress"] \in Nat /\ evicted["progress"] <= stored /\ evicted["chat"] <= history
      BY DEF Inv, Typed, Missed, Lists, LogInv
  <1>10. LogInv'
    <2>1. \A b \in sending' : InLog(b.item)'
        BY <1>1, <1>2, <1>3, <1>4, <1>7 DEF InLog
    <2>2. \A s \in Sockets : \A k \in DOMAIN received'[s] : InLog(received[s][k])'
        BY <1>1, <1>2, <1>8 DEF InLog
    <2> QED BY <1>1, <1>2, <1>5, <1>9, <2>1, <2>2 DEF LogInv
  <1>11. SendInv'
    <2>1. \A b \in sending : b.item # e
        BY <1>1, <1>3, <1>7 DEF InLog
    <2>2. \A b, c \in sending' : b.item = c.item => b = c
        BY <1>2, <1>4, <2>1 DEF Inv, SendInv
    <2>3. ASSUME NEW b \in sending, b.item[1] = "progress"
          PROVE  /\ author'[b.item[2]] = b.by
                 /\ \A j \in 1 .. stored' : author'[j] = b.by => j <= b.item[2]
      <3>1. b.item[2] \in 1 .. stored
          BY <1>7, <2>3 DEF InLog
      <3>2. author[b.item[2]] = b.by /\ \A j \in 1 .. stored : author[j] = b.by => j <= b.item[2]
          BY <2>3 DEF Inv, SendInv
      <3> QED BY <1>1, <1>2, <1>5, <3>1, <3>2
    <2>4. ASSUME NEW b \in new
          PROVE  /\ author'[b.item[2]] = b.by
                 /\ \A j \in 1 .. stored' : author'[j] = b.by => j <= b.item[2]
        BY <1>1, <1>2, <1>3, <1>4, <1>5
    <2> QED BY <1>2, <2>2, <2>3, <2>4 DEF SendInv
  <1>12. ASSUME NEW s \in Sockets PROVE TabInv(s)'
    <2>1. TabInv(s) /\ snapshot[s] \in Nat
        BY DEF Inv, Typed
    <2>2. Handled(s)'
      <3>1. pc[s] = "new" => \A b \in sending' : s \notin b.to
          BY <1>2, <1>4, <2>1 DEF TabInv, Handled
      <3> QED BY <1>1, <1>2, <2>1, <3>1 DEF TabInv, Handled
    <2>3. Replayed(s)'
        BY <1>2, <2>1 DEF TabInv, Replayed, Caught
    <2>4. \A item : Owed(s, item) => Owed(s, item)'
        BY <1>2 DEF Owed, Caught, Coming, Lost
    <2>5. s \in open => \A item : item = e => Owed(s, item)'
        BY <1>2, <1>4, <2>1 DEF TabInv, Handled, Owed, Coming
    <2>6. LiveIsOwed(s)'
        BY <1>1, <1>2, <2>1, <2>4, <2>5 DEF TabInv, LiveIsOwed, Caught, e
    <2>7. LiveOnce(s)'
      <3>1. ~Caught(s, e)
          BY <1>1, <1>3, <1>8 DEF Caught, InLog
      <3> QED BY <1>1, <1>2, <1>3, <1>4, <2>1, <3>1 DEF TabInv, LiveOnce, Caught, Handled
    <2>8. InProducerOrder(s)'
        BY <1>1, <1>2, <1>5, <1>8, <2>1 DEF TabInv, InProducerOrder, InLog
    <2> QED BY <2>2, <2>3, <2>6, <2>7, <2>8 DEF TabInv
  <1> QED BY <1>6, <1>10, <1>11, <1>12 DEF Inv

LEMMA SayKeeps ==
  ASSUME Inv, NEW p \in Producers, Say(p)
  PROVE  Inv'
  <1> DEFINE m == Message(history + 1)
             new == BroadcastTo(p, m, connections)
  <1>1. /\ stored \in Nat /\ history \in Nat /\ connections \in SUBSET Sockets
        /\ sending \subseteq Broadcasts /\ author \in Seq(Producers) /\ Len(author) = stored
      BY DEF Inv, Typed, LogInv
  <1>2. /\ history' = history + 1 /\ sending' = sending \cup new
        /\ UNCHANGED <<stored, author, evicted, connections, open, pc, cursor, limit, snapshot,
                       missing, received, cut, mishaps>>
        /\ \A b \in sending : b.by # p
      BY DEF Say, Ready, handler, faults
  <1>3. m \in Items /\ m[1] = "chat" /\ m[1] # "progress" /\ m[2] = history + 1
      BY <1>1, ItemFields DEF Message
  <1>4. /\ new \subseteq Broadcasts
        /\ \A b \in new : b.by = p /\ b.item = m /\ b.to = connections
        /\ connections # {} => \E b \in new : b.item = m /\ b.to = connections
        /\ \A b, c \in new : b = c
      BY <1>1, <1>3, NewBroadcast
  <1> HIDE DEF m, new
  <1>5. Typed'
      BY <1>1, <1>2, <1>4 DEF Inv, Typed
  <1>6. \A b \in sending : b.item \in Items /\ b.item[2] \in Nat /\ InLog(b.item)
      BY <1>1, BroadcastFields, ItemFields DEF Inv, LogInv
  <1>7. \A s \in Sockets : \A k \in DOMAIN received[s] :
          received[s][k] \in Items /\ received[s][k][2] \in Nat /\ InLog(received[s][k])
      BY ReceivedItems, ItemFields DEF Inv, LogInv
  <1>8. evicted["chat"] \in Nat /\ evicted["progress"] <= stored /\ evicted["chat"] <= history
      BY DEF Inv, Typed, Missed, Lists, LogInv
  <1>9. LogInv'
    <2>1. \A b \in sending' : InLog(b.item)'
        BY <1>1, <1>2, <1>3, <1>4, <1>6 DEF InLog
    <2>2. \A s \in Sockets : \A k \in DOMAIN received'[s] : InLog(received[s][k])'
        BY <1>1, <1>2, <1>7 DEF InLog
    <2> QED BY <1>1, <1>2, <1>8, <2>1, <2>2 DEF LogInv
  <1>10. SendInv'
    <2>1. \A b \in sending : b.item # m
        BY <1>1, <1>3, <1>6 DEF InLog
    <2>2. \A b, c \in sending' : b.item = c.item => b = c
        BY <1>2, <1>4, <2>1 DEF Inv, SendInv
    <2> QED BY <1>2, <1>3, <1>4, <2>2 DEF Inv, SendInv
  <1>11. ASSUME NEW s \in Sockets PROVE TabInv(s)'
    <2>1. TabInv(s) /\ limit[s] \in Nat /\ missing[s]["chat"] \in Nat
        BY DEF Inv, Typed, Missed, Lists
    <2>2. Handled(s)'
      <3>1. pc[s] = "new" => \A b \in sending' : s \notin b.to
          BY <1>2, <1>4, <2>1 DEF TabInv, Handled
      <3> QED BY <1>1, <1>2, <2>1, <3>1 DEF TabInv, Handled
    <2>3. Replayed(s)'
        BY <1>2, <2>1 DEF TabInv, Replayed, Caught
    <2>4. \A item : Owed(s, item) => Owed(s, item)'
        BY <1>2 DEF Owed, Caught, Coming, Lost
    <2>5. s \in open => \A item : item = m => Owed(s, item)'
        BY <1>2, <1>4, <2>1 DEF TabInv, Handled, Owed, Coming
    <2>6. LiveIsOwed(s)'
        BY <1>1, <1>2, <2>1, <2>4, <2>5 DEF TabInv, LiveIsOwed, Caught, m
    <2>7. LiveOnce(s)'
        BY <1>2, <1>3, <1>4, <2>1 DEF TabInv, LiveOnce, Caught
    <2>8. InProducerOrder(s)'
        BY <1>2, <2>1 DEF TabInv, InProducerOrder
    <2> QED BY <2>2, <2>3, <2>6, <2>7, <2>8 DEF TabInv
  <1> QED BY <1>5, <1>9, <1>10, <1>11 DEF Inv

\* A send takes one socket off a broadcast; if its client is there, it has the
\* item, and the item is new to it and the latest of its producer.
LEMMA DeliverKeeps ==
  ASSUME Inv, NEW b \in sending, NEW s \in Sockets, Deliver(b, s)
  PROVE  Inv'
  <1> DEFINE x == b.item
             left == b.to \ {s}
             rest == BroadcastTo(b.by, x, left)
  <1>1. /\ sending \subseteq Broadcasts /\ b \in Broadcasts /\ b.by \in Producers /\ x \in Items
        /\ b.to \in SUBSET Sockets /\ s \in b.to
        /\ x[1] \in Lists /\ x[2] \in Nat
        /\ received \in [Sockets -> Seq(Items)]
      BY BroadcastFields, ItemFields DEF Inv, Typed, Deliver
  <1>2. /\ sending' = (sending \ {b}) \cup rest
        /\ received' = IF s \in open THEN [received EXCEPT ![s] = Append(@, x)] ELSE received
        /\ UNCHANGED <<stored, history, author, evicted, connections, open, pc, cursor, limit,
                       snapshot, missing, cut, mishaps>>
      BY DEF Deliver, handler, faults, stores
  <1>3. left \in SUBSET Sockets /\ \A t : t \in left <=> t \in b.to /\ t # s
      BY <1>1
  <1> HIDE DEF x, left
  <1>3a. /\ rest \subseteq Broadcasts
         /\ \A c \in rest : c.by = b.by /\ c.item = x /\ c.to = left
         /\ left # {} => \E c \in rest : c.item = x /\ c.to = left
         /\ \A c, d \in rest : c = d
      BY <1>1, <1>3, NewBroadcast
  <1> HIDE DEF rest
  <1>4. InLog(x)
      BY DEF Inv, LogInv, x
  <1>5. \A c \in sending : c # b => c.item # x
      BY DEF Inv, SendInv, x
  <1>6. received' \in [Sockets -> Seq(Items)]
      BY <1>1, <1>2, AppendFields
  <1>7. Typed'
      BY <1>1, <1>2, <1>3, <1>3a, <1>6 DEF Inv, Typed
  <1>8. ASSUME NEW t \in Sockets, t # s
        PROVE  received'[t] = received[t]
      BY <1>1, <1>2, <1>8, AppendFields
  <1>9. s \in open =>
          /\ DOMAIN received'[s] = DOMAIN received[s] \cup {Len(received[s]) + 1}
          /\ \A k \in DOMAIN received[s] : k \in Nat /\ k < Len(received[s]) + 1
          /\ Len(received[s]) + 1 \in Nat
          /\ received'[s][Len(received[s]) + 1] = x
          /\ \A k \in DOMAIN received[s] : received'[s][k] = received[s][k]
      BY <1>1, <1>2, AppendFields
  <1>10. LogInv'
    <2>1. \A c \in sending' : InLog(c.item)'
        BY <1>2, <1>3, <1>3a, <1>4 DEF InLog, Inv, LogInv
    <2>2. ASSUME NEW t \in Sockets, NEW k \in DOMAIN received'[t] PROVE InLog(received[t][k])'
      <3>1. received'[t][k] = x \/ (k \in DOMAIN received[t] /\ received'[t][k] = received[t][k])
          BY <1>2, <1>8, <1>9
      <3>2. k \in DOMAIN received[t] => InLog(received[t][k])
          BY DEF Inv, LogInv
      <3> QED BY <1>2, <1>4, <3>1, <3>2 DEF InLog
    <2> QED BY <1>2, <2>1, <2>2 DEF LogInv, Inv
  <1>11. SendInv'
      BY <1>2, <1>3, <1>3a, <1>5 DEF SendInv, Inv, x
  <1>12. ASSUME NEW t \in Sockets, t # s \/ s \notin open PROVE TabInv(t)'
    <2>1. received'[t] = received[t]
        BY <1>2, <1>8, <1>12
    <2>2. \A c \in sending' : t \in c.to => \E d \in sending : d.item = c.item /\ t \in d.to
        BY <1>2, <1>3, <1>3a DEF x
    <2>3. t \in open' => \A c \in sending : t \in c.to =>
            c.item \in cut' \/ \E d \in sending' : d.item = c.item /\ t \in d.to
      <3>1. t \in open' /\ t \in b.to => \E d \in rest : d.item = x /\ t \in d.to
          BY <1>2, <1>3, <1>3a, <1>12
      <3> QED BY <1>2, <3>1 DEF x
    <2>4. TabInv(t)
        BY DEF Inv
    <2> QED BY <1>2, <2>1, <2>2, <2>3, <2>4, TabKeeps
  <1>13. ASSUME s \in open PROVE TabInv(s)'
    <2> DEFINE n == Len(received[s]) + 1
    <2>1. TabInv(s) /\ snapshot[s] \in Nat
        BY DEF Inv, Typed
    <2>2. /\ n \in Nat /\ DOMAIN received'[s] = DOMAIN received[s] \cup {n}
          /\ received'[s][n] = x
          /\ \A k \in DOMAIN received[s] : k \in Nat /\ k < n /\ received'[s][k] = received[s][k]
        BY <1>9, <1>13
    <2> HIDE DEF n
    <2>3. \A item : Caught(s, item)' <=> Caught(s, item) \/ item = x
        BY <2>2 DEF Caught
    <2>4. \A item : Owed(s, item) => Owed(s, item)'
      <3>1. ASSUME NEW c \in sending, s \in c.to, c.item # x
            PROVE  c \in sending'
          BY <1>2, <3>1 DEF x
      <3> QED BY <1>2, <2>3, <3>1 DEF Owed, Coming, Lost
    <2>5. \A c \in sending' : s \in c.to => c \in sending /\ c.item # x
        BY <1>2, <1>3, <1>3a, <1>5
    <2>6. x[1] = "progress" => x[2] > snapshot[s] /\ ~Caught(s, x)
        BY <1>1, <2>1 DEF TabInv, LiveOnce, x
    <2>7. Handled(s)'
        BY <1>2, <1>13, <2>1 DEF TabInv, Handled
    <2>8. Replayed(s)'
      <3>1. x[1] # "progress" \/ ~(x[2] <= snapshot[s])
          BY <1>1, <2>1, <2>6
      <3> QED BY <1>2, <2>1, <2>2, <2>3, <3>1 DEF TabInv, Replayed
    <2>9. LiveIsOwed(s)'
        BY <1>2, <2>1, <2>3, <2>4 DEF TabInv, LiveIsOwed
    <2>10. LiveOnce(s)'
      <3>1. \A c \in sending' : (s \in c.to /\ c.item[1] = "progress") =>
              c.item[2] > snapshot'[s] /\ ~(Caught(s, c.item)')
          BY <1>2, <2>1, <2>3, <2>5 DEF TabInv, LiveOnce
      <3>2. \A k \in DOMAIN received[s] : x[1] = "progress" => received[s][k] # x
          BY <2>2, <2>6 DEF Caught
      <3>3. \A k, l \in DOMAIN received'[s] :
              (received'[s][k] = received'[s][l] /\ received'[s][k][1] = "progress") => k = l
          BY <2>1, <2>2, <3>2 DEF TabInv, LiveOnce
      <3> QED BY <2>2, <3>1, <3>3 DEF LiveOnce
    <2>11. InProducerOrder(s)'
      <3>1. \A k \in DOMAIN received[s] : received[s][k] \in Items /\ received[s][k][2] \in Nat
                                  /\ InLog(received[s][k])
          BY <2>2, ReceivedItems, ItemFields DEF Inv, LogInv
      <3>2. x[1] = "progress" => \A j \in 1 .. stored : author[j] = author[x[2]] => j <= x[2]
          BY DEF Inv, SendInv, x
      <3>3. \A k \in DOMAIN received[s] :
              (x[1] = "progress" /\ received[s][k][1] = "progress"
                /\ author[received[s][k][2]] = author[x[2]]) => received[s][k][2] <= x[2]
          BY <3>1, <3>2 DEF InLog
      <3>4. ASSUME NEW k \in DOMAIN received'[s], NEW l \in DOMAIN received'[s],
                   received'[s][k][1] = "progress", received'[s][l][1] = "progress",
                   snapshot[s] < received'[s][k][2], received'[s][k][2] < received'[s][l][2],
                   author[received'[s][k][2]] = author[received'[s][l][2]]
            PROVE  k < l
        <4>1. CASE k \in DOMAIN received[s] /\ l \in DOMAIN received[s]
            BY <2>1, <2>2, <3>4, <4>1 DEF TabInv, InProducerOrder
        <4>2. CASE k = n /\ l \in DOMAIN received[s]
            BY <1>1, <2>2, <3>1, <3>3, <3>4, <4>2
        <4>3. CASE k \in DOMAIN received[s] /\ l = n
            BY <2>2, <4>3
        <4>4. CASE k = n /\ l = n
            BY <1>1, <2>2, <3>4, <4>4
        <4> QED BY <2>2, <4>1, <4>2, <4>3, <4>4
      <3> QED BY <1>2, <3>4 DEF InProducerOrder
    <2> QED BY <2>7, <2>8, <2>9, <2>10, <2>11 DEF TabInv
  <1>14. \A t \in Sockets : TabInv(t)'
      BY <1>12, <1>13
  <1> QED BY <1>7, <1>10, <1>11, <1>14 DEF Inv

\* A broadcast that Stop cuts short, or an eviction, brings no tab anything.
LEMMA MishapKeeps ==
  ASSUME Inv, (\E b \in sending : CancelledAtSend(b)) \/ (\E list \in Lists : Evict(list))
  PROVE  Inv'
  <1>1. /\ UNCHANGED <<stored, history, author, connections, open, pc, cursor, limit, snapshot,
                       missing, received>>
        /\ sending' \subseteq sending /\ cut \subseteq cut'
        /\ \A b \in sending : b \in sending' \/ b.item \in cut'
        /\ mishaps' = mishaps + 1
      BY DEF CancelledAtSend, Evict, stores, handler
  <1>2. /\ cut' \in SUBSET Items /\ evicted' \in Missed
        /\ evicted'["progress"] <= stored /\ evicted'["chat"] <= history
    <2>1. CASE \E b \in sending : CancelledAtSend(b)
        BY <2>1, BroadcastFields DEF CancelledAtSend, stores, Inv, Typed, LogInv
    <2>2. ASSUME NEW list \in Lists, Evict(list)
          PROVE  /\ cut' \in SUBSET Items /\ evicted' \in Missed
                 /\ evicted'["progress"] <= stored /\ evicted'["chat"] <= history
        BY <2>2 DEF Evict, Inv, Typed, LogInv, Missed, Lists, Appended
    <2> QED BY <2>1, <2>2
  <1>3. Typed'
      BY <1>1, <1>2 DEF Inv, Typed
  <1>4. LogInv'
      BY <1>1, <1>2 DEF Inv, LogInv, InLog
  <1>5. SendInv'
      BY <1>1 DEF Inv, SendInv
  <1>6. ASSUME NEW t \in Sockets PROVE TabInv(t)'
    <2>1. TabInv(t)
        BY DEF Inv
    <2> QED BY <1>1, <2>1, TabKeeps
  <1> QED BY <1>3, <1>4, <1>5, <1>6 DEF Inv

-----------------------------------------------------------------------------
(* The handler's steps.                                                      *)

\* A client that goes, and a handler that ends, with or without saying so to the hub.
LEMMA LeaveKeeps ==
  ASSUME Inv, NEW s \in Sockets, ClientCloses(s) \/ Disconnect(s) \/ HandlerRaises(s)
  PROVE  Inv'
  <1>1. /\ UNCHANGED <<stored, history, author, evicted, sending, cursor, limit, snapshot,
                       missing, received, cut, mishaps>>
        /\ open' \subseteq open /\ s \notin open'
        /\ connections' \subseteq connections
        /\ \A t \in Sockets \ {s} : t \in connections => t \in connections'
        /\ pc' = pc \/ (pc[s] # "new" /\ pc' = [pc EXCEPT ![s] = "closed"])
      BY DEF ClientCloses, Disconnect, HandlerRaises, stores, handler, faults
  <1>2. pc' \in [Sockets -> Places]
      BY <1>1 DEF Inv, Typed, Places
  <1>3. Typed'
      BY <1>1, <1>2 DEF Inv, Typed
  <1>4. LogInv'
      BY <1>1 DEF Inv, LogInv, InLog
  <1>5. SendInv'
      BY <1>1 DEF Inv, SendInv
  <1>6. ASSUME NEW t \in Sockets PROVE TabInv(t)'
    <2>1. TabInv(t)
        BY DEF Inv
    <2>2. pc'[t] = pc[t] \/ (pc[t] # "new" /\ pc'[t] = "closed" /\ t \notin open')
        BY <1>1 DEF Inv, Typed
    <2> QED BY <1>1, <2>1, <2>2, TabKeeps
  <1> QED BY <1>3, <1>4, <1>5, <1>6 DEF Inv

\* The tab catches x, as the n-th item.
Takes(s, x, n) ==
  /\ DOMAIN received'[s] = DOMAIN received[s] \cup {n}
  /\ received'[s][n] = x
  /\ \A k \in DOMAIN received[s] :
       k \in Nat /\ k < n /\ received'[s][k] = received[s][k]

\* A tab that a handler sends an item of the replay: what that does to the rest.
LEMMA ReplaySends ==
  ASSUME Inv, NEW s \in Sockets, NEW x \in Items, InLog(x),
         received' = [received EXCEPT ![s] = Append(@, x)],
         UNCHANGED <<stored, history, author, evicted, sending, cut, mishaps>>
  PROVE  /\ received' \in [Sockets -> Seq(Items)]
         /\ LogInv' /\ SendInv'
         /\ \A t \in Sockets \ {s} : received'[t] = received[t]
         /\ \A item : Caught(s, item)' <=> Caught(s, item) \/ item = x
         /\ \A item : Owed(s, item) => Owed(s, item)'
         /\ \E n \in Nat : Takes(s, x, n)
  <1>1. received \in [Sockets -> Seq(Items)]
      BY DEF Inv, Typed
  <1>2. /\ received' \in [Sockets -> Seq(Items)]
        /\ \A t \in Sockets \ {s} : received'[t] = received[t]
      BY <1>1, AppendFields
  <1>3. PICK n \in Nat :
          /\ DOMAIN received'[s] = DOMAIN received[s] \cup {n}
          /\ received'[s][n] = x
          /\ \A k \in DOMAIN received[s] :
               k \in Nat /\ k < n /\ received'[s][k] = received[s][k]
    <2>1. /\ DOMAIN received'[s] = DOMAIN received[s] \cup {Len(received[s]) + 1}
          /\ \A k \in DOMAIN received[s] : k \in Nat /\ k < Len(received[s]) + 1
          /\ Len(received[s]) + 1 \in Nat
          /\ received'[s][Len(received[s]) + 1] = x
          /\ \A k \in DOMAIN received[s] : received'[s][k] = received[s][k]
        BY <1>1, AppendFields
    <2> QED BY <2>1
  <1>4. \A item : Caught(s, item)' <=> Caught(s, item) \/ item = x
      BY <1>3 DEF Caught
  <1>5. \A item : Owed(s, item) => Owed(s, item)'
      BY <1>4 DEF Owed, Coming, Lost
  <1>6. LogInv'
    <2>1. ASSUME NEW t \in Sockets, NEW k \in DOMAIN received'[t] PROVE InLog(received[t][k])'
      <3>1. received'[t][k] = x \/ (k \in DOMAIN received[t] /\ received'[t][k] = received[t][k])
          BY <1>2, <1>3
      <3>2. k \in DOMAIN received[t] => InLog(received[t][k])
          BY DEF Inv, LogInv
      <3> QED BY <3>1, <3>2 DEF InLog
    <2>2. \A b \in sending' : InLog(b.item)'
        BY DEF Inv, LogInv, InLog
    <2> QED BY <2>1, <2>2 DEF Inv, LogInv
  <1>7. SendInv'
      BY DEF Inv, SendInv
  <1>8. Takes(s, x, n)
      BY <1>3 DEF Takes
  <1> QED BY <1>2, <1>4, <1>5, <1>6, <1>7, <1>8

\* Nothing changes for the tabs of other handlers.
LEMMA OthersKeep ==
  ASSUME Inv, NEW s \in Sockets, NEW t \in Sockets \ {s},
         received'[t] = received[t], cursor'[t] = cursor[t], limit'[t] = limit[t],
         snapshot'[t] = snapshot[t], missing'[t] = missing[t], pc'[t] = pc[t],
         t \in open <=> t \in open', t \in connections <=> t \in connections',
         UNCHANGED <<stored, history, author, evicted, sending, cut>>
  PROVE  TabInv(t)'
  <1>1. t \in Sockets /\ TabInv(t)
      BY DEF Inv
  <1> QED BY <1>1, TabKeeps

\* A new tab: registered, its list copied, and the first item of it sent.
LEMMA ConnectKeeps ==
  ASSUME Inv, NEW s \in Sockets, Connect(s)
  PROVE  Inv'
  <1>1. /\ stored \in Nat /\ history \in Nat /\ evicted \in Missed
        /\ evicted["progress"] \in Nat /\ evicted["chat"] \in Nat
        /\ evicted["progress"] <= stored /\ evicted["chat"] <= history
        /\ snapshot \in [Sockets -> Nat] /\ missing \in [Sockets -> Missed]
        /\ cursor \in [Sockets -> Nat] /\ limit \in [Sockets -> Nat] /\ pc \in [Sockets -> Places]
        /\ received \in [Sockets -> Seq(Items)]
      BY DEF Inv, Typed, LogInv, Missed, Lists
  <1>2. /\ pc[s] = "new" /\ received[s] = <<>> /\ \A b \in sending : s \notin b.to
        /\ DOMAIN received[s] = {}
      BY DEF Connect, Inv, TabInv, Handled
  <1>3. /\ open' = open \cup {s} /\ connections' = connections \cup {s}
        /\ snapshot' = [snapshot EXCEPT ![s] = stored]
        /\ missing' = [missing EXCEPT ![s] = evicted]
        /\ UNCHANGED <<stored, history, author, evicted, sending, cut, mishaps>>
      BY DEF Connect, Registered, stores, faults
  <1>4. /\ snapshot' \in [Sockets -> Nat] /\ missing' \in [Sockets -> Missed]
        /\ snapshot'[s] = stored /\ missing'[s] = evicted
        /\ \A t \in Sockets \ {s} : snapshot'[t] = snapshot[t] /\ missing'[t] = missing[t]
      BY <1>1, <1>3
  <1>5. ASSUME NEW list \in Lists, Holds(list), BeginReplay(s, list),
               list = "chat" => evicted["progress"] = stored
        PROVE  Inv'
    <2> DEFINE x == <<list, evicted[list] + 1>>
    <2>1. x \in Items /\ x[1] = list /\ x[2] = evicted[list] + 1 /\ InLog(x)
          /\ Appended(list) \in Nat /\ evicted[list] \in Nat /\ evicted[list] < Appended(list)
        BY <1>1, <1>5 DEF Items, Lists, InLog, Holds, Appended
    <2>2. /\ pc' = [pc EXCEPT ![s] = list]
          /\ limit' = [limit EXCEPT ![s] = Appended(list)]
          /\ cursor' = [cursor EXCEPT ![s] = evicted[list] + 1]
          /\ received' = [received EXCEPT ![s] = Append(@, x)]
        BY <1>5 DEF BeginReplay
    <2> HIDE DEF x
    <2>3. /\ pc' \in [Sockets -> Places] /\ limit' \in [Sockets -> Nat] /\ cursor' \in [Sockets -> Nat]
          /\ pc'[s] = list /\ limit'[s] = Appended(list) /\ cursor'[s] = evicted[list] + 1
          /\ \A t \in Sockets \ {s} : pc'[t] = pc[t] /\ limit'[t] = limit[t] /\ cursor'[t] = cursor[t]
        BY <1>1, <2>1, <2>2 DEF Lists, Places
    <2>4. /\ received' \in [Sockets -> Seq(Items)] /\ LogInv' /\ SendInv'
          /\ \A t \in Sockets \ {s} : received'[t] = received[t]
          /\ \A item : Caught(s, item)' <=> Caught(s, item) \/ item = x
        BY <1>3, <2>1, <2>2, ReplaySends
    <2>5. PICK n \in Nat : DOMAIN received'[s] = {n} /\ received'[s][n] = x
      <3>1. \E n \in Nat : Takes(s, x, n)
          BY <1>3, <2>1, <2>2, ReplaySends
      <3> QED BY <1>2, <3>1 DEF Takes
    <2>6. Typed'
        BY <1>3, <1>4, <2>3, <2>4 DEF Inv, Typed
    <2>7. \A t \in Sockets \ {s} : TabInv(t)'
        BY <1>3, <1>4, <2>3, <2>4, OthersKeep
    <2>8. Handled(s)'
        BY <1>1, <1>3, <1>4, <2>1, <2>3 DEF Handled, Appended, Lists
    <2>9. Replayed(s)'
      <3>1. list = "progress" => x = Event(evicted["progress"] + 1) /\ evicted["progress"] + 1 <= stored
          BY <1>1, <2>1 DEF x, Event, Appended
      <3>2. CASE list = "progress"
        <4>1. pc'[s] = "progress" /\ cursor'[s] = evicted["progress"] + 1
            BY <2>3, <3>2
        <4>2. \A i \in evicted["progress"] + 1 .. cursor'[s] : Caught(s, Event(i))'
            BY <1>1, <2>4, <3>1, <3>2, <4>1
        <4> QED BY <1>1, <1>4, <2>1, <2>5, <3>2, <4>1, <4>2 DEF Replayed
      <3>3. CASE list = "chat"
        <4>1. pc'[s] = "chat" /\ evicted["progress"] = stored
            BY <1>5, <2>3, <3>3
        <4> QED BY <1>1, <1>4, <2>1, <2>5, <3>3, <4>1 DEF Replayed
      <3> QED BY <3>2, <3>3 DEF Lists
    <2>10. LiveIsOwed(s)'
      <3>1. list = "chat" => x = Message(evicted["chat"] + 1) /\ limit'[s] = history
          BY <2>1, <2>3 DEF x, Message, Appended
      <3> QED BY <1>1, <1>3, <1>4, <2>1, <2>3, <2>4, <3>1 DEF LiveIsOwed, Lists
    <2>11. LiveOnce(s)' /\ InProducerOrder(s)'
        BY <1>2, <1>3, <2>1, <2>5 DEF LiveOnce, InProducerOrder
    <2>12. TabInv(s)'
        BY <2>8, <2>9, <2>10, <2>11 DEF TabInv
    <2> QED BY <2>4, <2>6, <2>7, <2>12 DEF Inv
  <1>6. ASSUME ~Holds("progress"), ~Holds("chat"), pc' = [pc EXCEPT ![s] = "receive"],
               UNCHANGED <<limit, cursor, received>>
        PROVE  Inv'
    <2>1. evicted["progress"] = stored /\ evicted["chat"] = history
        BY <1>1, <1>6 DEF Holds, Appended
    <2>2. pc' \in [Sockets -> Places] /\ pc'[s] = "receive" /\ \A t \in Sockets \ {s} : pc'[t] = pc[t]
        BY <1>1, <1>6 DEF Places
    <2>3. Typed'
        BY <1>3, <1>4, <1>6, <2>2 DEF Inv, Typed
    <2>4. LogInv' /\ SendInv'
        BY <1>3, <1>6 DEF Inv, LogInv, SendInv, InLog
    <2>5. \A t \in Sockets \ {s} : TabInv(t)'
        BY <1>3, <1>4, <1>6, <2>2, OthersKeep
    <2>6. Handled(s)'
        BY <1>1, <1>2, <1>3, <1>4, <2>1, <2>2 DEF Handled
    <2>7. Replayed(s)' /\ LiveIsOwed(s)' /\ LiveOnce(s)' /\ InProducerOrder(s)'
        BY <1>1, <1>2, <1>3, <1>4, <1>6, <2>1, <2>2
        DEF Replayed, LiveIsOwed, LiveOnce, InProducerOrder
    <2> QED BY <2>3, <2>4, <2>5, <2>6, <2>7 DEF Inv, TabInv
  <1>7. CASE Holds("progress")
      BY <1>5, <1>7 DEF Connect, Lists
  <1>8. CASE ~Holds("progress") /\ Holds("chat")
    <2>1. evicted["progress"] = stored
        BY <1>1, <1>8 DEF Holds, Appended
    <2> QED BY <1>5, <1>8, <2>1 DEF Connect, TurnToChat, Lists
  <1>9. CASE ~Holds("progress") /\ ~Holds("chat")
      BY <1>6, <1>9 DEF Connect, TurnToChat
  <1> QED BY <1>7, <1>8, <1>9

\* The replay goes on: the next item of the list, which no broadcast brought ...
LEMMA NextItemKeeps ==
  ASSUME Inv, NEW s \in Sockets, pc[s] \in {"progress", "chat"}, s \in open, cursor[s] < limit[s],
         cursor' = [cursor EXCEPT ![s] = @ + 1],
         received' = [received EXCEPT ![s] = Append(@, <<pc[s], cursor[s] + 1>>)],
         UNCHANGED <<stores, connections, sending, open, pc, limit, snapshot, missing, faults>>
  PROVE  Inv'
  <1>0. PICK x : x = <<pc[s], cursor[s] + 1>>
      OBVIOUS
  <1>1. /\ stored \in Nat /\ history \in Nat /\ TabInv(s)
        /\ cursor \in [Sockets -> Nat] /\ cursor[s] \in Nat /\ limit[s] \in Nat /\ snapshot[s] \in Nat
        /\ missing[s]["progress"] \in Nat /\ missing[s]["chat"] \in Nat
      BY DEF Inv, Typed, Missed, Lists
  <1>2. UNCHANGED <<stored, history, author, evicted, sending, cut, mishaps>>
      BY DEF stores, faults
  <1>3. /\ x \in Items /\ x[1] = pc[s] /\ x[2] = cursor[s] + 1 /\ InLog(x)
        /\ pc[s] = "progress" => x = Event(cursor[s] + 1)
        /\ pc[s] = "chat" => x = Message(cursor[s] + 1)
      BY <1>0, <1>1 DEF Items, Lists, InLog, TabInv, Handled, Event, Message
  <1>4. received' = [received EXCEPT ![s] = Append(@, x)]
      BY <1>0
  <1>5. /\ received' \in [Sockets -> Seq(Items)] /\ LogInv' /\ SendInv'
        /\ \A t \in Sockets \ {s} : received'[t] = received[t]
        /\ \A item : Caught(s, item)' <=> Caught(s, item) \/ item = x
        /\ \A item : Owed(s, item) => Owed(s, item)'
      BY <1>2, <1>3, <1>4, ReplaySends
  <1>6. PICK n \in Nat : Takes(s, x, n)
      BY <1>2, <1>3, <1>4, ReplaySends
  <1>7. /\ n \in Nat
        /\ DOMAIN received'[s] = DOMAIN received[s] \cup {n}
        /\ received'[s][n] = x
        /\ \A k \in DOMAIN received[s] :
             k \in Nat /\ k < n /\ received'[s][k] = received[s][k]
      BY <1>6 DEF Takes
  <1>8. /\ cursor' \in [Sockets -> Nat] /\ cursor'[s] = cursor[s] + 1
        /\ \A t \in Sockets \ {s} : cursor'[t] = cursor[t]
      BY <1>1
  <1>9. Typed'
      BY <1>2, <1>5, <1>8 DEF Inv, Typed
  <1>10. \A t \in Sockets \ {s} : TabInv(t)'
      BY <1>2, <1>5, <1>8, OthersKeep
  <1>11. Handled(s)'
      BY <1>1, <1>2, <1>8 DEF TabInv, Handled
  <1>12. x[1] = "progress" =>
           /\ pc[s] = "progress" /\ x[2] <= snapshot[s] /\ x[2] > missing[s]["progress"]
           /\ \A k \in DOMAIN received[s] :
                (received[s][k][1] = "progress" /\ received[s][k][2] <= snapshot[s]) =>
                  received[s][k][2] < x[2]
    <2>1. \A k \in DOMAIN received[s] : received[s][k][2] \in Nat
        BY ReceivedItems, ItemFields DEF Inv
    <2> QED BY <1>1, <1>3, <2>1 DEF TabInv, Handled, Replayed
  <1>13. Replayed(s)'
    <2>1. pc[s] = "progress" => \A i \in missing[s]["progress"] + 1 .. cursor'[s] : Caught(s, Event(i))'
      <3>1. \A i \in missing[s]["progress"] + 1 .. cursor'[s] :
              i \in missing[s]["progress"] + 1 .. cursor[s] \/ i = cursor[s] + 1
          BY <1>1, <1>8
      <3> QED BY <1>1, <1>3, <1>5, <3>1 DEF TabInv, Replayed
    <2>2. pc[s] = "chat" => \A i \in missing[s]["progress"] + 1 .. snapshot[s] : Caught(s, Event(i))'
        BY <1>1, <1>5 DEF TabInv, Replayed
    <2>3. \A k \in DOMAIN received'[s] :
            (received'[s][k][1] = "progress" /\ received'[s][k][2] <= snapshot[s]) =>
              /\ received'[s][k][2] > missing[s]["progress"]
              /\ pc[s] = "progress" => received'[s][k][2] <= cursor'[s]
      <3>1. ASSUME NEW k \in DOMAIN received[s],
                   received[s][k][1] = "progress", received[s][k][2] <= snapshot[s]
            PROVE  /\ received[s][k][2] > missing[s]["progress"]
                   /\ pc[s] = "progress" => received[s][k][2] <= cursor'[s]
        <4>1. received[s][k][2] \in Nat
            BY ReceivedItems, ItemFields DEF Inv
        <4> QED BY <1>1, <1>8, <3>1, <4>1 DEF TabInv, Replayed
      <3>2. x[1] = "progress" => x[2] > missing[s]["progress"] /\ x[2] <= cursor'[s]
          BY <1>1, <1>3, <1>8, <1>12
      <3> QED BY <1>7, <3>1, <3>2
    <2>4. \A k, l \in DOMAIN received'[s] :
            (/\ received'[s][k][1] = "progress" /\ received'[s][k][2] <= snapshot[s]
             /\ received'[s][l][1] = "progress" /\ received'[s][l][2] <= snapshot[s]
             /\ k < l) => received'[s][k][2] < received'[s][l][2]
      <3> SUFFICES ASSUME NEW k \in DOMAIN received'[s], NEW l \in DOMAIN received'[s],
                          received'[s][k][1] = "progress", received'[s][k][2] <= snapshot[s],
                          received'[s][l][1] = "progress", received'[s][l][2] <= snapshot[s],
                          k < l
                   PROVE  received'[s][k][2] < received'[s][l][2]
          OBVIOUS
      <3>1. k \in DOMAIN received[s] /\ received'[s][k] = received[s][k]
          BY <1>7
      <3>2. CASE l \in DOMAIN received[s]
        <4>1. received'[s][l] = received[s][l]
            BY <1>7, <3>2
        <4> QED BY <1>1, <3>1, <3>2, <4>1 DEF TabInv, Replayed
      <3>3. CASE l = n
          BY <1>7, <1>12, <3>1, <3>3
      <3> QED BY <1>7, <3>2, <3>3
    <2> QED BY <2>1, <2>2, <2>3, <2>4 DEF Replayed
  <1>14. LiveIsOwed(s)'
    <2>1. \A i \in missing[s]["chat"] + 1 .. cursor'[s] :
            i \in missing[s]["chat"] + 1 .. cursor[s] \/ i = cursor[s] + 1
        BY <1>1, <1>8
    <2>2. pc[s] = "chat" => \A i \in missing[s]["chat"] + 1 .. cursor'[s] : Caught(s, Message(i))'
        BY <1>1, <1>3, <1>5, <2>1 DEF TabInv, LiveIsOwed
    <2> QED BY <1>1, <1>2, <1>5, <2>2 DEF TabInv, LiveIsOwed
  <1>15. LiveOnce(s)'
    <2>1. x[1] = "progress" => ~Caught(s, x)
      <3> SUFFICES ASSUME x[1] = "progress", NEW k \in DOMAIN received[s], received[s][k] = x
                   PROVE  FALSE
          BY DEF Caught
      <3>1. x[2] < x[2]
          BY <1>12
      <3> QED BY <1>1, <1>3, <3>1
    <2>2. ASSUME NEW b \in sending, s \in b.to, b.item[1] = "progress"
          PROVE  b.item[2] > snapshot[s] /\ ~(Caught(s, b.item)')
      <3>1. b.item[2] > snapshot[s] /\ ~Caught(s, b.item) /\ b.item[2] \in Nat
        <4>1. b \in Broadcasts
            BY DEF Inv, Typed
        <4> QED BY <1>1, <2>2, <4>1, BroadcastFields, ItemFields DEF TabInv, LiveOnce
      <3>2. b.item # x
          BY <1>1, <1>3, <1>12, <2>2, <3>1
      <3> QED BY <1>2, <1>5, <3>1, <3>2
    <2>3. \A k, l \in DOMAIN received'[s] :
            (received'[s][k] = received'[s][l] /\ received'[s][k][1] = "progress") => k = l
      <3> SUFFICES ASSUME NEW k \in DOMAIN received'[s], NEW l \in DOMAIN received'[s],
                          received'[s][k] = received'[s][l], received'[s][k][1] = "progress"
                   PROVE  k = l
          OBVIOUS
      <3>1. x[1] = "progress" => \A j \in DOMAIN received[s] : received[s][j] # x
          BY <2>1 DEF Caught
      <3>2. CASE k = n \/ l = n
          BY <1>7, <3>1, <3>2
      <3>3. CASE k # n /\ l # n
          BY <1>1, <1>7, <3>3 DEF TabInv, LiveOnce
      <3> QED BY <3>2, <3>3
    <2>4. \A b \in sending' : (s \in b.to /\ b.item[1] = "progress") =>
            b.item[2] > snapshot'[s] /\ ~(Caught(s, b.item)')
        BY <2>2
    <2> QED BY <2>3, <2>4 DEF LiveOnce
  <1>16. InProducerOrder(s)'
    <2>1. \A k \in DOMAIN received[s] : received[s][k][2] \in Nat
        BY ReceivedItems, ItemFields DEF Inv
    <2>2. ASSUME NEW k \in DOMAIN received'[s], NEW l \in DOMAIN received'[s],
                 received'[s][k][1] = "progress", received'[s][l][1] = "progress",
                 snapshot[s] < received'[s][k][2], received'[s][k][2] < received'[s][l][2],
                 author[received'[s][k][2]] = author[received'[s][l][2]]
          PROVE  k < l
      <3>1. k \in DOMAIN received[s]
          BY <1>1, <1>3, <1>7, <1>12, <2>2
      <3>2. CASE l \in DOMAIN received[s]
          BY <1>1, <1>7, <2>2, <3>1, <3>2 DEF TabInv, InProducerOrder
      <3>3. CASE l = n
          BY <1>7, <3>1, <3>3
      <3> QED BY <1>7, <3>2, <3>3
    <2> QED BY <1>2, <2>2 DEF InProducerOrder
  <1>17. TabInv(s)'
      BY <1>11, <1>13, <1>14, <1>15, <1>16 DEF TabInv
  <1> QED BY <1>5, <1>9, <1>10, <1>17 DEF Inv

\* ... the chat history, copied when the events have all been sent ...
LEMMA TurnKeeps ==
  ASSUME Inv, NEW s \in Sockets, pc[s] = "progress", s \in open, ~(cursor[s] < limit[s]),
         TurnToChat(s), missing' = [missing EXCEPT ![s]["chat"] = evicted["chat"]],
         UNCHANGED <<stores, connections, sending, open, snapshot, faults>>
  PROVE  Inv'
  <1>1. /\ stored \in Nat /\ history \in Nat /\ evicted \in Missed /\ TabInv(s)
        /\ evicted["chat"] \in Nat /\ evicted["chat"] <= history
        /\ cursor \in [Sockets -> Nat] /\ limit \in [Sockets -> Nat] /\ pc \in [Sockets -> Places]
        /\ missing \in [Sockets -> Missed] /\ missing[s]["progress"] \in Nat
        /\ cursor[s] \in Nat /\ limit[s] \in Nat /\ snapshot[s] \in Nat
      BY DEF Inv, Typed, LogInv, Missed, Lists
  <1>2. UNCHANGED <<stored, history, author, evicted, cut, mishaps>>
      BY DEF stores, faults
  <1>3. /\ missing' \in [Sockets -> Missed] /\ missing'[s]["chat"] = evicted["chat"]
        /\ missing'[s]["progress"] = missing[s]["progress"]
        /\ \A t \in Sockets \ {s} : missing'[t] = missing[t]
      BY <1>1 DEF Missed, Lists
  <1>4. cursor[s] = snapshot[s]
      BY <1>1 DEF TabInv, Handled
  <1>5. \A i \in missing[s]["progress"] + 1 .. snapshot[s] : Caught(s, Event(i))
      BY <1>1, <1>4 DEF TabInv, Replayed
  <1>6. CASE Holds("chat")
    <2> DEFINE x == Message(evicted["chat"] + 1)
    <2>1. x \in Items /\ x[1] # "progress" /\ InLog(x) /\ evicted["chat"] < history
        BY <1>1, <1>6, ItemFields DEF Message, InLog, Holds, Appended
    <2>2. /\ pc' = [pc EXCEPT ![s] = "chat"]
          /\ limit' = [limit EXCEPT ![s] = history]
          /\ cursor' = [cursor EXCEPT ![s] = evicted["chat"] + 1]
          /\ received' = [received EXCEPT ![s] = Append(@, x)]
        BY <1>6 DEF TurnToChat, BeginReplay, Appended, Message
    <2>3. /\ pc' \in [Sockets -> Places] /\ limit' \in [Sockets -> Nat] /\ cursor' \in [Sockets -> Nat]
          /\ pc'[s] = "chat" /\ limit'[s] = history /\ cursor'[s] = evicted["chat"] + 1
          /\ \A t \in Sockets \ {s} : pc'[t] = pc[t] /\ limit'[t] = limit[t] /\ cursor'[t] = cursor[t]
        BY <1>1, <2>2 DEF Places
    <2> HIDE DEF x
    <2>4. /\ received' \in [Sockets -> Seq(Items)] /\ LogInv' /\ SendInv'
          /\ \A t \in Sockets \ {s} : received'[t] = received[t]
          /\ \A item : Caught(s, item)' <=> Caught(s, item) \/ item = x
          /\ \A item : Owed(s, item) => Owed(s, item)'
        BY <1>2, <2>1, <2>2, ReplaySends
    <2>5. PICK n \in Nat : Takes(s, x, n)
        BY <1>2, <2>1, <2>2, ReplaySends
    <2>6. /\ n \in Nat
          /\ DOMAIN received'[s] = DOMAIN received[s] \cup {n}
          /\ received'[s][n] = x
          /\ \A k \in DOMAIN received[s] :
               k \in Nat /\ k < n /\ received'[s][k] = received[s][k]
        BY <2>5 DEF Takes
    <2>7. Typed'
        BY <1>2, <1>3, <2>3, <2>4 DEF Inv, Typed
    <2>8. \A t \in Sockets \ {s} : TabInv(t)'
        BY <1>2, <1>3, <2>3, <2>4, OthersKeep
    <2>9. Handled(s)'
        BY <1>1, <1>2, <1>3, <2>1, <2>3 DEF TabInv, Handled
    <2>10. Replayed(s)'
        BY <1>1, <1>3, <1>5, <2>1, <2>3, <2>4, <2>6 DEF TabInv, Replayed
    <2>11. LiveIsOwed(s)'
      <3>1. \A i \in missing'[s]["chat"] + 1 .. cursor'[s] : Caught(s, Message(i))'
        <4>1. \A i \in missing'[s]["chat"] + 1 .. cursor'[s] : Message(i) = x
            BY <1>1, <1>3, <2>3 DEF x
        <4> QED BY <2>4, <4>1
      <3> QED BY <1>1, <1>2, <2>3, <2>4, <3>1 DEF TabInv, LiveIsOwed
    <2>12. LiveOnce(s)'
        BY <1>1, <1>2, <2>1, <2>4, <2>6 DEF TabInv, LiveOnce
    <2>13. InProducerOrder(s)'
        BY <1>1, <1>2, <2>1, <2>6 DEF TabInv, InProducerOrder
    <2>14. TabInv(s)'
        BY <2>9, <2>10, <2>11, <2>12, <2>13 DEF TabInv
    <2> QED BY <2>4, <2>7, <2>8, <2>14 DEF Inv
  <1>7. CASE ~Holds("chat")
    <2>1. evicted["chat"] = history /\ pc' = [pc EXCEPT ![s] = "receive"]
          /\ UNCHANGED <<limit, cursor, received>>
        BY <1>1, <1>7 DEF Holds, Appended, TurnToChat
    <2>2. pc' \in [Sockets -> Places] /\ pc'[s] = "receive" /\ \A t \in Sockets \ {s} : pc'[t] = pc[t]
        BY <1>1, <2>1 DEF Places
    <2>3. Typed'
        BY <1>2, <1>3, <2>1, <2>2 DEF Inv, Typed
    <2>4. LogInv' /\ SendInv'
        BY <1>2, <2>1 DEF Inv, LogInv, SendInv, InLog
    <2>5. \A t \in Sockets \ {s} : TabInv(t)'
        BY <1>2, <1>3, <2>1, <2>2, OthersKeep
    <2>6. Handled(s)' /\ Replayed(s)'
        BY <1>1, <1>2, <1>3, <1>5, <2>1, <2>2 DEF TabInv, Handled, Replayed, Caught
    <2>7. LiveIsOwed(s)'
        BY <1>1, <1>2, <1>3, <2>1, <2>2 DEF TabInv, LiveIsOwed, Owed, Caught, Coming, Lost
    <2>8. LiveOnce(s)' /\ InProducerOrder(s)'
        BY <1>1, <1>2, <2>1 DEF TabInv, LiveOnce, InProducerOrder, Caught
    <2> QED BY <2>3, <2>4, <2>5, <2>6, <2>7, <2>8 DEF Inv, TabInv
  <1> QED BY <1>6, <1>7

\* ... and the receive loop.
LEMMA EndKeeps ==
  ASSUME Inv, NEW s \in Sockets, pc[s] = "chat", s \in open, ~(cursor[s] < limit[s]),
         pc' = [pc EXCEPT ![s] = "receive"],
         UNCHANGED <<stores, connections, sending, open, cursor, limit, snapshot, missing, received,
                     faults>>
  PROVE  Inv'
  <1>1. /\ stored \in Nat /\ history \in Nat /\ TabInv(s) /\ pc \in [Sockets -> Places]
        /\ cursor[s] \in Nat /\ limit[s] \in Nat /\ missing[s]["chat"] \in Nat
      BY DEF Inv, Typed, Missed, Lists
  <1>2. UNCHANGED <<stored, history, author, evicted, cut, mishaps>>
      BY DEF stores, faults
  <1>3. pc' \in [Sockets -> Places] /\ pc'[s] = "receive" /\ \A t \in Sockets \ {s} : pc'[t] = pc[t]
      BY <1>1 DEF Places
  <1>4. Typed'
      BY <1>2, <1>3 DEF Inv, Typed
  <1>5. LogInv' /\ SendInv'
      BY <1>2 DEF Inv, LogInv, SendInv, InLog
  <1>6. \A t \in Sockets \ {s} : TabInv(t)'
      BY <1>2, <1>3, OthersKeep
  <1>7. Handled(s)' /\ Replayed(s)'
      BY <1>1, <1>2, <1>3 DEF TabInv, Handled, Replayed, Caught
  <1>8. LiveIsOwed(s)'
    <2>1. cursor[s] = limit[s]
        BY <1>1 DEF TabInv, Handled
    <2>2. \A i \in missing[s]["chat"] + 1 .. history : Owed(s, Message(i))
        BY <1>1, <2>1 DEF TabInv, LiveIsOwed, Owed
    <2>3. \A item : Owed(s, item) => Owed(s, item)'
        BY <1>2 DEF Owed, Caught, Coming, Lost
    <2> QED BY <1>1, <1>2, <1>3, <2>2, <2>3 DEF TabInv, LiveIsOwed
  <1>9. LiveOnce(s)' /\ InProducerOrder(s)'
      BY <1>1, <1>2 DEF TabInv, LiveOnce, InProducerOrder, Caught
  <1> QED BY <1>4, <1>5, <1>6, <1>7, <1>8, <1>9 DEF Inv, TabInv

LEMMA ContinueKeeps ==
  ASSUME Inv, NEW s \in Sockets, ContinueReplay(s)
  PROVE  Inv'
  <1> USE DEF ContinueReplay, Limit
  <1>1. CASE cursor[s] < limit[s]
      BY <1>1, NextItemKeeps
  <1>2. CASE ~(cursor[s] < limit[s]) /\ pc[s] = "progress"
      BY <1>2, TurnKeeps
  <1>3. CASE ~(cursor[s] < limit[s]) /\ pc[s] = "chat"
      BY <1>3, EndKeeps
  <1> QED BY <1>1, <1>2, <1>3

LEMMA StepInv == Inv /\ [Next]_vars => Inv'
  <1> SUFFICES ASSUME Inv, [Next]_vars PROVE Inv'
      OBVIOUS
  <1>1. ASSUME NEW p \in Producers, Emit(p) \/ Say(p) PROVE Inv'
      BY <1>1, EmitKeeps, SayKeeps
  <1>2. ASSUME NEW b \in sending, CancelledAtSend(b) PROVE Inv'
      BY <1>2, MishapKeeps
  <1>3. ASSUME NEW b \in sending, NEW s \in Sockets, Deliver(b, s) PROVE Inv'
      BY <1>3, DeliverKeeps
  <1>4. ASSUME NEW list \in Lists, Evict(list) PROVE Inv'
      BY <1>4, MishapKeeps
  <1>5. ASSUME NEW s \in Sockets, Connect(s) \/ ContinueReplay(s) PROVE Inv'
      BY <1>5, ConnectKeeps, ContinueKeeps
  <1>6. ASSUME NEW s \in Sockets, ClientCloses(s) \/ Disconnect(s) \/ HandlerRaises(s) PROVE Inv'
      BY <1>6, LeaveKeeps
  <1>7. CASE UNCHANGED vars
    <2>1. Typed' /\ LogInv' /\ SendInv'
        BY <1>7 DEF vars, stores, handler, faults, Inv, Typed, LogInv, SendInv, InLog
    <2>2. ASSUME NEW t \in Sockets PROVE TabInv(t)'
      <3>1. TabInv(t)
          BY DEF Inv
      <3> QED BY <1>7, <3>1, TabKeeps DEF vars, stores, handler, faults
    <2> QED BY <2>1, <2>2 DEF Inv
  <1> QED BY <1>1, <1>2, <1>3, <1>4, <1>5, <1>6, <1>7 DEF Next

-----------------------------------------------------------------------------
(* The theorems.                                                             *)

LEMMA AlwaysInv == Spec => []Inv
  BY InitInv, StepInv, PTL DEF Spec

\* Every variable keeps its type.
THEOREM TypeCorrect == Spec => []TypeOK
  <1>1. Inv => TypeOK
      BY Zenon DEF Inv, Typed, TypeOK, Missed, Places
  <1> QED BY <1>1, AlwaysInv, PTL

\* However producers, sends, replays, evictions and broadcasts cut short
\* interleave, for any number of tabs: a tab that has caught up has missed
\* nothing, no progress event comes twice, and a late tab has the log in order.
THEOREM ReplayMeetsLiveAlways == Spec => []ReplayMeetsLive
  <1>1. Inv => ReplayMeetsLive
    <2> SUFFICES ASSUME Inv PROVE ReplayMeetsLive
        OBVIOUS
    <2>0. /\ stored \in Nat /\ history \in Nat /\ open \subseteq Sockets
          /\ \A s \in Sockets : snapshot[s] \in Nat /\ missing[s]["progress"] \in Nat
        BY DEF Inv, Typed, Missed, Lists
    <2>1. NothingIsMissed
      <3> SUFFICES ASSUME NEW s \in open, pc[s] = "receive"
                   PROVE  /\ \A i \in missing[s]["progress"] + 1 .. stored :
                               \/ Caught(s, Event(i)) \/ Coming(s, Event(i))
                               \/ i > snapshot[s] /\ Lost(Event(i))
                          /\ \A i \in missing[s]["chat"] + 1 .. history :
                               Caught(s, Message(i)) \/ Coming(s, Message(i)) \/ Lost(Message(i))
          BY DEF NothingIsMissed
      <3>1. TabInv(s)
          BY <2>0 DEF Inv
      <3>2. ASSUME NEW i \in missing[s]["progress"] + 1 .. stored
            PROVE  \/ Caught(s, Event(i)) \/ Coming(s, Event(i))
                   \/ i > snapshot[s] /\ Lost(Event(i))
        <4>1. CASE i <= snapshot[s]
            BY <2>0, <3>1, <4>1 DEF TabInv, Replayed
        <4>2. CASE i > snapshot[s]
            BY <2>0, <3>1, <4>2 DEF TabInv, LiveIsOwed, Owed
        <4> QED BY <2>0, <4>1, <4>2
      <3> QED BY <3>1, <3>2 DEF TabInv, LiveIsOwed, Owed
    <2>2. ProgressOnce
        BY DEF Inv, TabInv, LiveOnce, ProgressOnce
    <2>3. LateTabSeesAll
      <3> SUFFICES ASSUME NEW s \in open, pc[s] \in {"chat", "receive"}, snapshot[s] = stored
                   PROVE  /\ \A i \in missing[s]["progress"] + 1 .. stored : Caught(s, Event(i))
                          /\ \A k \in DOMAIN received[s] :
                               received[s][k][1] = "progress" =>
                                 received[s][k][2] > missing[s]["progress"]
                          /\ \A k, l \in DOMAIN received[s] :
                               (/\ received[s][k][1] = "progress" /\ received[s][l][1] = "progress"
                                /\ k < l) => received[s][k][2] < received[s][l][2]
          BY DEF LateTabSeesAll
      <3>1. TabInv(s) /\ \A k \in DOMAIN received[s] : InLog(received[s][k])
          BY <2>0 DEF Inv, LogInv
      <3> QED BY <3>1 DEF TabInv, Replayed, InLog
    <2> QED BY <2>1, <2>2, <2>3 DEF ReplayMeetsLive
  <1> QED BY <1>1, AlwaysInv, PTL

\* Live events of one producer reach every tab in the order they were stored.
THEOREM LiveKeepsProducerOrder == Spec => []LiveInProducerOrder
  <1>1. Inv => LiveInProducerOrder
      BY DEF Inv, TabInv, InProducerOrder, LiveInProducerOrder
  <1> QED BY <1>1, AlwaysInv, PTL

\* A tab whose client is there is registered, handled, and owed what it lacks.
THEOREM OpenTabsStayServed == Spec => []OpenTabsAreServed
  <1>1. Inv => OpenTabsAreServed
      BY DEF Inv, Typed, TabInv, Handled, LiveIsOwed, Owed, OpenTabsAreServed
  <1> QED BY <1>1, AlwaysInv, PTL

-----------------------------------------------------------------------------
(* What a tab draws.  The view of a tab is that of the set of envelopes it has   *)
(* received, whatever their order, as long as "active" comes first.              *)

Settles(env, n) == env.node = n /\ IsTerminal(env.status)

Begins(env, n) == n \in Starts(env) \/ (env.node = n /\ env.status = "active")

StatusFrom(envs, n) ==
  IF \E e \in envs : Settles(e, n) THEN (CHOOSE e \in envs : Settles(e, n)).status
  ELSE IF \E e \in envs : Begins(e, n) THEN "active" ELSE "pending"

VerdictFrom(envs) ==
  IF \E e \in envs : e.accepted # Absent
  THEN (CHOOSE e \in envs : e.accepted # Absent).accepted
  ELSE NoVerdict

Ended(envs) == \E e \in envs : e.node \in {"__done__", "__cancelled__"}

\* The view says what these envelopes of the graph say.
Shows(view, envs) ==
  /\ {"nodeStatuses", "validationAccepted", "isDone"} \subseteq DOMAIN view
  /\ view.nodeStatuses = [n \in Rows |-> StatusFrom(envs, n)]
  /\ view.validationAccepted = VerdictFrom(envs)
  /\ view.isDone = Ended(envs)

\* Each node reports once, and only validate_request says more than its status.
Coherent(envs) ==
  /\ \A e \in envs : /\ e.type = "progress"
                     /\ e.status \in Statuses \cup {Absent}
                     /\ e.accepted \in {"yes", "no", Absent}
                     /\ e.accepted # Absent => e = Verdict(e.accepted)
  /\ \A e, f \in envs :
       (IsTerminal(e.status) /\ IsTerminal(f.status) /\ e.node = f.node) => e = f

LEMMA InitialShows == Shows(InitialView, {})
  BY DEF Shows, InitialView, StatusFrom, VerdictFrom, Ended

\* Files and messages are not drawn in the diagram.
LEMMA OtherShows ==
  ASSUME NEW view, NEW envs, Shows(view, envs), NEW env, env.type \in {"file_progress", "chat"}
  PROVE  Shows(Reduce(view, env), envs)
  <1>1. CASE env.type = "file_progress"
    <2>1. Reduce(view, env) = [view EXCEPT !.fileProgress[env.role] = env.state]
        BY <1>1 DEF Reduce
    <2> QED BY <2>1 DEF Shows
  <1>2. CASE env.type = "chat"
    <2>1. Reduce(view, env) = [view EXCEPT !.messages = Append(@, env.text)]
        BY <1>2 DEF Reduce
    <2> QED BY <2>1 DEF Shows
  <1> QED BY <1>1, <1>2

\* The end is no row, and starts none.
LEMMA EndStarts ==
  ASSUME NEW env, env.node \in {"__done__", "__cancelled__"}
  PROVE  /\ env.node \notin Rows /\ env.node # "validate_request"
         /\ Starts(env) = {}
  <1>1. env.node \notin Rows /\ env.node # "validate_request" /\ env.node \notin Specialists
      BY DEF Rows, AcceptBranch, Specialists
  <1>2. Cascade(env.node) = {}
      BY <1>1 DEF Cascade, Specialists
  <1> QED BY <1>1, <1>2 DEF Starts

\* One more envelope: a row of it.
LEMMA RowShows ==
  ASSUME NEW envs, NEW env, Coherent(envs \cup {env}),
         env.status = "active" => envs = {},
         NEW old, NEW n,
         old = StatusFrom(envs, n)
  PROVE  StatusFrom(envs \cup {env}, n)
           = IF Settles(env, n) THEN env.status
             ELSE IF Begins(env, n) /\ ~IsTerminal(old) THEN "active" ELSE old
  <1> DEFINE all == envs \cup {env}
  <1>1. CASE Settles(env, n)
    <2>1. \A e \in all : Settles(e, n) => e = env
        BY <1>1 DEF Coherent, Settles
    <2>2. (CHOOSE e \in all : Settles(e, n)) = env
        BY <1>1, <2>1
    <2> QED BY <1>1, <2>2 DEF StatusFrom
  <1>2. CASE ~Settles(env, n) /\ \E e \in envs : Settles(e, n)
    <2>1. PICK e \in envs : Settles(e, n)
        BY <1>2
    <2>2. \A f \in all : Settles(f, n) => f = e
        BY <2>1 DEF Coherent, Settles
    <2>3. (CHOOSE f \in all : Settles(f, n)) = e /\ (CHOOSE f \in envs : Settles(f, n)) = e
        BY <2>1, <2>2
    <2>4. old = e.status /\ IsTerminal(old)
        BY <2>1, <2>3 DEF StatusFrom, Settles
    <2> QED BY <1>2, <2>1, <2>3, <2>4 DEF StatusFrom
  <1>3. CASE ~Settles(env, n) /\ ~\E e \in envs : Settles(e, n)
    <2>1. ~IsTerminal(old)
        BY <1>3 DEF StatusFrom, IsTerminal
    <2> QED BY <1>3, <2>1 DEF StatusFrom
  <1> QED BY <1>1, <1>2, <1>3

LEMMA VerdictShows ==
  ASSUME NEW envs, NEW env, Coherent(envs \cup {env})
  PROVE  VerdictFrom(envs \cup {env}) = VerdictAfter(VerdictFrom(envs), env)
  <1> DEFINE all == envs \cup {env}
  <1>1. ASSUME NEW e \in all, NEW f \in all, e.accepted # Absent, f.accepted # Absent
        PROVE  e = f
    <2>1. /\ e = Verdict(e.accepted) /\ f = Verdict(f.accepted)
        BY <1>1 DEF Coherent
    <2>2. \A a : Verdict(a).node = "validate_request" /\ IsTerminal(Verdict(a).status)
        BY DEF Verdict, Progress, IsTerminal
    <2>3. e.node = f.node /\ IsTerminal(e.status) /\ IsTerminal(f.status)
        BY <2>1, <2>2, Zenon
    <2> QED BY <2>3 DEF Coherent
  <1>2. env.accepted # Absent => env.node = "validate_request"
    <2>1. \A a : Verdict(a).node = "validate_request"
        BY DEF Verdict, Progress
    <2> QED BY <2>1 DEF Coherent
  <1>3. CASE env.accepted # Absent
    <2>1. (CHOOSE e \in all : e.accepted # Absent) = env
        BY <1>1, <1>3
    <2> QED BY <1>2, <1>3, <2>1 DEF VerdictFrom, VerdictAfter
  <1>4. CASE env.accepted = Absent /\ \E e \in envs : e.accepted # Absent
    <2>1. PICK e \in envs : e.accepted # Absent
        BY <1>4
    <2>2. (CHOOSE f \in all : f.accepted # Absent) = e
        BY <1>1, <2>1
    <2>3. (CHOOSE f \in envs : f.accepted # Absent) = e
        BY <1>1, <2>1
    <2> QED BY <1>4, <2>1, <2>2, <2>3 DEF VerdictFrom, VerdictAfter
  <1>5. CASE env.accepted = Absent /\ ~\E e \in envs : e.accepted # Absent
      BY <1>5 DEF VerdictFrom, VerdictAfter
  <1> QED BY <1>3, <1>4, <1>5

LEMMA StepShows ==
  ASSUME NEW envs, NEW env, Coherent(envs \cup {env}),
         env.status = "active" => envs = {},
         NEW view, Shows(view, envs)
  PROVE  Shows(Reduce(view, env), envs \cup {env})
  <1> DEFINE all == envs \cup {env}
             next == Reduce(view, env)
  <1> SUFFICES Shows(next, all)
      OBVIOUS
  <1>1. next = ReduceProgress(view, env)
      BY DEF Reduce, Coherent
  <1>2. env.status \in Statuses \cup {Absent} /\ (env.status # Absent => IsTerminal(env.status) \/ env.status = "active")
      BY DEF Coherent, Statuses, IsTerminal
  <1>3. VerdictFrom(all) = VerdictAfter(view.validationAccepted, env)
      BY VerdictShows DEF Shows
  <1>4. \A n \in Rows : StatusFrom(all, n)
           = IF Settles(env, n) THEN env.status
             ELSE IF Begins(env, n) /\ ~IsTerminal(view.nodeStatuses[n]) THEN "active"
             ELSE view.nodeStatuses[n]
      BY RowShows DEF Shows
  <1>5. \A a : Verdict(a).node = "validate_request"
      BY DEF Verdict, Progress
  <1>6. CASE env.node \in {"__done__", "__cancelled__"}
    <2>1. \A n \in Rows : ~Settles(env, n) /\ ~Begins(env, n)
        BY <1>6, EndStarts DEF Settles, Begins
    <2>2. [n \in Rows |-> StatusFrom(all, n)] = view.nodeStatuses
        BY <1>4, <2>1 DEF Shows
    <2>3. VerdictFrom(all) = view.validationAccepted
        BY <1>3, <1>6, EndStarts DEF VerdictAfter
    <2>4. next = [view EXCEPT !.isDone = TRUE]
          \/ next = [view EXCEPT !.isDone = TRUE, !.isCancelled = TRUE]
        BY <1>1, <1>6 DEF ReduceProgress
    <2>5. /\ DOMAIN next = DOMAIN view /\ next.isDone = TRUE
          /\ next.nodeStatuses = view.nodeStatuses
          /\ next.validationAccepted = view.validationAccepted
      <3> HIDE DEF next
      <3> QED BY <2>4 DEF Shows
    <2>6. Ended(all) = TRUE
        BY <1>6 DEF Ended
    <2> HIDE DEF next
    <2> QED BY <2>2, <2>3, <2>5, <2>6 DEF Shows
  <1>7. CASE env.node \notin {"__done__", "__cancelled__"}
    <2>1. next = [view EXCEPT !.nodeStatuses = ApplyActive(OwnStatus(@, env), Starts(env)),
                              !.validationAccepted = VerdictAfter(@, env)]
        BY <1>1, <1>7 DEF ReduceProgress
    <2>2. /\ DOMAIN next = DOMAIN view /\ next.isDone = view.isDone
          /\ next.nodeStatuses = ApplyActive(OwnStatus(view.nodeStatuses, env), Starts(env))
          /\ next.validationAccepted = VerdictAfter(view.validationAccepted, env)
      <3> HIDE DEF next
      <3> QED BY <2>1 DEF Shows
    <2>3. Ended(all) = Ended(envs)
        BY <1>7 DEF Ended
    <2> DEFINE own == OwnStatus(view.nodeStatuses, env)
    <2>4. ASSUME NEW n \in Rows
          PROVE  ApplyActive(own, Starts(env))[n] = StatusFrom(all, n)
      <3> DEFINE old == view.nodeStatuses[n]
      <3>1. own[n] = IF n = env.node /\ env.status # Absent THEN env.status ELSE old
          BY DEF OwnStatus
      <3>2. ApplyActive(own, Starts(env))[n]
              = IF n \in Starts(env) /\ ~IsTerminal(own[n]) THEN "active" ELSE own[n]
          BY DEF ApplyActive
      <3> HIDE DEF own
      <3>3. CASE Settles(env, n)
          BY <1>4, <3>1, <3>2, <3>3 DEF Settles, IsTerminal, Absent
      <3>4. CASE ~Settles(env, n) /\ n = env.node /\ env.status # Absent
        <4>1. env.status = "active" /\ Begins(env, n)
            BY <1>2, <3>4 DEF Settles, Begins
        <4>2. old = "pending"
          <5>1. envs = {} /\ old = StatusFrom(envs, n)
              BY <4>1 DEF Shows
          <5> QED BY <5>1 DEF StatusFrom
        <4> QED BY <1>4, <3>1, <3>2, <3>4, <4>1, <4>2 DEF IsTerminal
      <3>5. CASE ~Settles(env, n) /\ ~(n = env.node /\ env.status # Absent)
        <4>1. Begins(env, n) <=> n \in Starts(env)
            BY <3>5 DEF Begins, Absent
        <4> QED BY <1>4, <3>1, <3>2, <3>5, <4>1
      <3> QED BY <3>3, <3>4, <3>5
    <2>5. ApplyActive(own, Starts(env)) = [n \in Rows |-> StatusFrom(all, n)]
        BY <2>4 DEF ApplyActive
    <2> HIDE DEF next
    <2> QED BY <1>3, <2>2, <2>3, <2>5 DEF Shows
  <1> QED BY <1>6, <1>7

\* The reducer has gone over the first m items.
IsFold(v, log, items, m) ==
  v = [k \in 0 .. m |->
         IF k = 0 THEN InitialView ELSE Reduce(v[k - 1], Envelope(log, items[k]))]

LEMMA LeastNumber ==
  ASSUME NEW S, S \subseteq Nat, S # {}
  PROVE  \E m \in S : \A n \in S : m <= n
  <1>1. PICK m \in S : \A n \in S : ~(<<n, m>> \in OpToRel(<, Nat))
      BY WFMin, NatLessThanWellFounded, Zenon
  <1>2. ASSUME NEW n \in S PROVE m <= n
    <2>1. m \in Nat /\ n \in Nat
        OBVIOUS
    <2>2. n < m => <<n, m>> \in OpToRel(<, Nat)
        BY <2>1 DEF OpToRel
    <2>3. ~(n < m)
        BY <1>1, <2>2, Zenon
    <2> QED BY <2>1, <2>3
  <1> QED BY <1>2

LEMMA FoldExists ==
  ASSUME NEW log, NEW items, NEW m \in Nat
  PROVE  \E v : IsFold(v, log, items, m)
  <1> DEFINE step(v, k) == IF k = 0 THEN InitialView ELSE Reduce(v[k - 1], Envelope(log, items[k]))
             P(j) == \E v : IsFold(v, log, items, j)
             Bad == {j \in Nat : ~P(j)}
  <1> SUFFICES ASSUME Bad # {} PROVE FALSE
      OBVIOUS
  <1>1. PICK j \in Bad : \A i \in Bad : j <= i
    <2>1. Bad \subseteq Nat
        OBVIOUS
    <2> HIDE DEF Bad
    <2> QED BY <2>1, LeastNumber
  <1>2. CASE j = 0
    <2> DEFINE v == [k \in 0 .. 0 |-> InitialView]
    <2>1. IsFold(v, log, items, 0)
        BY DEF IsFold
    <2> QED BY <1>2, <2>1
  <1>3. CASE j # 0
    <2>1. j \in Nat /\ j - 1 \in Nat /\ j - 1 \notin Bad
      <3> HIDE DEF P
      <3>1. j \in Nat /\ j - 1 \in Nat /\ ~(j <= j - 1)
          BY <1>3
      <3> QED BY <1>1, <3>1
    <2>2. PICK v : v = [k \in 0 .. j - 1 |-> step(v, k)]
        BY <2>1 DEF IsFold
    <2> DEFINE w == [k \in 0 .. j |-> IF k = j THEN Reduce(v[j - 1], Envelope(log, items[j])) ELSE v[k]]
    <2>3. ASSUME NEW k \in 0 .. j PROVE w[k] = step(w, k)
      <3>1. CASE k = j
        <4>1. w[j] = Reduce(v[j - 1], Envelope(log, items[j])) /\ w[j - 1] = v[j - 1]
            BY <1>3, <2>1
        <4> HIDE DEF w
        <4> QED BY <1>3, <3>1, <4>1
      <3>2. CASE k # j
        <4>1. k \in 0 .. j - 1 /\ w[k] = v[k] /\ (k # 0 => w[k - 1] = v[k - 1])
            BY <2>1, <3>2
        <4>2. v[k] = step(v, k)
            BY <2>2, <4>1
        <4> HIDE DEF w
        <4> QED BY <4>1, <4>2
      <3> QED BY <3>1, <3>2
    <2>4. w = [k \in 0 .. j |-> step(w, k)]
      <3>1. w = [k \in 0 .. j |-> w[k]]
          OBVIOUS
      <3> HIDE DEF w, step
      <3> QED BY <2>3, <3>1
    <2>5. P(j)
      <3> HIDE DEF w
      <3> QED BY <2>4 DEF IsFold
    <2> QED BY <2>5
  <1> QED BY <1>2, <1>3

\* The view is the last of the views after each item.
LEMMA ViewFolds ==
  ASSUME NEW log, NEW items, Len(items) \in Nat
  PROVE  \E v : /\ v[0] = InitialView
                /\ \A k \in 1 .. Len(items) : v[k] = Reduce(v[k - 1], Envelope(log, items[k]))
                /\ ViewOf(log, items) = v[Len(items)]
  <1> DEFINE v == CHOOSE u : IsFold(u, log, items, Len(items))
  <1>1. IsFold(v, log, items, Len(items))
      BY FoldExists
  <1>2. ViewOf(log, items) = v[Len(items)]
      BY DEF ViewOf, IsFold
  <1> HIDE DEF v
  <1>3. v[0] = InitialView
      BY <1>1 DEF IsFold
  <1>4. ASSUME NEW k \in 1 .. Len(items)
        PROVE  v[k] = Reduce(v[k - 1], Envelope(log, items[k]))
    <2>1. k \in 0 .. Len(items) /\ k # 0
        OBVIOUS
    <2> QED BY <1>1, <2>1 DEF IsFold
  <1> QED BY <1>2, <1>3, <1>4

-----------------------------------------------------------------------------

\* An item that brings an envelope of the graph.
OfGraph(log, item) == item[1] = "progress" /\ log[item[2]].type = "progress"

GraphEnvelopes(log, items, m) ==
  {log[items[k][2]] : k \in {l \in 1 .. m : OfGraph(log, items[l])}}

\* Items of the log, of which "active" comes before the graph's others.
InOrder(log, items) ==
  /\ Len(items) \in Nat
  /\ \A k \in 1 .. Len(items) :
       /\ items[k][1] \in Lists
       /\ items[k][1] = "progress" => items[k][2] \in DOMAIN log
  /\ \A k, l \in 1 .. Len(items) :
       (/\ OfGraph(log, items[k]) /\ OfGraph(log, items[l])
        /\ log[items[k][2]].status = "active") => k <= l

LEMMA GraphIsCoherent ==
  ASSUME NEW log \in Logs, NEW items, InOrder(log, items), NEW m \in 0 .. Len(items)
  PROVE  Coherent(GraphEnvelopes(log, items, m))
  <1> DEFINE envs == GraphEnvelopes(log, items, m)
  <1>1. \A e \in envs : \E i \in DOMAIN log : e = log[i] /\ log[i].type = "progress"
      BY DEF InOrder, GraphEnvelopes, OfGraph
  <1> HIDE DEF envs
  <1>2. /\ \A i \in DOMAIN log : log[i].type = "progress" =>
             /\ log[i].status \in Statuses \cup {Absent}
             /\ log[i].accepted \in {"yes", "no", Absent}
             /\ log[i].accepted # Absent => log[i] = Verdict(log[i].accepted)
        /\ \A i, j \in DOMAIN log :
             (/\ log[i].type = "progress" /\ IsTerminal(log[i].status)
              /\ log[j].type = "progress" /\ IsTerminal(log[j].status)
              /\ log[i].node = log[j].node) => i = j
      BY LogsAssumption
  <1>3. Coherent(envs)
      BY <1>1, <1>2 DEF Coherent
  <1> QED BY <1>3 DEF envs

\* One more item.
LEMMA ItemShows ==
  ASSUME NEW log \in Logs, NEW items, InOrder(log, items), NEW m \in 1 .. Len(items),
         NEW view, Shows(view, GraphEnvelopes(log, items, m - 1))
  PROVE  Shows(Reduce(view, Envelope(log, items[m])), GraphEnvelopes(log, items, m))
  <1> DEFINE env == Envelope(log, items[m])
             old == GraphEnvelopes(log, items, m - 1)
             all == GraphEnvelopes(log, items, m)
  <1>0. m \in Nat /\ m - 1 \in Nat /\ 1 .. m = (1 .. m - 1) \cup {m} /\ m \notin 1 .. m - 1
        /\ Len(items) \in Nat
      BY DEF InOrder
  <1>1. CASE OfGraph(log, items[m])
    <2>1. env = log[items[m][2]]
        BY <1>1 DEF OfGraph, Envelope
    <2>2. all = old \cup {env}
        BY <1>0, <1>1, <2>1 DEF GraphEnvelopes
    <2>3. env.status = "active" => old = {}
      <3> SUFFICES ASSUME env.status = "active", NEW k \in 1 .. m - 1, OfGraph(log, items[k])
                   PROVE  FALSE
          BY DEF GraphEnvelopes
      <3>1. k \in 1 .. Len(items) /\ ~(m <= k)
          BY <1>0
      <3> QED BY <1>1, <2>1, <3>1 DEF InOrder
    <2>4. Coherent(all)
        BY <1>0, GraphIsCoherent
    <2> HIDE DEF env, old, all
    <2>5. Coherent(old \cup {env}) /\ Shows(view, old)
        BY <2>2, <2>4 DEF old
    <2>6. Shows(Reduce(view, env), old \cup {env})
        BY <2>3, <2>5, StepShows
    <2> QED BY <2>2, <2>6 DEF env, all
  <1>2. CASE ~OfGraph(log, items[m])
    <2>1. all = old
        BY <1>0, <1>2 DEF GraphEnvelopes
    <2>2. env.type \in {"file_progress", "chat"}
      <3>1. CASE items[m][1] = "progress"
        <4>1. items[m][2] \in DOMAIN log
            BY <3>1 DEF InOrder
        <4>2. log[items[m][2]].type \in {"progress", "file_progress"}
            BY <4>1, LogsAssumption
        <4> QED BY <1>2, <3>1, <4>2 DEF OfGraph, Envelope
      <3>2. CASE items[m][1] # "progress"
          BY <3>2 DEF Envelope, ChatMessage
      <3> QED BY <3>1, <3>2
    <2> HIDE DEF env, old, all
    <2>3. Shows(view, old)
        BY DEF old
    <2>4. Shows(Reduce(view, env), old)
        BY <2>2, <2>3, OtherShows
    <2> QED BY <2>1, <2>4 DEF env, all
  <1> QED BY <1>1, <1>2

\* What is drawn depends on which envelopes of the graph have come.
LEMMA ViewShows ==
  ASSUME NEW log \in Logs, NEW items, InOrder(log, items)
  PROVE  Shows(ViewOf(log, items), GraphEnvelopes(log, items, Len(items)))
  <1>0. Len(items) \in Nat
      BY DEF InOrder
  <1>1. PICK v : /\ v[0] = InitialView
                 /\ \A k \in 1 .. Len(items) : v[k] = Reduce(v[k - 1], Envelope(log, items[k]))
                 /\ ViewOf(log, items) = v[Len(items)]
      BY <1>0, ViewFolds
  <1> DEFINE P(k) == Shows(v[k], GraphEnvelopes(log, items, k))
             Bad == {k \in 0 .. Len(items) : ~P(k)}
  <1>2. Bad = {}
    <2> SUFFICES ASSUME Bad # {} PROVE FALSE
        OBVIOUS
    <2>1. PICK j \in Bad : \A i \in Bad : j <= i
      <3>1. Bad \subseteq Nat
          BY <1>0
      <3> HIDE DEF Bad
      <3> QED BY <3>1, LeastNumber
    <2>2. CASE j = 0
      <3>1. GraphEnvelopes(log, items, 0) = {}
          BY DEF GraphEnvelopes
      <3>2. P(0)
          BY <1>1, <3>1, InitialShows
      <3> QED BY <2>2, <3>2
    <2>3. CASE j # 0
      <3>1. j \in 1 .. Len(items) /\ j - 1 \in 0 .. Len(items) /\ ~(j <= j - 1)
          BY <1>0, <2>3
      <3>2. P(j - 1)
        <4> HIDE DEF P
        <4> QED BY <2>1, <3>1
      <3>3. P(j)
          BY <1>1, <3>1, <3>2, ItemShows
      <3> QED BY <3>3
    <2> QED BY <2>2, <2>3
  <1> HIDE DEF P
  <1>3. P(Len(items))
      BY <1>0, <1>2
  <1> QED BY <1>1, <1>3 DEF P

\* A tab whose list was not empty has its first event from its very first step.
FirstSent(s) ==
  (pc[s] # "new" /\ missing[s]["progress"] < snapshot[s]) =>
    /\ 1 \in DOMAIN received[s]
    /\ received[s][1] = Event(missing[s]["progress"] + 1)

ViewInv == stored <= MaxEvents /\ \A s \in Sockets : FirstSent(s)

LEMMA InitViewInv == Init => ViewInv
  BY BoundsAssumption DEF Init, ViewInv, FirstSent

\* What a tab has, it keeps.
LEMMA FirstStays ==
  ASSUME NEW t \in Sockets, FirstSent(t),
         pc'[t] # "new" => pc[t] # "new",
         snapshot'[t] = snapshot[t], missing'[t]["progress"] = missing[t]["progress"],
         1 \in DOMAIN received[t] => 1 \in DOMAIN received'[t] /\ received'[t][1] = received[t][1]
  PROVE  FirstSent(t)'
  BY DEF FirstSent

LEMMA ReceivedGrows ==
  ASSUME Typed, NEW s \in Sockets, NEW x \in Items,
         received' = [received EXCEPT ![s] = Append(@, x)], NEW t \in Sockets
  PROVE  1 \in DOMAIN received[t] => 1 \in DOMAIN received'[t] /\ received'[t][1] = received[t][1]
  <1>1. received \in [Sockets -> Seq(Items)]
      BY DEF Typed
  <1>2. CASE t = s
      BY <1>1, <1>2, AppendFields
  <1>3. CASE t # s
      BY <1>1, <1>3, AppendFields
  <1> QED BY <1>2, <1>3

LEMMA ConnectSendsFirst ==
  ASSUME Inv, ViewInv, NEW s \in Sockets, Connect(s)
  PROVE  ViewInv'
  <1>1. /\ snapshot \in [Sockets -> Nat] /\ missing \in [Sockets -> Missed]
        /\ received \in [Sockets -> Seq(Items)] /\ pc \in [Sockets -> Places]
        /\ evicted \in Missed /\ stored \in Nat /\ received[s] = <<>>
      BY DEF Inv, Typed, TabInv, Handled, Connect
  <1>2. /\ snapshot' = [snapshot EXCEPT ![s] = stored]
        /\ missing' = [missing EXCEPT ![s] = evicted]
        /\ stored' = stored
      BY DEF Connect, stores
  <1>3. PICK list \in Lists, x \in Items :
          \/ UNCHANGED received /\ evicted["progress"] >= stored
          \/ /\ received' = [received EXCEPT ![s] = Append(@, x)]
             /\ evicted["progress"] < stored => x = Event(evicted["progress"] + 1)
    <2>1. ASSUME NEW l \in Lists PROVE <<l, evicted[l] + 1>> \in Items
        BY <1>1 DEF Items, Missed, Lists
    <2>2. CASE Holds("progress")
      <3>1. received' = [received EXCEPT ![s] = Append(@, <<"progress", evicted["progress"] + 1>>)]
          BY <2>2 DEF Connect, BeginReplay
      <3> QED BY <2>1, <3>1 DEF Event, Lists
    <2>3. CASE ~Holds("progress")
      <3>1. evicted["progress"] >= stored
          BY <1>1, <2>3 DEF Holds, Appended, Missed, Lists
      <3>2. \/ UNCHANGED received
            \/ received' = [received EXCEPT ![s] = Append(@, <<"chat", evicted["chat"] + 1>>)]
          BY <2>3 DEF Connect, TurnToChat, BeginReplay
      <3>3. ~(evicted["progress"] < stored)
          BY <1>1, <3>1 DEF Missed, Lists
      <3>4. "chat" \in Lists /\ Items # {}
          BY <2>1 DEF Lists
      <3> QED BY <2>1, <3>1, <3>2, <3>3, <3>4
    <2> QED BY <2>2, <2>3
  <1>4. FirstSent(s)'
    <2> SUFFICES ASSUME evicted["progress"] < stored
                 PROVE  1 \in DOMAIN received'[s] /\ received'[s][1] = Event(evicted["progress"] + 1)
        BY <1>1, <1>2 DEF FirstSent
    <2>1. received' = [received EXCEPT ![s] = Append(@, x)] /\ x = Event(evicted["progress"] + 1)
        BY <1>1, <1>3 DEF Missed, Lists
    <2>2. received'[s] = Append(<<>>, x)
        BY <1>1, <2>1
    <2> QED BY <2>1, <2>2
  <1>5. ASSUME NEW t \in Sockets \ {s} PROVE FirstSent(t)'
    <2>1. /\ snapshot'[t] = snapshot[t] /\ missing'[t] = missing[t] /\ received'[t] = received[t]
        BY <1>1, <1>2, <1>3
    <2>2. pc'[t] = pc[t]
        BY <1>1 DEF Connect, BeginReplay, TurnToChat
    <2> QED BY <2>1, <2>2, FirstStays DEF ViewInv
  <1> QED BY <1>2, <1>4, <1>5 DEF ViewInv

LEMMA StepViewInv == Inv /\ ViewInv /\ [Next]_vars => ViewInv'
  <1> SUFFICES ASSUME Inv, ViewInv, [Next]_vars PROVE ViewInv'
      OBVIOUS
  <1>0. /\ Typed /\ stored \in Nat /\ MaxEvents \in Nat /\ stored <= MaxEvents
        /\ \A s \in Sockets : FirstSent(s)
      BY BoundsAssumption DEF Inv, Typed, ViewInv
  <1>1. ASSUME NEW p \in Producers, Emit(p) \/ Say(p) PROVE ViewInv'
    <2>1. stored' <= MaxEvents /\ UNCHANGED <<handler, received>>
        BY <1>0, <1>1 DEF Emit, Say
    <2>2. \A s \in Sockets : FirstSent(s)'
        BY <1>0, <2>1 DEF FirstSent, handler
    <2> QED BY <2>1, <2>2 DEF ViewInv
  <1>2. ASSUME NEW b \in sending, NEW s \in Sockets, Deliver(b, s) PROVE ViewInv'
    <2>1. UNCHANGED <<stored, handler>>
          /\ (UNCHANGED received \/ received' = [received EXCEPT ![s] = Append(@, b.item)])
        BY <1>2 DEF Deliver, stores
    <2>2. b.item \in Items
        BY <1>0, BroadcastFields DEF Typed
    <2>3. ASSUME NEW t \in Sockets PROVE FirstSent(t)'
      <3>1. 1 \in DOMAIN received[t] => 1 \in DOMAIN received'[t] /\ received'[t][1] = received[t][1]
          BY <1>0, <2>1, <2>2, ReceivedGrows
      <3> QED BY <1>0, <2>1, <3>1, FirstStays DEF handler
    <2> QED BY <1>0, <2>1, <2>3 DEF ViewInv
  <1>3. ASSUME UNCHANGED <<stored, handler, received>> PROVE ViewInv'
    <2>1. \A s \in Sockets : FirstSent(s)'
        BY <1>0, <1>3 DEF FirstSent, handler
    <2> QED BY <1>0, <1>3, <2>1 DEF ViewInv
  <1>4. ASSUME NEW s \in Sockets, ContinueReplay(s) PROVE ViewInv'
    <2>1. UNCHANGED <<stored, evicted, snapshot>> /\ pc[s] \in Lists
        BY <1>4 DEF ContinueReplay, stores, Lists
    <2>2. PICK x \in Items : UNCHANGED received \/ received' = [received EXCEPT ![s] = Append(@, x)]
      <3>1. <<pc[s], cursor[s] + 1>> \in Items /\ <<"chat", evicted["chat"] + 1>> \in Items
          BY <1>0, <2>1 DEF Typed, Items, Missed, Lists
      <3>2. \/ UNCHANGED received
            \/ received' = [received EXCEPT ![s] = Append(@, <<pc[s], cursor[s] + 1>>)]
            \/ received' = [received EXCEPT ![s] = Append(@, <<"chat", evicted["chat"] + 1>>)]
          BY <1>4 DEF ContinueReplay, TurnToChat, BeginReplay
      <3> QED BY <3>1, <3>2
    <2>3. ASSUME NEW t \in Sockets PROVE FirstSent(t)'
      <3>1. 1 \in DOMAIN received[t] => 1 \in DOMAIN received'[t] /\ received'[t][1] = received[t][1]
          BY <1>0, <2>2, ReceivedGrows
      <3>2. pc'[t] # "new" => pc[t] # "new"
          BY <1>0, <1>4 DEF ContinueReplay, TurnToChat, BeginReplay, Typed
      <3>3. missing'[t]["progress"] = missing[t]["progress"]
        <4>1. missing \in [Sockets -> Missed]
            BY <1>0 DEF Typed
        <4>2. UNCHANGED missing \/ missing' = [missing EXCEPT ![s]["chat"] = evicted["chat"]]
            BY <1>4 DEF ContinueReplay
        <4> QED BY <4>1, <4>2 DEF Missed, Lists
      <3> QED BY <1>0, <2>1, <3>1, <3>2, <3>3, FirstStays
    <2> QED BY <1>0, <2>1, <2>3 DEF ViewInv
  <1>5. ASSUME NEW s \in Sockets, ClientCloses(s) \/ Disconnect(s) \/ HandlerRaises(s) PROVE ViewInv'
    <2>1. UNCHANGED <<stored, snapshot, missing, received>>
        BY <1>5 DEF ClientCloses, Disconnect, HandlerRaises, stores, handler
    <2>2. \A t \in Sockets : pc'[t] # "new" => pc[t] # "new"
        BY <1>0, <1>5 DEF ClientCloses, Disconnect, HandlerRaises, handler, Typed
    <2>3. \A t \in Sockets : FirstSent(t)'
        BY <1>0, <2>1, <2>2, FirstStays
    <2> QED BY <1>0, <2>1, <2>3 DEF ViewInv
  <1>6. ASSUME NEW b \in sending, CancelledAtSend(b) PROVE ViewInv'
      BY <1>3, <1>6 DEF CancelledAtSend, stores
  <1>7. ASSUME NEW list \in Lists, Evict(list) PROVE ViewInv'
      BY <1>3, <1>7 DEF Evict
  <1>8. CASE UNCHANGED vars
      BY <1>3, <1>8 DEF vars, stores
  <1>9. ASSUME NEW s \in Sockets, Connect(s) PROVE ViewInv'
      BY <1>9, ConnectSendsFirst
  <1> QED BY <1>1, <1>2, <1>4, <1>5, <1>6, <1>7, <1>8, <1>9 DEF Next

LEMMA AlwaysViewInv == Spec => [](Inv /\ ViewInv)
  <1>1. Init => Inv /\ ViewInv
      BY InitInv, InitViewInv
  <1>2. (Inv /\ ViewInv) /\ [Next]_vars => (Inv /\ ViewInv)'
      BY StepInv, StepViewInv
  <1> QED BY <1>1, <1>2, PTL DEF Spec

\* However replay and broadcast mix, "active" is the first of the graph's
\* envelopes that reaches a tab: it is first in the log, and a tab that gets it
\* from the replay gets it in its very first step.
LEMMA TabInOrder ==
  ASSUME Inv, ViewInv, NEW s \in Sockets, NEW log \in Possible
  PROVE  InOrder(log, received[s])
  <1>0. /\ stored \in Nat /\ stored <= MaxEvents /\ MaxEvents \in Nat /\ TabInv(s) /\ FirstSent(s)
        /\ snapshot[s] \in Nat /\ missing[s]["progress"] \in Nat
        /\ log \in Logs /\ OneGraphLoop(log)
      BY BoundsAssumption DEF Inv, Typed, Missed, Lists, ViewInv, Possible
  <1>1. /\ Len(received[s]) \in Nat /\ DOMAIN received[s] = 1 .. Len(received[s])
        /\ \A k \in DOMAIN received[s] :
             received[s][k] \in Items /\ InLog(received[s][k])
      BY ReceivedItems DEF Inv, LogInv
  <1>2. ASSUME NEW k \in DOMAIN received[s], received[s][k][1] = "progress"
        PROVE  received[s][k][2] \in 1 .. stored /\ received[s][k][2] \in DOMAIN log
    <2>1. received[s][k] \in Items /\ InLog(received[s][k])
        BY <1>1
    <2>2. received[s][k][2] \in Nat
        BY <2>1, ItemFields
    <2>3. received[s][k][2] \in 1 .. stored
        BY <1>0, <1>2, <2>1, <2>2 DEF InLog
    <2>4. received[s][k][2] \in 1 .. MaxEvents
        BY <1>0, <2>3
    <2> QED BY <1>0, <2>3, <2>4, LogsAssumption
  <1>3. ASSUME NEW k \in DOMAIN received[s], NEW l \in DOMAIN received[s],
               OfGraph(log, received[s][k]), OfGraph(log, received[s][l]),
               log[received[s][k][2]].status = "active", ~(k <= l)
        PROVE  FALSE
    <2>0. k \in Nat /\ l \in Nat /\ l < k /\ 1 <= l
        BY <1>1, <1>3
    <2>1. /\ received[s][k][1] = "progress" /\ received[s][l][1] = "progress"
          /\ log[received[s][k][2]].type = "progress" /\ log[received[s][l][2]].type = "progress"
        BY <1>3 DEF OfGraph
    <2>2. /\ received[s][k][2] \in 1 .. stored /\ received[s][l][2] \in 1 .. stored
          /\ received[s][k][2] \in DOMAIN log
        BY <1>2, <2>1
    <2>3. received[s][k][2] = 1
        BY <1>0, <1>3, <2>1, <2>2, LogsAssumption
    <2>4. author[received[s][k][2]] = author[received[s][l][2]]
        BY <1>0, <2>1, <2>2 DEF OneGraphLoop
    <2>5. received[s][k] = Event(1) /\ received[s][l] = Event(received[s][l][2])
        BY <1>1, <2>1, <2>3, ItemFields
    <2>6. received[s][l][2] # 1
      <3>1. received[s][k] # received[s][l]
          BY <1>0, <2>0, <2>1 DEF TabInv, LiveOnce
      <3> QED BY <2>5, <3>1
    <2>7. CASE snapshot[s] < 1
      <3>1. snapshot[s] < received[s][k][2] /\ received[s][k][2] < received[s][l][2]
          BY <1>0, <2>2, <2>3, <2>6, <2>7
      <3>2. k < l
          BY <1>0, <2>1, <2>4, <3>1 DEF TabInv, InProducerOrder
      <3> QED BY <2>0, <3>2
    <2>8. CASE snapshot[s] >= 1
      <3>1. received[s][k][2] > missing[s]["progress"]
          BY <1>0, <2>1, <2>3, <2>8 DEF TabInv, Replayed
      <3>2. missing[s]["progress"] = 0
          BY <1>0, <2>3, <3>1
      <3>3. pc[s] # "new"
        <4>1. received[s] # <<>>
            BY <1>1
        <4> QED BY <1>0, <4>1 DEF TabInv, Handled
      <3>4. 1 \in DOMAIN received[s] /\ received[s][1] = Event(1)
          BY <1>0, <2>8, <3>2, <3>3 DEF FirstSent
      <3>5. k = 1
          BY <1>0, <2>1, <2>5, <3>4 DEF TabInv, LiveOnce
      <3> QED BY <2>0, <3>5
    <2> QED BY <1>0, <2>7, <2>8
  <1>4. \A k \in DOMAIN received[s] : received[s][k][1] \in Lists
      BY <1>1, ItemFields
  <1> QED BY <1>1, <1>2, <1>3, <1>4 DEF InOrder

\* A row that is settled stays so when envelopes come.
LEMMA RowStaysSettled ==
  ASSUME NEW envs, NEW more, envs \subseteq more, NEW n, IsTerminal(StatusFrom(envs, n))
  PROVE  IsTerminal(StatusFrom(more, n))
  <1>1. PICK e \in envs : Settles(e, n)
      BY DEF StatusFrom, IsTerminal
  <1>2. e \in more
      BY <1>1
  <1>3. PICK f : f = CHOOSE g \in more : Settles(g, n)
      OBVIOUS
  <1>4. Settles(f, n)
      BY <1>1, <1>2, <1>3
  <1> QED BY <1>1, <1>2, <1>3, <1>4 DEF StatusFrom, Settles

LEMMA LastKeepsSettled ==
  ASSUME NEW log \in Logs, NEW items, items \in Seq(Items), items # <<>>, InOrder(log, items)
  PROVE  LET before == ViewOf(log, Front(items)).nodeStatuses
             after  == Reduce(ViewOf(log, Front(items)), Envelope(log, Last(items))).nodeStatuses
         IN \A n \in Rows : IsTerminal(before[n]) => IsTerminal(after[n])
  <1>1. PICK m : m = Len(items)
      OBVIOUS
  <1>2. m \in Nat /\ m >= 1 /\ m - 1 \in Nat
      BY <1>1
  <1>3. PICK front : front = Front(items)
      OBVIOUS
  <1>4. /\ Len(front) = m - 1 /\ \A k \in 1 .. m - 1 : front[k] = items[k]
        /\ Last(items) = items[m]
      BY <1>1, <1>2, <1>3 DEF Front, Last
  <1>5. InOrder(log, front)
      BY <1>1, <1>2, <1>4 DEF InOrder
  <1>6. GraphEnvelopes(log, front, m - 1) = GraphEnvelopes(log, items, m - 1)
    <2>1. {l \in 1 .. m - 1 : OfGraph(log, front[l])} = {l \in 1 .. m - 1 : OfGraph(log, items[l])}
        BY <1>4
    <2> QED BY <1>4, <2>1 DEF GraphEnvelopes
  <1>7. PICK view : view = ViewOf(log, front)
      OBVIOUS
  <1>8. Shows(view, GraphEnvelopes(log, items, m - 1))
      BY <1>4, <1>5, <1>6, <1>7, ViewShows
  <1>9. PICK next : next = Reduce(view, Envelope(log, items[m]))
      OBVIOUS
  <1>10. Shows(next, GraphEnvelopes(log, items, m))
      BY <1>1, <1>2, <1>8, <1>9, ItemShows
  <1>11. GraphEnvelopes(log, items, m - 1) \subseteq GraphEnvelopes(log, items, m)
      BY <1>2 DEF GraphEnvelopes
  <1>12. \A n \in Rows : IsTerminal(view.nodeStatuses[n]) => IsTerminal(next.nodeStatuses[n])
      BY <1>8, <1>10, <1>11, RowStaysSettled DEF Shows
  <1> QED BY <1>3, <1>4, <1>7, <1>9, <1>12

\* No row that a tab shows as finished starts again, whichever events came live
\* and whichever were replayed, for any number of tabs and any log of a run.
THEOREM RowsStaySettled == Spec => []SettledStays
  <1>1. Inv /\ ViewInv => SettledStays
    <2> SUFFICES ASSUME Inv, ViewInv, NEW s \in Sockets, received[s] # <<>>, NEW log \in Possible
                 PROVE  LET before == ViewOf(log, Front(received[s])).nodeStatuses
                            after  == Reduce(ViewOf(log, Front(received[s])),
                                             Envelope(log, Last(received[s]))).nodeStatuses
                        IN \A n \in Rows : IsTerminal(before[n]) => IsTerminal(after[n])
        BY DEF SettledStays
    <2>1. received[s] \in Seq(Items) /\ log \in Logs
        BY DEF Inv, Typed, Possible
    <2>2. InOrder(log, received[s])
        BY TabInOrder
    <2> QED BY <2>1, <2>2, LastKeepsSettled
  <1> QED BY <1>1, AlwaysViewInv, PTL

\* The diagram of two views of the same envelopes.
LEMMA SameDiagram ==
  ASSUME NEW envs, NEW a, NEW b, Shows(a, envs), Shows(b, envs), NEW mode
  PROVE  Drawn(a, mode) = Drawn(b, mode)
  <1>1. /\ a.nodeStatuses = b.nodeStatuses /\ a.isDone = b.isDone
        /\ a.validationAccepted = b.validationAccepted
      BY DEF Shows
  <1> QED BY <1>1 DEF Drawn, EffectiveStatuses

\* A tab that has every event of the log draws what a tab opened afterwards
\* draws, whatever mixture of replay and broadcast brought them.
THEOREM CaughtUpTabsAgree == Spec => []CaughtUpDrawsTheLog
  <1>1. Inv /\ ViewInv => CaughtUpDrawsTheLog
    <2> SUFFICES ASSUME Inv, ViewInv, NEW s \in Sockets, HasAll(s), NEW log \in Possible,
                        NEW mode \in {"pr", "repo"}
                 PROVE  Drawn(ViewOf(log, received[s]), mode)
                          = Drawn(ViewOf(log, [i \in 1 .. stored |-> Event(i)]), mode)
        BY DEF CaughtUpDrawsTheLog
    <2>1. PICK fresh : fresh = [i \in 1 .. stored |-> Event(i)]
        OBVIOUS
    <2>2. PICK items : items = received[s]
        OBVIOUS
    <2>3. PICK m : m = Len(items)
        OBVIOUS
    <2>4. PICK n : n = stored
        OBVIOUS
    <2>0. /\ n \in Nat /\ n <= MaxEvents /\ MaxEvents \in Nat /\ log \in Logs
          /\ 1 .. n \subseteq DOMAIN log
        BY <2>4, BoundsAssumption, LogsAssumption DEF Inv, Typed, ViewInv, Possible
    <2>5. /\ m \in Nat /\ DOMAIN items = 1 .. m
          /\ \A k \in 1 .. m : items[k] \in Items /\ InLog(items[k])
        BY <2>2, <2>3, ReceivedItems DEF Inv, LogInv
    <2>6. InOrder(log, items)
        BY <2>2, TabInOrder
    <2>7. Len(fresh) = n /\ \A i \in 1 .. n : fresh[i] = Event(i)
        BY <2>0, <2>1, <2>4
    <2>8. \A i : Event(i)[1] = "progress" /\ Event(i)[2] = i
        BY DEF Event
    <2>9. InOrder(log, fresh)
      <3>1. \A i \in 1 .. n : log[i].type = "progress" /\ log[i].status = "active" => i = 1
          BY <2>0, LogsAssumption
      <3> QED BY <2>0, <2>7, <2>8, <3>1 DEF InOrder, OfGraph, Lists
    <2>10. GraphEnvelopes(log, items, m) = GraphEnvelopes(log, fresh, n)
      <3>1. ASSUME NEW k \in 1 .. m, OfGraph(log, items[k])
            PROVE  \E i \in 1 .. n : i = items[k][2] /\ fresh[i] = items[k]
        <4>1. items[k][1] = "progress" /\ items[k] \in Items /\ InLog(items[k])
            BY <2>5, <3>1 DEF OfGraph
        <4>2. items[k] = Event(items[k][2]) /\ items[k][2] \in Nat
            BY <4>1, ItemFields
        <4>3. items[k][2] \in 1 .. n
            BY <2>0, <2>4, <4>1, <4>2 DEF InLog
        <4> QED BY <2>7, <4>2, <4>3
      <3>2. ASSUME NEW i \in 1 .. n
            PROVE  \E k \in 1 .. m : items[k] = fresh[i]
        <4>1. Caught(s, Event(i))
            BY <2>4 DEF HasAll
        <4> QED BY <2>2, <2>5, <2>7, <4>1 DEF Caught
      <3>3. GraphEnvelopes(log, items, m) \subseteq GraphEnvelopes(log, fresh, n)
        <4> SUFFICES ASSUME NEW k \in 1 .. m, OfGraph(log, items[k])
                     PROVE  \E i \in 1 .. n : OfGraph(log, fresh[i]) /\ log[items[k][2]] = log[fresh[i][2]]
            BY DEF GraphEnvelopes
        <4> QED BY <3>1
      <3>4. GraphEnvelopes(log, fresh, n) \subseteq GraphEnvelopes(log, items, m)
        <4> SUFFICES ASSUME NEW i \in 1 .. n, OfGraph(log, fresh[i])
                     PROVE  \E k \in 1 .. m : OfGraph(log, items[k]) /\ log[items[k][2]] = log[fresh[i][2]]
            BY DEF GraphEnvelopes
        <4> QED BY <3>2
      <3> QED BY <3>3, <3>4
    <2>11. PICK live : live = ViewOf(log, items)
        OBVIOUS
    <2>12. PICK afresh : afresh = ViewOf(log, fresh)
        OBVIOUS
    <2>13. Shows(live, GraphEnvelopes(log, items, m))
        BY <2>0, <2>3, <2>6, <2>11, ViewShows
    <2>14. Shows(afresh, GraphEnvelopes(log, items, m))
        BY <2>0, <2>7, <2>9, <2>10, <2>12, ViewShows
    <2>15. Drawn(live, mode) = Drawn(afresh, mode)
        BY <2>13, <2>14, SameDiagram
    <2> QED BY <2>1, <2>2, <2>11, <2>12, <2>15
  <1> QED BY <1>1, AlwaysViewInv, PTL
=============================================================================
