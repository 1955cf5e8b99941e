-------------------------- MODULE NativeEvents_proof --------------------------
(***************************************************************************)
(* Proofs about NativeEvents for every set of workers and of windows (an   *)
(* infinite one too), every capacity of the queues and any number of       *)
(* closings.                                                               *)
(***************************************************************************)
EXTENDS NativeEvents, SequenceTheorems, FiniteSetTheorems, TLAPS

CreateFates == {"back", "lost", "dropped", "answered", "unanswered", "registered"}
NativeFates == {"out", "back", "lost", "acted", "dropped"}

Fates == CreateFates \cup NativeFates
Event == [type : {"close", "destroy", "quit", "create"}, about : Windows \cup {NoWindow},
          by : Workers \cup {NoWorker}, sendCount : Nat, count : Nat,
          canceled : BOOLEAN, vetoed : BOOLEAN, fate : Fates,
          unheard : SUBSET Workers]

Types ==
    /\ status \in [Workers -> {"none", "live", "zombie", "freed"}]
    /\ parent \in [Workers -> Workers \cup {NoWorker}]
    /\ queue \in [Workers -> Seq(Nat)] /\ \A w \in Workers : Len(queue[w]) <= QueueSize
    /\ busy \in [Workers -> Nat]
    /\ heard \in [Workers -> SUBSET Ids]
    /\ events \in Seq(Event)
    /\ mainQueue \in Seq(Nat) /\ Len(mainQueue) <= QueueSize
    /\ window \in [Windows -> {"none", "asked", "open", "blank", "dying", "gone"}]
    /\ owner \in [Windows -> Workers \cup {NoWorker}]
    /\ quitPosted \in BOOLEAN
    /\ closes \in 0 .. MaxCloses

(* What the queues and the hands of the workers hold: an event at most once *)
(* in all, the answer to a Window.create() for whoever asked.               *)
QueuesSound ==
    \A w \in Workers :
        /\ \A k \in DOMAIN queue[w] :
              /\ queue[w][k] \in Ids /\ queue[w][k] # busy[w]
              /\ events[queue[w][k]].type = "create" =>
                    events[queue[w][k]].fate = "answered" /\ events[queue[w][k]].by = w
        /\ \A k, l \in DOMAIN queue[w] : queue[w][k] = queue[w][l] => k = l
        /\ busy[w] # 0 => w \in Live /\ busy[w] \in Ids /\ events[busy[w]].type # "create"
        /\ status[w] = "none" => queue[w] = <<>>

(* What the main thread has in its queue has come back, once.               *)
MainQueueSound ==
    /\ \A k \in DOMAIN mainQueue : mainQueue[k] \in Ids /\ events[mainQueue[k]].fate = "back"
    /\ \A k, l \in DOMAIN mainQueue : mainQueue[k] = mainQueue[l] => k = l

(* Whom the counting of an event still waits for. *)
Holders(e) == {w \in Live : InHand(w, e)}

(* The workers an event was sent to have counted it, have it in hand, or    *)
(* will never hear of it.                                                   *)
Counted(e) ==
    /\ IsFiniteSet(events[e].unheard)
    /\ events[e].count + Cardinality(Holders(e)) + Cardinality(events[e].unheard)
          = events[e].sendCount
    /\ events[e].fate # "out" => events[e].count = events[e].sendCount
    /\ events[e].fate \in NativeFates

Counts == /\ IsFiniteSet(Listed)
          /\ \A e \in Ids : events[e].type # "create" => Counted(e)

(* A vetoed event stays canceled, and the main thread looks.                *)
Vetoes == \A e \in Ids : events[e].vetoed => events[e].canceled /\ events[e].fate # "acted"

(* An event is about a window that has got as far as the event says.        *)
WindowsSound ==
    \A e \in Ids :
        /\ events[e].type # "quit" => events[e].about \in Windows
        /\ events[e].type = "quit" => events[e].about = NoWindow
        /\ events[e].type = "destroy" => window[events[e].about] \in {"dying", "gone"}

(* The one event of each Window.create(), and where it is.                  *)
CreateSound(c) ==
    /\ events[c].by \in Workers /\ status[events[c].by] # "none"
    /\ events[c].fate \in CreateFates
    /\ window[events[c].about] # "none"
    /\ events[c].fate \in {"back", "lost", "dropped"} => window[events[c].about] = "asked"
    /\ (events[c].fate = "answered" /\ events[c].by \in Live) =>
          \E k \in DOMAIN queue[events[c].by] : queue[events[c].by][k] = c
    /\ events[c].fate = "registered" => owner[events[c].about] = events[c].by

Creates ==
    /\ \A c \in Ids : events[c].type = "create" => CreateSound(c)
    /\ \A c, d \in Ids :
          (events[c].type = "create" /\ events[d].type = "create"
             /\ events[c].about = events[d].about) => c = d

(* A worker that hears of the destruction of a window hears of it last.     *)
LastAbout(w, d) ==
    \A k \in DOMAIN queue[w] :
        events[queue[w][k]].about = events[d].about =>
            \E l \in DOMAIN queue[w] : k <= l /\ queue[w][l] = d

DestroyLast == \A d \in Ids : events[d].type = "destroy" =>
                   \A w \in Live \ events[d].unheard : LastAbout(w, d)

(* A worker has the answer to its Window.create() before any closing of     *)
(* the window.                                                              *)
AnsweredFirst(w, c) ==
    \A k \in DOMAIN queue[w] :
        (events[queue[w][k]].type = "close" /\ events[queue[w][k]].about = events[c].about) =>
            \/ owner[events[c].about] = w
            \/ \E l \in DOMAIN queue[w] : l < k /\ queue[w][l] = c

AskedFirst == \A c \in Ids :
    (events[c].type = "create" /\ events[c].by \in Live /\ events[c].fate # "unanswered") =>
        AnsweredFirst(events[c].by, c)

(* The windows that the queues of the living speak of are in the map.       *)
AllKnown == \A w \in Live : \A k \in DOMAIN queue[w] :
                events[queue[w][k]].type # "quit" => events[queue[w][k]].about \in Known

(* Who sleeps exists.                                                       *)
Modes == asleep \subseteq Live /\ mpc \in {"loop", "waits", "over"}

IInv == /\ Types /\ Modes /\ QueuesSound /\ MainQueueSound /\ Counts /\ Vetoes /\ WindowsSound
        /\ Creates /\ DestroyLast /\ AskedFirst /\ AllKnown

-----------------------------------------------------------------------------
(* Facts about sequences.                                                   *)
LEMMA AppendTo ==
    ASSUME NEW S, NEW q \in Seq(S), NEW x \in S
    PROVE  /\ Append(q, x) \in Seq(S) /\ Len(Append(q, x)) = Len(q) + 1
           /\ DOMAIN Append(q, x) = DOMAIN q \cup {Len(q) + 1} /\ Len(q) + 1 \notin DOMAIN q
           /\ \A k \in DOMAIN q : Append(q, x)[k] = q[k]
           /\ Append(q, x)[Len(q) + 1] = x
           /\ DOMAIN q = 1 .. Len(q) /\ Len(q) \in Nat
OBVIOUS

LEMMA TailOf ==
    ASSUME NEW S, NEW q \in Seq(S), q # <<>>
    PROVE  /\ Tail(q) \in Seq(S) /\ Len(Tail(q)) = Len(q) - 1
           /\ \A k \in DOMAIN Tail(q) :
                 k \in Nat \ {0} /\ k + 1 \in DOMAIN q /\ Tail(q)[k] = q[k + 1]
           /\ \A k \in DOMAIN q : k # 1 => k - 1 \in DOMAIN Tail(q) /\ Tail(q)[k - 1] = q[k]
           /\ 1 \in DOMAIN q /\ Head(q) = q[1]
           /\ DOMAIN q = 1 .. Len(q) /\ Len(q) \in Nat \ {0}
OBVIOUS

LEMMA ReplaceIn ==
    ASSUME NEW S, NEW q \in Seq(S), NEW i \in DOMAIN q, NEW x \in S
    PROVE  /\ [q EXCEPT ![i] = x] \in Seq(S) /\ Len([q EXCEPT ![i] = x]) = Len(q)
           /\ \A k \in DOMAIN q : [q EXCEPT ![i] = x][k] = IF k = i THEN x ELSE q[k]
OBVIOUS
-----------------------------------------------------------------------------
(* What a step may do to the events there are.  None changes what one is    *)
(* about, or to whom it was sent.                                           *)
Kept == /\ events' \in Seq(Event) /\ Len(events) \in Nat /\ Ids \subseteq Ids'
        /\ \A x \in Ids : /\ events'[x].type = events[x].type
                          /\ events'[x].about = events[x].about
                          /\ events'[x].by = events[x].by
                          /\ events'[x].sendCount = events[x].sendCount
                          /\ events'[x].unheard = events[x].unheard

SameCounts == \A x \in Ids : events'[x].count = events[x].count
SameFates(S) == \A x \in S : events'[x].fate = events[x].fate
SameMarks(S) == \A x \in S : /\ events'[x].canceled = events[x].canceled
                             /\ events'[x].vetoed = events[x].vetoed

LEMMA EventFacts ==
    ASSUME Types, NEW x \in Ids
    PROVE  /\ events[x] \in Event /\ x \in Nat \ {0} /\ x <= Len(events) /\ x \in DOMAIN events
           /\ events[x].type \in {"close", "destroy", "quit", "create"}
           /\ events[x].about \in Windows \cup {NoWindow}
           /\ events[x].by \in Workers \cup {NoWorker}
           /\ events[x].sendCount \in Nat /\ events[x].count \in Nat
           /\ events[x].canceled \in BOOLEAN /\ events[x].vetoed \in BOOLEAN
           /\ events[x].fate \in Fates
           /\ events[x].unheard \in SUBSET Workers
           /\ Ids = 1 .. Len(events) /\ Len(events) \in Nat
<1>1. Ids = 1 .. Len(events) /\ Len(events) \in Nat /\ events[x] \in Event
  BY DEF Types, Ids
<1> QED BY <1>1 DEF Event, Types

LEMMA NewEventType ==
    ASSUME NEW type \in {"close", "destroy", "quit", "create"}, NEW v \in Windows \cup {NoWindow},
           NEW w \in Workers \cup {NoWorker}
    PROVE  NewEvent(type, v, w) \in Event
BY DEF NewEvent, Event, Fates, NativeFates

LEMMA NoEventZero == ASSUME Types PROVE 0 \notin Ids /\ Len(events) \in Nat
BY DEF Types, Ids

LEMMA SettledIs ==
    ASSUME Types, NEW e \in Ids, NEW f \in Fates
    PROVE  /\ Settled(e, f) \in Seq(Event) /\ Len(Settled(e, f)) = Len(events)
           /\ \A x \in Ids : /\ Settled(e, f)[x].type = events[x].type
                             /\ Settled(e, f)[x].about = events[x].about
                             /\ Settled(e, f)[x].by = events[x].by
                             /\ Settled(e, f)[x].sendCount = events[x].sendCount
                             /\ Settled(e, f)[x].unheard = events[x].unheard
                             /\ Settled(e, f)[x].count = events[x].count
                             /\ Settled(e, f)[x].canceled = events[x].canceled
                             /\ Settled(e, f)[x].vetoed = events[x].vetoed
                             /\ Settled(e, f)[x].fate = IF x = e THEN f ELSE events[x].fate
<1> DEFINE r == [events[e] EXCEPT !.fate = f]
<1>1. e \in DOMAIN events /\ events[e] \in Event
  BY EventFacts
<1>2. r \in Event
  BY <1>1 DEF Event
<1>3. /\ r.type = events[e].type /\ r.about = events[e].about /\ r.by = events[e].by
      /\ r.sendCount = events[e].sendCount /\ r.unheard = events[e].unheard
      /\ r.count = events[e].count /\ r.canceled = events[e].canceled
      /\ r.vetoed = events[e].vetoed /\ r.fate = f
  BY <1>1 DEF Event
<1>4. Settled(e, f) = [events EXCEPT ![e] = r]
  BY DEF Settled
<1> HIDE DEF r
<1>5. events \in Seq(Event) /\ DOMAIN events = Ids /\ Len(events) \in Nat
  BY DEF Types, Ids
<1>6. /\ Settled(e, f) \in Seq(Event) /\ Len(Settled(e, f)) = Len(events)
      /\ \A k \in Ids : Settled(e, f)[k] = IF k = e THEN r ELSE events[k]
  BY <1>1, <1>2, <1>4, <1>5, ReplaceIn
<1> QED BY <1>3, <1>6

LEMMA SettleFacts ==
    ASSUME Types, NEW e \in Ids, NEW f \in Fates, events' = Settled(e, f)
    PROVE  /\ Kept /\ SameCounts /\ SameMarks(Ids) /\ SameFates(Ids \ {e}) /\ Ids' = Ids
           /\ events'[e].fate = f
<1>1. Len(events) \in Nat /\ Ids' = Ids
  BY SettledIs DEF Types, Ids
<1> QED BY <1>1, SettledIs DEF Kept, SameCounts, SameMarks, SameFates

LEMMA LiveFacts ==
    /\ Live \subseteq Listed /\ Listed \subseteq Workers
    /\ \A w \in Workers : w \in Live <=> status[w] = "live"
    /\ \A w \in Workers : w \in Listed <=> status[w] \in {"live", "zombie"}
BY DEF Live, Listed

(* What emitEvent does, and to which queues it adds an event.               *)
Got(w) == queue'[w] # queue[w]
Sent(n, type, v) ==
    /\ n = Len(events) + 1 /\ Ids' = Ids \cup {n} /\ n \notin Ids /\ n \in Nat \ {0}
    /\ events'[n].type = type /\ events'[n].about = v /\ events'[n].fate = "out"
    /\ ~ events'[n].canceled /\ ~ events'[n].vetoed /\ events'[n].count = 0
    /\ events'[n].sendCount = Cardinality(Listed)
    /\ events'[n].unheard = {w \in Listed : ~ Got(w) \/ w \notin Live}
    /\ queue' \in [Workers -> Seq(Nat)] /\ \A w \in Workers : Len(queue'[w]) <= QueueSize
    /\ \A w \in Workers : /\ Got(w) => w \in Listed
                          /\ queue'[w] = IF Got(w) THEN Append(queue[w], n) ELSE queue[w]

LEMMA EmitFacts ==
    ASSUME Types, IsFiniteSet(Listed), NEW evs \in Seq(Event), Len(evs) = Len(events),
           NEW type \in {"close", "destroy", "quit"}, NEW v \in Windows \cup {NoWindow},
           Emit(evs, type, v)
    PROVE  /\ Sent(Len(events) + 1, type, v)
           /\ events' \in Seq(Event) /\ \A x \in Ids : events'[x] = evs[x]
<1> DEFINE n == Len(events) + 1
           u == {w \in Listed : ~ Got(w) \/ w \notin Live}
           r == [NewEvent(type, v, NoWorker) EXCEPT !.sendCount = Cardinality(Listed),
                                                    !.unheard = u]
<1>1. PICK sent \in SUBSET Listed :
         /\ \A w \in Listed : Takes(queue[w], w, w \in sent)
         /\ events' = Append(evs,
                [NewEvent(type, v, NoWorker) EXCEPT
                     !.sendCount = Cardinality(Listed),
                     !.unheard = {w \in Listed : w \notin sent \cap Live}])
         /\ queue' = [w \in Workers |->
                         IF w \in sent THEN Append(queue[w], Len(evs) + 1) ELSE queue[w]]
  BY Zenon DEF Emit
<1>2. \A w \in sent : w \in Listed /\ w \in Workers /\ Room(queue[w])
  BY <1>1 DEF Takes, Listed
<1>3. Len(events) \in Nat /\ Len(evs) = Len(events) /\ QueueSize \in Nat
  BY BoundsAssumption DEF Types
<1>3a. \A w \in Workers : /\ Got(w) <=> w \in sent
                          /\ queue'[w] = IF w \in sent THEN Append(queue[w], n) ELSE queue[w]
  <2> SUFFICES ASSUME NEW w \in Workers
               PROVE  /\ Got(w) <=> w \in sent
                      /\ queue'[w] = IF w \in sent THEN Append(queue[w], n) ELSE queue[w]
    OBVIOUS
  <2>1. queue'[w] = IF w \in sent THEN Append(queue[w], n) ELSE queue[w]
    BY <1>1, <1>3
  <2>2. queue[w] \in Seq(Nat) /\ n \in Nat
    BY <1>3 DEF Types
  <2>3. Len(Append(queue[w], n)) # Len(queue[w])
    BY <2>2, AppendTo
  <2> QED BY <2>1, <2>3 DEF Got
<1>3b. {w \in Listed : w \notin sent \cap Live} = u
  BY <1>3a, LiveFacts
<1>3c. events' = Append(evs, r)
  BY <1>1, <1>3b
<1>4. Cardinality(Listed) \in Nat /\ u \in SUBSET Workers
  BY FS_CardinalityType DEF Listed
<1>5. NewEvent(type, v, NoWorker) \in Event
  BY NewEventType
<1>6. r \in Event /\ r.type = type /\ r.about = v /\ r.fate = "out" /\ ~ r.canceled /\ ~ r.vetoed
      /\ r.count = 0 /\ r.sendCount = Cardinality(Listed) /\ r.unheard = u
  <2> HIDE DEF u
  <2>1. r \in Event /\ r.sendCount = Cardinality(Listed) /\ r.unheard = u
    BY <1>4, <1>5 DEF Event
  <2>2. r.type = type /\ r.about = v /\ r.fate = "out" /\ ~ r.canceled /\ ~ r.vetoed
        /\ r.count = 0
    BY DEF NewEvent
  <2> QED BY <2>1, <2>2
<1> HIDE DEF r, u
<1>7. /\ events' \in Seq(Event) /\ Len(events') = n /\ events'[n] = r
      /\ \A x \in Ids : events'[x] = evs[x]
  BY <1>3, <1>3c, <1>6, AppendTo DEF Ids
<1>8. Ids' = Ids \cup {n} /\ n \notin Ids /\ n \in Nat \ {0}
  BY <1>3, <1>7 DEF Ids
<1>9. \A w \in Workers : /\ queue[w] \in Seq(Nat) /\ Len(queue[w]) <= QueueSize
                         /\ Append(queue[w], n) \in Seq(Nat)
                         /\ Room(queue[w]) => Len(Append(queue[w], n)) <= QueueSize
  BY <1>3 DEF Types, Room
<1>10. \A w \in Workers : /\ Got(w) => w \in Listed
                          /\ queue'[w] = IF Got(w) THEN Append(queue[w], n) ELSE queue[w]
  BY <1>2, <1>3a
<1>11. queue' \in [Workers -> Seq(Nat)] /\ \A w \in Workers : Len(queue'[w]) <= QueueSize
  BY <1>1, <1>2, <1>3a, <1>9
<1> HIDE DEF n
<1>12. u = {w \in Listed : ~ Got(w) \/ w \notin Live}
  BY DEF u
<1>13. n = Len(events) + 1
  BY DEF n
<1>14. Sent(n, type, v)
  BY <1>6, <1>7, <1>8, <1>10, <1>11, <1>12, <1>13 DEF Sent
<1> QED BY <1>7, <1>13, <1>14

LEMMA EmitPlain ==
    ASSUME Types, IsFiniteSet(Listed), NEW type \in {"close", "destroy", "quit"},
           NEW v \in Windows \cup {NoWindow}, Emit(events, type, v)
    PROVE  /\ Sent(Len(events) + 1, type, v)
           /\ Kept /\ SameCounts /\ SameMarks(Ids) /\ SameFates(Ids)
<1>1. events \in Seq(Event) /\ Len(events) \in Nat
  BY DEF Types
<1>2. /\ Sent(Len(events) + 1, type, v)
      /\ events' \in Seq(Event) /\ \A x \in Ids : events'[x] = events[x]
  BY <1>1, EmitFacts
<1>3. Ids \subseteq Ids'
  BY <1>2 DEF Sent
<1> QED BY <1>1, <1>2, <1>3 DEF Kept, SameCounts, SameMarks, SameFates

LEMMA EmitAfter ==
    ASSUME Types, IsFiniteSet(Listed), NEW type \in {"close", "destroy", "quit"},
           NEW v \in Windows \cup {NoWindow}, NEW e \in Ids, NEW f \in Fates,
           Emit(Settled(e, f), type, v)
    PROVE  /\ Sent(Len(events) + 1, type, v)
           /\ Kept /\ SameCounts /\ SameMarks(Ids) /\ SameFates(Ids \ {e})
           /\ events'[e].fate = f
<1>1. Len(events) \in Nat
  BY DEF Types
<1>2. /\ Sent(Len(events) + 1, type, v)
      /\ events' \in Seq(Event) /\ \A x \in Ids : events'[x] = Settled(e, f)[x]
  BY SettledIs, EmitFacts
<1>3. Ids \subseteq Ids'
  BY <1>2 DEF Sent
<1>4. /\ Kept /\ SameCounts /\ SameMarks(Ids)
  BY <1>1, <1>2, <1>3, SettledIs DEF Kept, SameCounts, SameMarks
<1>5. SameFates(Ids \ {e}) /\ events'[e].fate = f
  BY <1>2, SettledIs DEF SameFates
<1> QED BY <1>2, <1>4, <1>5

-----------------------------------------------------------------------------
(* Sending an event, and what the main thread does to the one it has taken, *)
(* part of the invariant by part.                                           *)
FatesGoOn == \A x \in Ids :
    \/ events'[x].fate = events[x].fate
    \/ /\ events[x].fate = "back" /\ events'[x].fate \in {"acted", "dropped"}
       /\ events'[x].fate = "acted" => ~ events[x].canceled /\ events[x].type # "create"

WindowsGoOn == \A u \in Windows :
    \/ window'[u] = window[u]
    \/ window[u] = "none" /\ window'[u] \in {"asked", "open", "blank"}
    \/ window[u] = "open" /\ window'[u] = "dying"
    \/ window[u] \in {"dying", "gone"} /\ window'[u] = "gone"

LEMMA SentQueues ==
    ASSUME Types, QueuesSound, NEW n, NEW type, NEW v, Sent(n, type, v), type # "create",
           Kept, FatesGoOn, UNCHANGED <<status, busy>>
    PROVE  QueuesSound'
<1> SUFFICES ASSUME NEW w \in Workers
             PROVE  /\ \A k \in DOMAIN queue'[w] :
                          /\ queue'[w][k] \in Ids' /\ queue'[w][k] # busy'[w]
                          /\ events'[queue'[w][k]].type = "create" =>
                                /\ events'[queue'[w][k]].fate = "answered"
                                /\ events'[queue'[w][k]].by = w
                    /\ \A k, l \in DOMAIN queue'[w] : queue'[w][k] = queue'[w][l] => k = l
                    /\ busy'[w] # 0 => /\ w \in Live' /\ busy'[w] \in Ids'
                                       /\ events'[busy'[w]].type # "create"
                    /\ status'[w] = "none" => queue'[w] = <<>>
  BY DEF QueuesSound
<1>1. PICK q : q = queue[w]
  OBVIOUS
<1>2. /\ \A k \in DOMAIN q : /\ q[k] \in Ids /\ q[k] # busy[w]
                             /\ events[q[k]].type = "create" =>
                                   events[q[k]].fate = "answered" /\ events[q[k]].by = w
      /\ \A k, l \in DOMAIN q : q[k] = q[l] => k = l
      /\ busy[w] # 0 => w \in Live /\ busy[w] \in Ids /\ events[busy[w]].type # "create"
      /\ status[w] = "none" => q = <<>>
  BY <1>1 DEF QueuesSound
<1>3. /\ Ids' = Ids \cup {n} /\ n \notin Ids /\ n \in Nat \ {0} /\ events'[n].type # "create"
      /\ queue'[w] = IF Got(w) THEN Append(q, n) ELSE q
      /\ Got(w) => w \in Listed
  BY <1>1 DEF Sent
<1>4. /\ \A x \in Ids : /\ events'[x].type = events[x].type /\ events'[x].by = events[x].by
                        /\ events[x].fate = "answered" => events'[x].fate = "answered"
  BY DEF Kept, FatesGoOn
<1>5. Live' = Live
  BY DEF Live
<1>6. CASE ~ Got(w)
  BY <1>2, <1>3, <1>4, <1>5, <1>6
<1>7. CASE Got(w)
  <2>1. q \in Seq(Nat)
    BY <1>1 DEF Types
  <2>2. /\ DOMAIN queue'[w] = DOMAIN q \cup {Len(q) + 1} /\ Len(q) + 1 \notin DOMAIN q
        /\ \A k \in DOMAIN q : queue'[w][k] = q[k]
        /\ queue'[w][Len(q) + 1] = n
    BY <1>3, <1>7, <2>1, AppendTo
  <2>3. busy'[w] # n
    BY <1>2, <1>3
  <2>4. status'[w] # "none"
    BY <1>3, <1>7, LiveFacts
  <2>5. \A k \in DOMAIN queue'[w] :
            /\ queue'[w][k] \in Ids' /\ queue'[w][k] # busy'[w]
            /\ events'[queue'[w][k]].type = "create" =>
                  events'[queue'[w][k]].fate = "answered" /\ events'[queue'[w][k]].by = w
    BY <1>2, <1>3, <1>4, <2>2, <2>3
  <2>6. \A k, l \in DOMAIN queue'[w] : queue'[w][k] = queue'[w][l] => k = l
    BY <1>2, <1>3, <2>2
  <2>7. busy'[w] # 0 => w \in Live' /\ busy'[w] \in Ids' /\ events'[busy'[w]].type # "create"
    BY <1>2, <1>3, <1>4, <1>5
  <2> QED BY <2>4, <2>5, <2>6, <2>7
<1> QED BY <1>6, <1>7

(* Whom an event is in the hands of.                                        *)
LEMMA HandFacts ==
    ASSUME NEW w, NEW x
    PROVE  InHand(w, x) <=> (busy[w] = x \/ \E k \in DOMAIN queue[w] : queue[w][k] = x)
BY DEF InHand, Range

LEMMA SentHolders ==
    ASSUME Types, QueuesSound, NEW n, NEW type, NEW v, Sent(n, type, v),
           UNCHANGED <<status, busy>>
    PROVE  /\ \A x \in Ids : Holders(x)' = Holders(x)
           /\ Holders(n)' = {w \in Live : Got(w)}
<1>1. Live' = Live /\ Live \subseteq Workers /\ Live \subseteq Listed
  BY LiveFacts DEF Live
<1>2. ASSUME NEW w \in Live, NEW x \in Ids'
      PROVE  InHand(w, x)' <=> IF x = n THEN Got(w) ELSE InHand(w, x)
  <2>1. PICK q : q = queue[w]
    OBVIOUS
  <2>2. q \in Seq(Nat) /\ w \in Workers
    BY <1>1, <2>1 DEF Types
  <2>3. /\ queue'[w] = IF Got(w) THEN Append(q, n) ELSE q
        /\ n \notin Ids /\ n # 0 /\ Ids' = Ids \cup {n} /\ n \in Nat
    BY <1>1, <2>1, <2>2 DEF Sent
  <2>4. InHand(w, x) <=> (busy[w] = x \/ \E k \in DOMAIN q : q[k] = x)
    BY <2>1, HandFacts
  <2>5. InHand(w, x)' <=> (busy[w] = x \/ \E k \in DOMAIN queue'[w] : queue'[w][k] = x)
    BY HandFacts DEF InHand, Range
  <2>6. busy[w] # n /\ \A k \in DOMAIN q : q[k] # n
    BY <2>1, <2>2, <2>3 DEF QueuesSound
  <2>7. CASE ~ Got(w)
    BY <2>1, <2>3, <2>4, <2>5, <2>6, <2>7
  <2>8. CASE Got(w)
    <3>1. /\ DOMAIN queue'[w] = DOMAIN q \cup {Len(q) + 1}
          /\ \A k \in DOMAIN q : queue'[w][k] = q[k]
          /\ queue'[w][Len(q) + 1] = n
      BY <2>2, <2>3, <2>8, AppendTo
    <3> QED BY <2>1, <2>4, <2>5, <2>6, <2>8, <3>1
  <2> QED BY <2>7, <2>8
<1>3. n \in Ids' /\ n \notin Ids /\ Ids \subseteq Ids'
  BY DEF Sent
<1>4. ASSUME NEW x \in Ids'
      PROVE  Holders(x)' = {w \in Live : IF x = n THEN Got(w) ELSE InHand(w, x)}
  <2>1. Holders(x)' = {w \in Live : InHand(w, x)'}
    BY <1>1 DEF Holders
  <2> QED BY <1>2, <2>1
<1> QED BY <1>3, <1>4 DEF Holders

LEMMA HoldersFinite ==
    ASSUME IsFiniteSet(Listed)
    PROVE  /\ IsFiniteSet(Live)
           /\ \A x : IsFiniteSet(Holders(x)) /\ Cardinality(Holders(x)) \in Nat
<1>1. IsFiniteSet(Live)
  BY FS_Subset, LiveFacts
<1>2. \A x : Holders(x) \subseteq Live
  BY DEF Holders
<1> QED BY <1>1, <1>2, FS_Subset, FS_CardinalityType

LEMMA SentCounts ==
    ASSUME Types, QueuesSound, Counts, NEW n, NEW type, NEW v, Sent(n, type, v),
           Kept, SameCounts, FatesGoOn, UNCHANGED <<status, busy>>
    PROVE  Counts'
<1>1. IsFiniteSet(Listed)
  BY DEF Counts
<1>2. Listed' = Listed
  BY DEF Listed
<1>3. ASSUME NEW e \in Ids, events[e].type # "create"
      PROVE  Counted(e)'
  <2>1. Counted(e)
    BY <1>3 DEF Counts
  <2>2. /\ events'[e].count = events[e].count /\ events'[e].sendCount = events[e].sendCount
        /\ events'[e].unheard = events[e].unheard
    BY DEF Kept, SameCounts
  <2>3. Holders(e)' = Holders(e)
    BY SentHolders
  <2>4. /\ events'[e].fate # "out" => events[e].fate # "out"
        /\ events'[e].fate \in NativeFates
    BY <2>1 DEF Counted, FatesGoOn, NativeFates
  <2> QED BY <2>1, <2>2, <2>3, <2>4 DEF Counted
<1>4. Counted(n)'
  <2> DEFINE H == {w \in Live : Got(w)}
             U == {w \in Listed : ~ Got(w) \/ w \notin Live}
  <2>1. Holders(n)' = H
    BY SentHolders
  <2>2. /\ events'[n].count = 0 /\ events'[n].sendCount = Cardinality(Listed)
        /\ events'[n].unheard = U /\ events'[n].fate = "out"
    BY DEF Sent
  <2>3. H \cap U = {} /\ H \cup U = Listed /\ H \subseteq Listed /\ U \subseteq Listed
    BY LiveFacts
  <2>4. IsFiniteSet(H) /\ IsFiniteSet(U)
    BY <1>1, <2>3, FS_Subset
  <2>5. Cardinality(Listed) = Cardinality(H) + Cardinality(U) - Cardinality(H \cap U)
    BY <2>3, <2>4, FS_Union
  <2>6. Cardinality(H \cap U) = 0
    BY <2>3, FS_EmptySet
  <2>7. Cardinality(H) \in Nat /\ Cardinality(U) \in Nat
    BY <2>4, FS_CardinalityType
  <2>8. 0 + Cardinality(H) + Cardinality(U) = Cardinality(Listed)
    BY <2>5, <2>6, <2>7
  <2> HIDE DEF H, U
  <2> QED BY <2>1, <2>2, <2>4, <2>8 DEF Counted, NativeFates
<1>5. \A e \in Ids' : e = n \/ (e \in Ids /\ events'[e].type = events[e].type)
  BY DEF Sent, Kept
<1> QED BY <1>1, <1>2, <1>3, <1>4, <1>5 DEF Counts


LEMMA SentVetoes ==
    ASSUME Vetoes, NEW n, NEW type, NEW v, Sent(n, type, v), Kept, SameMarks(Ids), FatesGoOn
    PROVE  Vetoes'
BY DEF Vetoes, Sent, SameMarks, FatesGoOn

LEMMA SentWindows ==
    ASSUME WindowsSound, NEW n, NEW type, NEW v, Sent(n, type, v), Kept, WindowsGoOn,
           (type = "quit" /\ v = NoWindow) \/ (type \in {"close", "destroy"} /\ v \in Windows),
           type = "destroy" => window'[v] = "dying"
    PROVE  WindowsSound'
<1>1. ASSUME NEW x \in Ids
      PROVE  /\ events'[x].type = events[x].type /\ events'[x].about = events[x].about
             /\ events[x].type # "quit" => events[x].about \in Windows
             /\ events[x].type = "quit" => events[x].about = NoWindow
             /\ events[x].type = "destroy" => window[events[x].about] \in {"dying", "gone"}
  BY DEF WindowsSound, Kept
<1>2. ASSUME NEW u \in Windows, window[u] \in {"dying", "gone"}
      PROVE  window'[u] \in {"dying", "gone"}
  BY <1>2 DEF WindowsGoOn
<1>3. Ids' = Ids \cup {n} /\ events'[n].type = type /\ events'[n].about = v
  BY DEF Sent
<1> QED BY <1>1, <1>2, <1>3 DEF WindowsSound

LEMMA SentCreates ==
    ASSUME Types, Creates, WindowsSound, NEW n, NEW type, NEW v, Sent(n, type, v),
           type # "create", Kept, FatesGoOn, WindowsGoOn, UNCHANGED <<status, owner>>
    PROVE  Creates'
<1>1. Ids' = Ids \cup {n} /\ events'[n].type # "create"
  BY DEF Sent
<1>2. \A x \in Ids : /\ events'[x].type = events[x].type /\ events'[x].about = events[x].about
                     /\ events'[x].by = events[x].by
  BY DEF Kept
<1>3. ASSUME NEW c \in Ids, events[c].type = "create"
      PROVE  CreateSound(c)'
  <2>1. CreateSound(c) /\ events[c].about \in Windows
    BY <1>3 DEF Creates, WindowsSound
  <2>2. \/ events[c].fate = events'[c].fate
        \/ events[c].fate = "back" /\ events'[c].fate = "dropped"
    BY <1>3 DEF FatesGoOn
  <2>3. /\ window[events[c].about] # "none" => window'[events[c].about] # "none"
        /\ window[events[c].about] = "asked" => window'[events[c].about] = "asked"
    BY <2>1 DEF WindowsGoOn
  <2>4. Live' = Live
    BY DEF Live
  <2>5. ASSUME events[c].by \in Live, NEW k \in DOMAIN queue[events[c].by],
               queue[events[c].by][k] = c
        PROVE  k \in DOMAIN queue'[events[c].by] /\ queue'[events[c].by][k] = c
    <3>1. PICK q : q = queue[events[c].by]
      OBVIOUS
    <3>2. q \in Seq(Nat) /\ events[c].by \in Workers
      BY <3>1, <2>5, LiveFacts DEF Types
    <3>3. n \in Nat
      BY DEF Sent
    <3>4. queue'[events[c].by] = q \/ queue'[events[c].by] = Append(q, n)
      BY <3>1, <3>2 DEF Sent
    <3>5. /\ DOMAIN Append(q, n) = DOMAIN q \cup {Len(q) + 1}
          /\ \A j \in DOMAIN q : Append(q, n)[j] = q[j]
      BY <3>2, <3>3, AppendTo
    <3> QED BY <2>5, <3>1, <3>4, <3>5
  <2>6. (events'[c].fate = "answered" /\ events'[c].by \in Live') =>
            \E k \in DOMAIN queue'[events'[c].by] : queue'[events'[c].by][k] = c
    BY <1>2, <2>1, <2>2, <2>4, <2>5 DEF CreateSound
  <2> QED BY <1>2, <2>1, <2>2, <2>3, <2>6 DEF CreateSound, CreateFates
<1> QED BY <1>1, <1>2, <1>3 DEF Creates

LEMMA SentLast ==
    ASSUME Types, QueuesSound, DestroyLast, NEW n, NEW type, NEW v, Sent(n, type, v), Kept,
           \A d \in Ids : events[d].type = "destroy" => events[d].about # v,
           UNCHANGED status
    PROVE  DestroyLast'
<1>1. /\ Ids' = Ids \cup {n} /\ n \notin Ids /\ n \in Nat
      /\ events'[n].about = v
      /\ events'[n].unheard = {w \in Listed : ~ Got(w) \/ w \notin Live}
  BY DEF Sent
<1>2. \A x \in Ids : /\ events'[x].type = events[x].type /\ events'[x].about = events[x].about
                     /\ events'[x].unheard = events[x].unheard
  BY DEF Kept
<1>3. Live' = Live /\ Live \subseteq Listed /\ Live \subseteq Workers
  BY LiveFacts DEF Live
<1>4. ASSUME NEW d \in Ids', events'[d].type = "destroy", NEW w \in Live \ events'[d].unheard
      PROVE  LastAbout(w, d)'
  <2>1. PICK q : q = queue[w]
    OBVIOUS
  <2>2. q \in Seq(Nat) /\ w \in Listed /\ w \in Workers /\ \A k \in DOMAIN q : q[k] \in Ids
    BY <1>3, <2>1 DEF Types, QueuesSound
  <2>3. queue'[w] = IF Got(w) THEN Append(q, n) ELSE q
    BY <2>1, <2>2 DEF Sent
  <2>4. /\ DOMAIN Append(q, n) = DOMAIN q \cup {Len(q) + 1}
        /\ \A k \in DOMAIN q : Append(q, n)[k] = q[k]
        /\ Append(q, n)[Len(q) + 1] = n
        /\ DOMAIN q = 1 .. Len(q) /\ Len(q) \in Nat
    BY <1>1, <2>2, AppendTo
  <2>5. CASE d \in Ids
    <3>1. /\ events[d].about # v
          /\ \A k \in DOMAIN q : events[q[k]].about = events[d].about =>
                \E l \in DOMAIN q : k <= l /\ q[l] = d
      BY <1>2, <1>4, <2>1, <2>5 DEF DestroyLast, LastAbout
    <3>2. \A k \in DOMAIN queue'[w] : events'[queue'[w][k]].about = events'[d].about =>
              k \in DOMAIN q /\ queue'[w][k] = q[k] /\ events[q[k]].about = events[d].about
      BY <1>1, <1>2, <2>2, <2>3, <2>4, <2>5, <3>1
    <3>3. \A l \in DOMAIN q : l \in DOMAIN queue'[w] /\ queue'[w][l] = q[l]
      BY <2>3, <2>4
    <3> QED BY <3>1, <3>2, <3>3 DEF LastAbout
  <2>6. CASE d = n
    <3>1. Got(w) /\ queue'[w] = Append(q, n)
      BY <1>1, <1>4, <2>1, <2>2, <2>3, <2>6
    <3>2. \A k \in DOMAIN queue'[w] : k <= Len(q) + 1
      BY <2>4, <3>1
    <3> QED BY <2>4, <2>6, <3>1, <3>2 DEF LastAbout
  <2> QED BY <1>1, <2>5, <2>6
<1> QED BY <1>3, <1>4 DEF DestroyLast

LEMMA SentAsked ==
    ASSUME Types, QueuesSound, Creates, WindowsSound, AskedFirst, NEW n, NEW type, NEW v,
           Sent(n, type, v), type # "create", Kept, FatesGoOn,
           type = "close" => v \in Windows /\ window[v] = "open",
           UNCHANGED <<status, owner>>
    PROVE  AskedFirst'
<1>1. /\ Ids' = Ids \cup {n} /\ n \notin Ids /\ n \in Nat
      /\ events'[n].type = type /\ events'[n].about = v
  BY DEF Sent
<1>2. \A x \in Ids : /\ events'[x].type = events[x].type /\ events'[x].about = events[x].about
                     /\ events'[x].by = events[x].by
                     /\ events'[x].fate # "unanswered" => events[x].fate # "unanswered"
  BY DEF Kept, FatesGoOn
<1>3. Live' = Live /\ Live \subseteq Workers
  BY LiveFacts DEF Live
<1>4. ASSUME NEW c \in Ids, events[c].type = "create", events[c].by \in Live,
             events[c].fate # "unanswered"
      PROVE  AnsweredFirst(events[c].by, c)'
  <2>1. PICK w \in Workers : w = events[c].by
    BY <1>3, <1>4
  <2>2. PICK q : q = queue[w]
    OBVIOUS
  <2>3. q \in Seq(Nat) /\ \A k \in DOMAIN q : q[k] \in Ids
    BY <2>2 DEF Types, QueuesSound
  <2>4. queue'[w] = Append(q, n) \/ queue'[w] = q
    BY <2>1, <2>2 DEF Sent
  <2>5. /\ DOMAIN Append(q, n) = DOMAIN q \cup {Len(q) + 1}
        /\ \A k \in DOMAIN q : Append(q, n)[k] = q[k]
        /\ Append(q, n)[Len(q) + 1] = n
        /\ DOMAIN q = 1 .. Len(q) /\ Len(q) \in Nat
    BY <1>1, <2>3, AppendTo
  <2>6. \A k \in DOMAIN q :
            (events[q[k]].type = "close" /\ events[q[k]].about = events[c].about) =>
                owner[events[c].about] = w \/ \E l \in DOMAIN q : l < k /\ q[l] = c
    BY <1>4, <2>1, <2>2 DEF AskedFirst, AnsweredFirst
  <2>7. ASSUME type = "close", v = events[c].about
        PROVE  owner[v] = w \/ \E l \in DOMAIN q : q[l] = c
    <3>1. CreateSound(c) /\ window[v] = "open"
      BY <1>4, <2>7 DEF Creates
    <3>2. events[c].fate \in {"answered", "registered"}
      BY <1>4, <2>7, <3>1 DEF CreateSound, CreateFates
    <3> QED BY <1>4, <2>1, <2>2, <2>7, <3>1, <3>2 DEF CreateSound
  <2>8. ASSUME NEW k \in DOMAIN queue'[w], events'[queue'[w][k]].type = "close",
               events'[queue'[w][k]].about = events[c].about
        PROVE  owner[events[c].about] = w \/ \E l \in DOMAIN queue'[w] : l < k /\ queue'[w][l] = c
    <3>1. \A l \in DOMAIN q : l \in DOMAIN queue'[w] /\ queue'[w][l] = q[l] /\ l < Len(q) + 1
      BY <2>4, <2>5
    <3>2. CASE k \in DOMAIN q
      BY <1>2, <2>3, <2>6, <2>8, <3>1, <3>2
    <3>3. CASE k \notin DOMAIN q
      <4>1. k = Len(q) + 1 /\ queue'[w][k] = n
        BY <2>4, <2>5, <3>3
      <4> QED BY <1>1, <2>7, <2>8, <3>1, <4>1
    <3> QED BY <3>2, <3>3
  <2> QED BY <1>2, <2>1, <2>8 DEF AnsweredFirst
<1>5. \A c \in Ids' : events'[c].type = "create" => c \in Ids
  BY <1>1
<1> QED BY <1>2, <1>3, <1>4, <1>5 DEF AskedFirst

LEMMA SentKnown ==
    ASSUME Types, QueuesSound, AllKnown, NEW n, NEW type, NEW v, Sent(n, type, v), Kept,
           type # "quit" => v \in Known', Known \subseteq Known', UNCHANGED status
    PROVE  AllKnown'
<1>1. Live' = Live /\ Live \subseteq Workers
  BY LiveFacts DEF Live
<1>2. ASSUME NEW w \in Live, NEW k \in DOMAIN queue'[w],
             events'[queue'[w][k]].type # "quit"
      PROVE  events'[queue'[w][k]].about \in Known'
  <2>1. PICK q : q = queue[w]
    OBVIOUS
  <2>2. q \in Seq(Nat) /\ \A j \in DOMAIN q : q[j] \in Ids
    BY <1>1, <2>1 DEF Types, QueuesSound
  <2>3. n \in Nat /\ (queue'[w] = Append(q, n) \/ queue'[w] = q)
    BY <1>1, <2>1 DEF Sent
  <2>4. (k \in DOMAIN q /\ queue'[w][k] = q[k]) \/ queue'[w][k] = n
    <3>1. q \in Seq(Nat) /\ n \in Nat
      BY <1>1, <2>1, <2>3 DEF Types
    <3>2. /\ DOMAIN Append(q, n) = DOMAIN q \cup {Len(q) + 1}
          /\ \A j \in DOMAIN q : Append(q, n)[j] = q[j]
          /\ Append(q, n)[Len(q) + 1] = n
      BY <3>1, AppendTo
    <3> QED BY <1>2, <2>3, <3>2
  <2>5. CASE queue'[w][k] = n
    BY <1>2, <2>5 DEF Sent
  <2>6. CASE k \in DOMAIN q /\ queue'[w][k] = q[k]
    <3>1. /\ events'[q[k]].type = events[q[k]].type /\ events'[q[k]].about = events[q[k]].about
      BY <2>2, <2>6 DEF Kept
    <3>2. events[q[k]].about \in Known
      BY <1>2, <2>1, <2>6, <3>1 DEF AllKnown
    <3> QED BY <2>6, <3>1, <3>2
  <2> QED BY <2>4, <2>5, <2>6
<1> QED BY <1>1, <1>2 DEF AllKnown

-----------------------------------------------------------------------------
(* Steps that leave the queues of the workers as they are.                  *)
OwnersKept == \A c \in Ids :
    events[c].type = "create" => owner'[events[c].about] = owner[events[c].about]

(* What is said of a Window.create() needs only the queues of the workers   *)
(* and the events of that kind.                                             *)
AnswersGoOn == \A c \in Ids : events[c].type = "create" =>
    \/ events'[c].fate = events[c].fate
    \/ events[c].fate = "back" /\ events'[c].fate = "dropped"

LEMMA QuietWindows ==
    ASSUME QueuesSound, WindowsSound, Creates, DestroyLast, AskedFirst,
           Kept, Ids' = Ids, AnswersGoOn, WindowsGoOn, OwnersKept, UNCHANGED <<status, queue>>
    PROVE  WindowsSound' /\ Creates' /\ DestroyLast' /\ AskedFirst'
<1>1. \A x \in Ids : /\ events'[x].type = events[x].type /\ events'[x].about = events[x].about
                     /\ events'[x].by = events[x].by
                     /\ events'[x].unheard = events[x].unheard
  BY DEF Kept
<1>2. Live' = Live /\ Live \subseteq Workers
  BY LiveFacts DEF Live
<1>3. WindowsSound'
  BY <1>1 DEF WindowsSound, WindowsGoOn
<1>4. Creates'
  <2>1. ASSUME NEW c \in Ids, events[c].type = "create"
        PROVE  CreateSound(c)'
    <3>1. CreateSound(c) /\ events[c].about \in Windows
      BY <2>1 DEF Creates, WindowsSound
    <3>2. \/ events[c].fate = events'[c].fate
          \/ events[c].fate = "back" /\ events'[c].fate = "dropped"
      BY <2>1 DEF AnswersGoOn
    <3>3. /\ window[events[c].about] # "none" => window'[events[c].about] # "none"
          /\ window[events[c].about] = "asked" => window'[events[c].about] = "asked"
          /\ owner'[events[c].about] = owner[events[c].about]
      BY <2>1, <3>1 DEF WindowsGoOn, OwnersKept
    <3> QED BY <1>1, <1>2, <3>1, <3>2, <3>3 DEF CreateSound, CreateFates
  <2> QED BY <1>1, <2>1 DEF Creates
<1>5. DestroyLast'
  <2>1. ASSUME NEW d \in Ids, events[d].type = "destroy", NEW w \in Live \ events[d].unheard
        PROVE  LastAbout(w, d)'
    <3>1. LastAbout(w, d) /\ \A k \in DOMAIN queue[w] : queue[w][k] \in Ids
      BY <1>2, <2>1 DEF DestroyLast, QueuesSound
    <3> QED BY <1>1, <3>1 DEF LastAbout
  <2> QED BY <1>1, <1>2, <2>1 DEF DestroyLast
<1>6. AskedFirst'
  <2>1. ASSUME NEW c \in Ids, events[c].type = "create", events[c].by \in Live,
               events[c].fate # "unanswered"
        PROVE  AnsweredFirst(events[c].by, c)'
    <3>1. /\ AnsweredFirst(events[c].by, c)
          /\ \A k \in DOMAIN queue[events[c].by] : queue[events[c].by][k] \in Ids
      BY <1>2, <2>1 DEF AskedFirst, QueuesSound
    <3> QED BY <1>1, <2>1, <3>1 DEF AnsweredFirst, OwnersKept
  <2>2. \A c \in Ids : events[c].type = "create" =>
            (events'[c].fate # "unanswered" => events[c].fate # "unanswered")
    BY DEF AnswersGoOn
  <2> QED BY <1>1, <1>2, <2>1, <2>2 DEF AskedFirst
<1> QED BY <1>3, <1>4, <1>5, <1>6

LEMMA QuietSteps ==
    ASSUME QueuesSound, Counts, WindowsSound, Creates, DestroyLast, AskedFirst,
           Kept, Ids' = Ids, SameCounts, FatesGoOn, WindowsGoOn, OwnersKept,
           UNCHANGED <<status, queue, busy>>
    PROVE  /\ QueuesSound' /\ Counts' /\ WindowsSound' /\ Creates'
           /\ DestroyLast' /\ AskedFirst'
<1>1. \A x \in Ids : /\ events'[x].type = events[x].type /\ events'[x].by = events[x].by
                     /\ events'[x].sendCount = events[x].sendCount
                     /\ events'[x].unheard = events[x].unheard
                     /\ events'[x].count = events[x].count
  BY DEF Kept, SameCounts
<1>2. Live' = Live /\ Live \subseteq Workers /\ Listed' = Listed
  BY DEF Live, Listed
<1>3. \A x \in Ids : \/ events'[x].fate = events[x].fate
                     \/ /\ events[x].fate = "back" /\ events'[x].fate \in {"acted", "dropped"}
                        /\ events'[x].fate = "acted" => events[x].type # "create"
  BY DEF FatesGoOn
<1>4. QueuesSound'
  BY <1>1, <1>2, <1>3 DEF QueuesSound
<1>5. Counts'
  <2>1. \A x : Holders(x)' = Holders(x)
    BY <1>2 DEF Holders, InHand
  <2>2. ASSUME NEW e \in Ids, events[e].type # "create"
        PROVE  Counted(e)'
    <3>1. Counted(e)
      BY <2>2 DEF Counts
    <3>2. /\ events'[e].fate # "out" => events[e].fate # "out"
          /\ events'[e].fate \in NativeFates
      BY <1>3, <3>1 DEF Counted, NativeFates
    <3> QED BY <1>1, <2>1, <3>1, <3>2 DEF Counted
  <2> QED BY <1>1, <1>2, <2>2 DEF Counts
<1>6. AnswersGoOn
  BY <1>3 DEF AnswersGoOn
<1> QED BY <1>4, <1>5, <1>6, QuietWindows

LEMMA QuietVetoes ==
    ASSUME Vetoes, Ids' = Ids, SameMarks(Ids), FatesGoOn
    PROVE  Vetoes'
BY DEF Vetoes, SameMarks, FatesGoOn

LEMMA QuietKnown ==
    ASSUME QueuesSound, AllKnown, Kept, Known \subseteq Known', UNCHANGED <<status, queue>>
    PROVE  AllKnown'
<1>1. Live' = Live /\ Live \subseteq Workers
  BY LiveFacts DEF Live
<1>2. ASSUME NEW w \in Live, NEW k \in DOMAIN queue[w]
      PROVE  /\ events'[queue[w][k]].type = events[queue[w][k]].type
             /\ events'[queue[w][k]].about = events[queue[w][k]].about
  BY <1>1 DEF QueuesSound, Kept
<1> QED BY <1>1, <1>2 DEF AllKnown

(* The queue of the main thread.                                            *)
LEMMA MainUntouched ==
    ASSUME MainQueueSound, Kept, SameFates({x \in Ids : events[x].fate = "back"}),
           UNCHANGED mainQueue
    PROVE  MainQueueSound'
BY DEF MainQueueSound, Kept, SameFates

LEMMA MainTaken ==
    ASSUME Types, MainQueueSound, mainQueue # <<>>
    PROVE  /\ Head(mainQueue) \in Ids /\ events[Head(mainQueue)].fate = "back"
           /\ (mainQueue' = Tail(mainQueue) /\ Kept /\ SameFates(Ids \ {Head(mainQueue)}))
                 => MainQueueSound'
           /\ Tail(mainQueue) \in Seq(Nat) /\ Len(Tail(mainQueue)) <= QueueSize
<1>1. PICK q : q = mainQueue
  OBVIOUS
<1>2. q \in Seq(Nat) /\ q # <<>> /\ Len(q) <= QueueSize /\ QueueSize \in Nat
  BY <1>1, BoundsAssumption DEF Types
<1>3. /\ Tail(q) \in Seq(Nat) /\ Len(Tail(q)) = Len(q) - 1
      /\ \A k \in DOMAIN Tail(q) :
            k \in Nat \ {0} /\ k + 1 \in DOMAIN q /\ Tail(q)[k] = q[k + 1]
      /\ 1 \in DOMAIN q /\ Head(q) = q[1] /\ Len(q) \in Nat
  BY <1>2, TailOf
<1>4. /\ \A k \in DOMAIN q : q[k] \in Ids /\ events[q[k]].fate = "back"
      /\ \A k, l \in DOMAIN q : q[k] = q[l] => k = l
  BY <1>1 DEF MainQueueSound
<1>5. Head(q) \in Ids /\ events[Head(q)].fate = "back"
  BY <1>3, <1>4
<1>6. ASSUME mainQueue' = Tail(q), Kept, SameFates(Ids \ {Head(q)})
      PROVE  MainQueueSound'
  <2>1. ASSUME NEW k \in DOMAIN Tail(q)
        PROVE  Tail(q)[k] \in Ids \ {Head(q)} /\ events[Tail(q)[k]].fate = "back"
    <3>1. k + 1 \in DOMAIN q /\ Tail(q)[k] = q[k + 1] /\ k + 1 # 1
      BY <1>3
    <3>2. q[k + 1] # q[1]
      BY <1>3, <1>4, <3>1
    <3> QED BY <1>3, <1>4, <3>1, <3>2
  <2>2. \A k, l \in DOMAIN Tail(q) : Tail(q)[k] = Tail(q)[l] => k = l
    BY <1>3, <1>4
  <2> QED BY <1>6, <2>1, <2>2 DEF MainQueueSound, Kept, SameFates
<1>7. Len(Tail(q)) <= QueueSize
  BY <1>2, <1>3
<1> QED BY <1>1, <1>3, <1>5, <1>6, <1>7

-----------------------------------------------------------------------------
(* A worker takes the next event of its queue.                              *)
TakesOff(w, e) == /\ w \in Live /\ busy[w] = 0 /\ queue[w] # <<>> /\ e = Head(queue[w])
                  /\ queue' = [queue EXCEPT ![w] = Tail(@)]

TookNative(w, e) ==
    /\ events[e].type # "create"
    /\ busy' = [busy EXCEPT ![w] = e] /\ events'[e].fate = events[e].fate /\ owner' = owner

TookAnswer(w, e) ==
    /\ events[e].type = "create" /\ events'[e].fate = "registered"
    /\ busy' = busy /\ owner' = [owner EXCEPT ![events[e].about] = w]

Took(w, e) == /\ TakesOff(w, e)
              /\ TookNative(w, e) \/ TookAnswer(w, e)
              /\ Kept /\ Ids' = Ids /\ SameCounts /\ SameFates(Ids \ {e})
              /\ UNCHANGED <<status, window>>

LEMMA TakesOffFacts ==
    ASSUME Types, QueuesSound, NEW w, NEW e, TakesOff(w, e)
    PROVE  /\ w \in Workers /\ e \in Ids /\ 1 \in DOMAIN queue[w] /\ queue[w][1] = e
           /\ queue' \in [Workers -> Seq(Nat)] /\ \A u \in Workers : Len(queue'[u]) <= QueueSize
           /\ \A u \in Workers : u # w => queue'[u] = queue[u]
           /\ \A k \in DOMAIN queue'[w] :
                 /\ k \in Nat \ {0} /\ k + 1 \in DOMAIN queue[w]
                 /\ queue'[w][k] = queue[w][k + 1] /\ queue'[w][k] # e
           /\ \A k \in DOMAIN queue[w] :
                 k \in Nat /\ (k # 1 => k - 1 \in DOMAIN queue'[w] /\ queue'[w][k - 1] = queue[w][k])
           /\ \A k \in DOMAIN queue[w] : queue[w][k] = e => k = 1
<1>1. PICK q : q = queue[w]
  OBVIOUS
<1>2. w \in Workers /\ q \in Seq(Nat) /\ q # <<>> /\ e = Head(q) /\ Len(q) <= QueueSize
  BY <1>1, LiveFacts DEF TakesOff, Types
<1>3. /\ queue'[w] = Tail(q) /\ queue' = [queue EXCEPT ![w] = Tail(q)]
  BY <1>1, <1>2 DEF TakesOff, Types
<1>4. /\ Tail(q) \in Seq(Nat) /\ Len(Tail(q)) = Len(q) - 1
      /\ \A k \in DOMAIN Tail(q) :
            k \in Nat \ {0} /\ k + 1 \in DOMAIN q /\ Tail(q)[k] = q[k + 1]
      /\ \A k \in DOMAIN q : k # 1 => k - 1 \in DOMAIN Tail(q) /\ Tail(q)[k - 1] = q[k]
      /\ 1 \in DOMAIN q /\ Head(q) = q[1] /\ Len(q) \in Nat /\ DOMAIN q = 1 .. Len(q)
  BY <1>2, TailOf
<1>5. \A k, l \in DOMAIN q : q[k] \in Ids /\ (q[k] = q[l] => k = l)
  BY <1>1, <1>2 DEF QueuesSound
<1>6. Len(Tail(q)) <= QueueSize /\ QueueSize \in Nat
  BY <1>2, <1>4, BoundsAssumption
<1>7. /\ queue' \in [Workers -> Seq(Nat)] /\ \A u \in Workers : Len(queue'[u]) <= QueueSize
      /\ \A u \in Workers : u # w => queue'[u] = queue[u]
  BY <1>2, <1>3, <1>4, <1>6 DEF Types
<1> QED BY <1>1, <1>2, <1>3, <1>4, <1>5, <1>7

LEMMA TookQueues ==
    ASSUME Types, QueuesSound, NEW w, NEW e, Took(w, e)
    PROVE  QueuesSound'
<1>1. TakesOff(w, e) /\ w \in Live
  BY DEF Took, TakesOff
<1>2. /\ \A x \in Ids : events'[x].type = events[x].type /\ events'[x].by = events[x].by
      /\ \A x \in Ids \ {e} : events'[x].fate = events[x].fate
      /\ Live' = Live /\ Ids' = Ids /\ status' = status
  BY DEF Took, Kept, SameFates, Live
<1>3. SUFFICES ASSUME NEW u \in Workers
               PROVE  /\ \A k \in DOMAIN queue'[u] :
                            /\ queue'[u][k] \in Ids /\ queue'[u][k] # busy'[u]
                            /\ events[queue'[u][k]].type = "create" =>
                                  /\ events'[queue'[u][k]].fate = "answered"
                                  /\ events[queue'[u][k]].by = u
                      /\ \A k, l \in DOMAIN queue'[u] : queue'[u][k] = queue'[u][l] => k = l
                      /\ busy'[u] # 0 => /\ u \in Live /\ busy'[u] \in Ids
                                         /\ events[busy'[u]].type # "create"
                      /\ status[u] = "none" => queue'[u] = <<>>
  BY <1>2 DEF QueuesSound
<1>4. /\ w \in Workers /\ e \in Ids /\ queue[w][1] = e /\ 1 \in DOMAIN queue[w]
      /\ u # w => queue'[u] = queue[u]
      /\ \A k \in DOMAIN queue'[w] :
            /\ k \in Nat \ {0} /\ k + 1 \in DOMAIN queue[w]
            /\ queue'[w][k] = queue[w][k + 1] /\ queue'[w][k] # e
  BY <1>1, TakesOffFacts
<1>5. /\ \A k \in DOMAIN queue[u] :
            /\ queue[u][k] \in Ids /\ queue[u][k] # busy[u]
            /\ events[queue[u][k]].type = "create" =>
                  events[queue[u][k]].fate = "answered" /\ events[queue[u][k]].by = u
      /\ \A k, l \in DOMAIN queue[u] : queue[u][k] = queue[u][l] => k = l
      /\ busy[u] # 0 => u \in Live /\ busy[u] \in Ids /\ events[busy[u]].type # "create"
      /\ status[u] = "none" => queue[u] = <<>>
  BY DEF QueuesSound
<1>6. /\ u # w => busy'[u] = busy[u]
      /\ busy'[w] = busy[w] \/ (busy'[w] = e /\ events[e].type # "create")
      /\ busy \in [Workers -> Nat]
  BY <1>4 DEF Took, TookNative, TookAnswer, Types
<1>7. CASE u = w
  <2>1. status[w] # "none"
    BY <1>1, <1>4, LiveFacts
  <2> QED BY <1>1, <1>2, <1>4, <1>5, <1>6, <1>7, <2>1
<1>8. CASE u # w
  <2>1. \A k \in DOMAIN queue[u] : queue[u][k] = e => events[e].type # "create"
    BY <1>4, <1>5, <1>8 DEF QueuesSound
  <2> QED BY <1>2, <1>4, <1>5, <1>6, <1>8, <2>1
<1> QED BY <1>7, <1>8

LEMMA TookHolders ==
    ASSUME Types, QueuesSound, NEW w, NEW e, Took(w, e), NEW x \in Ids,
           events[x].type # "create"
    PROVE  Holders(x)' = Holders(x)
<1>1. TakesOff(w, e) /\ Live' = Live /\ Live \subseteq Workers
  BY LiveFacts DEF Took, Live
<1>2. ASSUME NEW u \in Live
      PROVE  InHand(u, x)' <=> InHand(u, x)
  <2>1. /\ InHand(u, x) <=> (busy[u] = x \/ \E k \in DOMAIN queue[u] : queue[u][k] = x)
        /\ InHand(u, x)' <=> (busy'[u] = x \/ \E k \in DOMAIN queue'[u] : queue'[u][k] = x)
    BY DEF InHand, Range
  <2>2. CASE u # w
    <3>1. queue'[u] = queue[u] /\ busy'[u] = busy[u]
      BY <1>1, <2>2, TakesOffFacts DEF Took, TookNative, TookAnswer, Types
    <3> QED BY <2>1, <3>1
  <2>3. CASE u = w
    <3>1. /\ busy[w] = 0 /\ x # 0 /\ queue[w][1] = e /\ 1 \in DOMAIN queue[w]
          /\ busy'[w] = e \/ (busy'[w] = 0 /\ x # e)
      BY <1>1, TakesOffFacts, NoEventZero DEF Took, TookNative, TookAnswer, Types, TakesOff
    <3>2. /\ \A k \in DOMAIN queue'[w] : k + 1 \in DOMAIN queue[w] /\ queue'[w][k] = queue[w][k + 1]
          /\ \A k \in DOMAIN queue[w] :
                k # 1 => k - 1 \in DOMAIN queue'[w] /\ queue'[w][k - 1] = queue[w][k]
      BY <1>1, TakesOffFacts
    <3> QED BY <2>1, <2>3, <3>1, <3>2
  <2> QED BY <2>2, <2>3
<1>3. Holders(x)' = {u \in Live : InHand(u, x)'}
  BY <1>1 DEF Holders
<1> QED BY <1>2, <1>3 DEF Holders

LEMMA TookCounts ==
    ASSUME Types, QueuesSound, Counts, NEW w, NEW e, Took(w, e)
    PROVE  Counts'
<1>1. /\ Ids' = Ids /\ Listed' = Listed
      /\ \A x \in Ids : /\ events'[x].type = events[x].type
                        /\ events'[x].sendCount = events[x].sendCount
                        /\ events'[x].unheard = events[x].unheard
                        /\ events'[x].count = events[x].count
  BY DEF Took, Kept, SameCounts, Listed
<1>2. ASSUME NEW x \in Ids, events[x].type # "create"
      PROVE  Counted(x)'
  <2>1. Counted(x) /\ Holders(x)' = Holders(x)
    BY <1>2, TookHolders DEF Counts
  <2>2. events'[x].fate = events[x].fate
    BY <1>2 DEF Took, TookNative, TookAnswer, SameFates
  <2> QED BY <1>1, <2>1, <2>2 DEF Counted
<1> QED BY <1>1, <1>2 DEF Counts


LEMMA TookWindows ==
    ASSUME WindowsSound, NEW w, NEW e, Took(w, e)
    PROVE  WindowsSound'
BY DEF WindowsSound, Took, Kept

LEMMA TookMain ==
    ASSUME Types, QueuesSound, MainQueueSound, NEW w, NEW e, Took(w, e), mainQueue' = mainQueue
    PROVE  MainQueueSound'
<1>1. /\ e \in Ids /\ w \in Workers /\ 1 \in DOMAIN queue[w] /\ queue[w][1] = e
  BY TakesOffFacts DEF Took
<1>2. events[e].type = "create" => events[e].fate # "back"
  BY <1>1 DEF QueuesSound
<1>3. SameFates({x \in Ids : events[x].fate = "back"})
  BY <1>1, <1>2 DEF Took, TookNative, TookAnswer, SameFates
<1>4. Kept
  BY DEF Took
<1> QED BY <1>3, <1>4, MainUntouched

LEMMA TookCreates ==
    ASSUME Types, QueuesSound, WindowsSound, Creates, NEW w, NEW e, Took(w, e)
    PROVE  Creates'
<1>1. /\ Ids' = Ids /\ Live' = Live /\ window' = window /\ status' = status
      /\ \A x \in Ids : /\ events'[x].type = events[x].type
                        /\ events'[x].about = events[x].about
                        /\ events'[x].by = events[x].by
      /\ \A x \in Ids \ {e} : events'[x].fate = events[x].fate
  BY DEF Took, Kept, SameFates, Live
<1>2. /\ w \in Workers /\ e \in Ids /\ 1 \in DOMAIN queue[w] /\ queue[w][1] = e
      /\ \A u \in Workers : u # w => queue'[u] = queue[u]
      /\ \A k \in DOMAIN queue[w] :
            k # 1 => k - 1 \in DOMAIN queue'[w] /\ queue'[w][k - 1] = queue[w][k]
  BY TakesOffFacts DEF Took
<1>3. ASSUME NEW c \in Ids, events[c].type = "create"
      PROVE  CreateSound(c)'
  <2>1. CreateSound(c) /\ events[c].about \in Windows
    BY <1>3 DEF Creates, WindowsSound
  <2>2. CASE c = e
    <3>1. events[e].by = w /\ events'[e].fate = "registered" /\ owner'[events[e].about] = w
      BY <1>2, <1>3, <2>1, <2>2 DEF QueuesSound, Took, TookNative, TookAnswer, Types
    <3> QED BY <1>1, <2>1, <2>2, <3>1 DEF CreateSound, CreateFates
  <2>3. CASE c # e
    <3>1. owner'[events[c].about] = owner[events[c].about]
      <4>1. events[e].type = "create" => events[c].about # events[e].about
        BY <1>2, <1>3, <2>3 DEF Creates
      <4> QED BY <2>1, <4>1 DEF Took, TookNative, TookAnswer, Types
    <3>2. ASSUME events[c].by \in Live, NEW k \in DOMAIN queue[events[c].by],
                 queue[events[c].by][k] = c
          PROVE  \E j \in DOMAIN queue'[events[c].by] : queue'[events[c].by][j] = c
      <4>1. events[c].by \in Workers
        BY <3>2, LiveFacts
      <4>2. CASE events[c].by # w
        BY <1>2, <3>2, <4>1, <4>2
      <4>3. CASE events[c].by = w
        BY <1>2, <2>3, <3>2, <4>3
      <4> QED BY <4>2, <4>3
    <3>3. events'[c].fate = events[c].fate
      BY <1>1, <2>3
    <3> QED BY <1>1, <2>1, <3>1, <3>2, <3>3 DEF CreateSound
  <2> QED BY <2>2, <2>3
<1> QED BY <1>1, <1>3 DEF Creates

LEMMA TookLast ==
    ASSUME Types, QueuesSound, DestroyLast, NEW w, NEW e, Took(w, e)
    PROVE  DestroyLast'
<1>1. /\ Ids' = Ids /\ Live' = Live /\ Live \subseteq Workers
      /\ \A x \in Ids : /\ events'[x].type = events[x].type
                        /\ events'[x].about = events[x].about
                        /\ events'[x].unheard = events[x].unheard
  BY LiveFacts DEF Took, Kept, Live
<1>2. /\ w \in Workers
      /\ \A u \in Workers : u # w => queue'[u] = queue[u]
      /\ \A k \in DOMAIN queue'[w] :
            /\ k \in Nat \ {0} /\ k + 1 \in DOMAIN queue[w] /\ queue'[w][k] = queue[w][k + 1]
      /\ \A k \in DOMAIN queue[w] :
            k \in Nat /\ (k # 1 => k - 1 \in DOMAIN queue'[w] /\ queue'[w][k - 1] = queue[w][k])
  BY TakesOffFacts DEF Took
<1>3. ASSUME NEW d \in Ids, events[d].type = "destroy", NEW u \in Live \ events[d].unheard
      PROVE  LastAbout(u, d)'
  <2>1. LastAbout(u, d) /\ \A k \in DOMAIN queue[u] : queue[u][k] \in Ids
    BY <1>1, <1>3 DEF DestroyLast, QueuesSound
  <2>2. CASE u # w
    BY <1>1, <1>2, <2>1, <2>2 DEF LastAbout
  <2>3. CASE u = w
    <3>1. ASSUME NEW k \in DOMAIN queue'[w], events'[queue'[w][k]].about = events'[d].about
          PROVE  \E l \in DOMAIN queue'[w] : k <= l /\ queue'[w][l] = d
      <4>1. /\ k \in Nat \ {0} /\ k + 1 \in DOMAIN queue[w] /\ queue'[w][k] = queue[w][k + 1]
            /\ events[queue[w][k + 1]].about = events[d].about
        BY <1>1, <1>2, <2>1, <2>3, <3>1
      <4>2. PICK l \in DOMAIN queue[w] : k + 1 <= l /\ queue[w][l] = d
        BY <2>1, <2>3, <4>1 DEF LastAbout
      <4>3. l \in Nat /\ l # 1 /\ k <= l - 1
        BY <1>2, <4>1, <4>2
      <4> QED BY <1>2, <4>2, <4>3
    <3> QED BY <2>3, <3>1 DEF LastAbout
  <2> QED BY <2>2, <2>3
<1> QED BY <1>1, <1>3 DEF DestroyLast

LEMMA TookAsked ==
    ASSUME Types, QueuesSound, WindowsSound, Creates, AskedFirst, NEW w, NEW e, Took(w, e)
    PROVE  AskedFirst'
<1>1. /\ Ids' = Ids /\ Live' = Live /\ Live \subseteq Workers
      /\ \A x \in Ids : /\ events'[x].type = events[x].type
                        /\ events'[x].about = events[x].about
                        /\ events'[x].by = events[x].by
      /\ \A x \in Ids \ {e} : events'[x].fate = events[x].fate
  BY LiveFacts DEF Took, Kept, Live, SameFates
<1>2. /\ w \in Workers /\ e \in Ids /\ 1 \in DOMAIN queue[w] /\ queue[w][1] = e
      /\ \A u \in Workers : u # w => queue'[u] = queue[u]
      /\ \A k \in DOMAIN queue'[w] :
            /\ k \in Nat \ {0} /\ k + 1 \in DOMAIN queue[w] /\ queue'[w][k] = queue[w][k + 1]
      /\ \A k \in DOMAIN queue[w] :
            k \in Nat /\ (k # 1 => k - 1 \in DOMAIN queue'[w] /\ queue'[w][k - 1] = queue[w][k])
  BY TakesOffFacts DEF Took
<1>3. ASSUME NEW c \in Ids, events[c].type = "create", events[c].by \in Live,
             events'[c].fate # "unanswered"
      PROVE  AnsweredFirst(events[c].by, c)'
  <2>1. PICK u \in Workers : u = events[c].by
    BY <1>1, <1>3
  <2>2. events[c].about \in Windows /\ \A k \in DOMAIN queue[u] : queue[u][k] \in Ids
    BY <1>3 DEF WindowsSound, QueuesSound
  <2>3. CASE c = e
    <3>1. events[e].by = w /\ owner'[events[e].about] = w
      BY <1>2, <1>3, <2>2, <2>3 DEF QueuesSound, Took, TookNative, TookAnswer, Types
    <3> QED BY <1>1, <2>3, <3>1 DEF AnsweredFirst
  <2>4. CASE c # e
    <3>1. owner'[events[c].about] = owner[events[c].about]
      <4>1. events[e].type = "create" => events[c].about # events[e].about
        BY <1>2, <1>3, <2>4 DEF Creates
      <4> QED BY <2>2, <4>1 DEF Took, TookNative, TookAnswer, Types
    <3>2. \A k \in DOMAIN queue[u] :
              (events[queue[u][k]].type = "close"
                 /\ events[queue[u][k]].about = events[c].about) =>
                  owner[events[c].about] = u \/ \E l \in DOMAIN queue[u] : l < k /\ queue[u][l] = c
      BY <1>1, <1>3, <2>1, <2>4 DEF AskedFirst, AnsweredFirst
    <3>3. CASE u # w
      <4>1. /\ queue'[u] = queue[u] /\ events'[c].by = u
            /\ events'[c].about = events[c].about
        BY <1>1, <1>2, <1>3, <2>1, <3>3
      <4>2. \A k \in DOMAIN queue[u] : /\ events'[queue[u][k]].type = events[queue[u][k]].type
                                       /\ events'[queue[u][k]].about = events[queue[u][k]].about
        BY <1>1, <2>2
      <4>3. ASSUME NEW k \in DOMAIN queue[u], events'[queue[u][k]].type = "close",
                   events'[queue[u][k]].about = events[c].about
            PROVE  owner[events[c].about] = u \/ \E l \in DOMAIN queue[u] : l < k /\ queue[u][l] = c
        BY <3>2, <4>2, <4>3
      <4> QED BY <3>1, <4>1, <4>3 DEF AnsweredFirst
    <3>4. CASE u = w
      <4>1. ASSUME NEW k \in DOMAIN queue'[w], events'[queue'[w][k]].type = "close",
                   events'[queue'[w][k]].about = events'[c].about,
                   owner'[events'[c].about] # w
            PROVE  \E l \in DOMAIN queue'[w] : l < k /\ queue'[w][l] = c
        <5>1. /\ k \in Nat \ {0} /\ k + 1 \in DOMAIN queue[w] /\ queue'[w][k] = queue[w][k + 1]
              /\ events[queue[w][k + 1]].type = "close"
              /\ events[queue[w][k + 1]].about = events[c].about
              /\ owner[events[c].about] # w
          BY <1>1, <1>2, <2>2, <3>1, <3>4, <4>1
        <5>2. PICK l \in DOMAIN queue[w] : l < k + 1 /\ queue[w][l] = c
          BY <3>2, <3>4, <5>1
        <5>3. l \in Nat /\ l # 1 /\ l - 1 < k
          BY <1>2, <2>4, <5>1, <5>2
        <5> QED BY <1>2, <5>2, <5>3
      <4>2. \A k \in DOMAIN queue'[w] :
                (events'[queue'[w][k]].type = "close"
                   /\ events'[queue'[w][k]].about = events'[c].about) =>
                    \/ owner'[events'[c].about] = w
                    \/ \E l \in DOMAIN queue'[w] : l < k /\ queue'[w][l] = c
        BY <4>1
      <4>3. events'[c].by = w
        BY <1>1, <2>1, <3>4
      <4> QED BY <4>2, <4>3 DEF AnsweredFirst
    <3> QED BY <3>3, <3>4
  <2> QED BY <2>3, <2>4
<1> QED BY <1>1, <1>3 DEF AskedFirst

LEMMA TookKnown ==
    ASSUME Types, QueuesSound, AllKnown, NEW w, NEW e, Took(w, e)
    PROVE  AllKnown'
<1>1. /\ Live' = Live /\ Live \subseteq Workers /\ Known' = Known
      /\ \A x \in Ids : /\ events'[x].type = events[x].type
                        /\ events'[x].about = events[x].about
  BY LiveFacts DEF Took, Kept, Live, Known
<1>2. /\ w \in Workers
      /\ \A u \in Workers : u # w => queue'[u] = queue[u]
      /\ \A k \in DOMAIN queue'[w] :
            k + 1 \in DOMAIN queue[w] /\ queue'[w][k] = queue[w][k + 1]
  BY TakesOffFacts DEF Took
<1>3. ASSUME NEW u \in Live, NEW k \in DOMAIN queue'[u]
      PROVE  \E j \in DOMAIN queue[u] : queue'[u][k] = queue[u][j] /\ queue[u][j] \in Ids
  BY <1>1, <1>2 DEF QueuesSound
<1> QED BY <1>1, <1>3 DEF AllKnown

(* An event that a worker has in hand is not back yet: its count is short.  *)
LEMMA HeldIsOut ==
    ASSUME Types, Counts, NEW x \in Ids, events[x].type # "create", NEW w \in Live, InHand(w, x)
    PROVE  /\ events[x].fate = "out"
           /\ Cardinality(Holders(x)) \in Nat \ {0} /\ IsFiniteSet(Holders(x))
<1>1. IsFiniteSet(Listed) /\ Counted(x)
  BY DEF Counts
<1>2. w \in Holders(x)
  BY DEF Holders
<1>3. Cardinality(Holders(x)) \in Nat \ {0} /\ IsFiniteSet(Holders(x))
  <2>1. IsFiniteSet(Holders(x)) /\ Cardinality(Holders(x)) \in Nat
    BY <1>1, HoldersFinite
  <2>2. Cardinality(Holders(x)) # 0
    BY <1>2, <2>1, FS_EmptySet
  <2> QED BY <2>1, <2>2
<1>4. Cardinality(events[x].unheard) \in Nat
  BY <1>1, FS_CardinalityType DEF Counted
<1>5. events[x].count \in Nat /\ events[x].sendCount \in Nat
  BY EventFacts
<1> QED BY <1>1, <1>3, <1>4, <1>5 DEF Counted

-----------------------------------------------------------------------------
(* A worker counts an event, and the last one gives it back.                *)
IsLast(e) == events[e].count + 1 = events[e].sendCount

CountTakes(w, taken) ==
    LET e == busy[w]
        last == events[e].count + 1 = events[e].sendCount
    IN  /\ IF last THEN Takes(mainQueue, w, taken) ELSE ~ taken
        /\ events' = [events EXCEPT
                         ![e].count = @ + 1,
                         ![e].fate = IF ~ last THEN @ ELSE IF taken THEN "back" ELSE "lost"]
        /\ mainQueue' = IF taken THEN Append(mainQueue, e) ELSE mainQueue

LEMMA CountEvents ==
    ASSUME Types, NEW w, NEW taken \in BOOLEAN, CountTakes(w, taken), NEW e \in Ids, e = busy[w]
    PROVE  /\ Kept /\ Ids' = Ids /\ SameMarks(Ids) /\ SameFates(Ids \ {e})
           /\ \A x \in Ids \ {e} : events'[x].count = events[x].count
           /\ events'[e].count = events[e].count + 1
           /\ events'[e].fate = IF ~ IsLast(e) THEN events[e].fate
                                ELSE IF taken THEN "back" ELSE "lost"
<1> DEFINE f == IF ~ IsLast(e) THEN events[e].fate
                ELSE IF taken THEN "back" ELSE "lost"
<1>1. e \in DOMAIN events /\ events[e] \in Event /\ events[e].fate \in Fates
      /\ events[e].count \in Nat
  BY EventFacts
<1>2. f \in Fates
  BY <1>1 DEF Fates, NativeFates
<1>3. events' = [events EXCEPT ![e].count = @ + 1, ![e].fate = f]
  <2>1. PICK x : x = busy[w]
    OBVIOUS
  <2>2. events' = [events EXCEPT ![x].count = @ + 1,
                                 ![x].fate = IF ~ (events[x].count + 1 = events[x].sendCount) THEN @
                                             ELSE IF taken THEN "back" ELSE "lost"]
    BY <2>1 DEF CountTakes
  <2> QED BY <1>1, <2>1, <2>2 DEF IsLast
<1>3a. PICK c \in Nat : c = events[e].count + 1
  BY <1>1
<1> DEFINE r == [events[e] EXCEPT !.count = c, !.fate = f]
<1> HIDE DEF f
<1>4. r \in Event
  BY <1>1, <1>2 DEF Event
<1>5. /\ r.type = events[e].type /\ r.about = events[e].about /\ r.by = events[e].by
      /\ r.sendCount = events[e].sendCount /\ r.unheard = events[e].unheard
      /\ r.count = c /\ r.canceled = events[e].canceled
      /\ r.vetoed = events[e].vetoed /\ r.fate = f
  BY <1>1 DEF Event
<1>6. events' = [events EXCEPT ![e] = r]
  BY <1>1, <1>3, <1>3a
<1> HIDE DEF r
<1>7. events \in Seq(Event) /\ DOMAIN events = Ids /\ Len(events) \in Nat
  BY DEF Types, Ids
<1>8. /\ events' \in Seq(Event) /\ Len(events') = Len(events)
      /\ \A k \in Ids : events'[k] = IF k = e THEN r ELSE events[k]
  BY <1>1, <1>4, <1>6, <1>7, ReplaceIn
<1>9. Ids' = Ids
  BY <1>8 DEF Ids
<1>10. Kept /\ SameMarks(Ids) /\ SameFates(Ids \ {e})
  BY <1>5, <1>7, <1>8, <1>9 DEF Kept, SameMarks, SameFates
<1> QED BY <1>5, <1>8, <1>9, <1>10, <1>3a DEF f

LEMMA CountStep ==
    ASSUME IInv, NEW w \in Workers, Count(w)
    PROVE  /\ QueuesSound' /\ MainQueueSound' /\ Counts' /\ Vetoes' /\ WindowsSound'
           /\ Creates' /\ DestroyLast' /\ AskedFirst' /\ AllKnown'
           /\ mainQueue' \in Seq(Nat) /\ Len(mainQueue') <= QueueSize
<1> USE DEF IInv
<1>1. PICK e : e = busy[w]
  OBVIOUS
<1>2. /\ e # 0 /\ w \in Live /\ e \in Ids /\ events[e].type # "create"
      /\ \A k \in DOMAIN queue[w] : queue[w][k] # e
  BY <1>1 DEF Count, QueuesSound
<1>2a. PICK taken \in BOOLEAN : CountTakes(w, taken)
  BY DEF Count, CountTakes
<1>2b. taken => IsLast(e) /\ Len(mainQueue) < QueueSize
  BY <1>1, <1>2a DEF CountTakes, Takes, Room, IsLast
<1>3. /\ Kept /\ Ids' = Ids /\ SameMarks(Ids) /\ SameFates(Ids \ {e})
      /\ \A x \in Ids \ {e} : events'[x].count = events[x].count
      /\ events'[e].count = events[e].count + 1
      /\ events'[e].fate = IF ~ IsLast(e) THEN events[e].fate
                           ELSE IF taken THEN "back" ELSE "lost"
  BY <1>1, <1>2, <1>2a, CountEvents
<1>4. /\ busy' = [busy EXCEPT ![w] = 0] /\ busy \in [Workers -> Nat]
      /\ UNCHANGED <<status, queue, window, owner>>
      /\ mainQueue' = IF taken THEN Append(mainQueue, e) ELSE mainQueue
  BY <1>1, <1>2a DEF Count, CountTakes, workerVars, windowVars, Types
<1>5. InHand(w, e)
  BY <1>1 DEF InHand
<1>6. /\ events[e].fate = "out" /\ Cardinality(Holders(e)) \in Nat \ {0}
      /\ IsFiniteSet(Holders(e))
  BY <1>2, <1>5, HeldIsOut
<1>7. Live' = Live /\ Live \subseteq Workers /\ Listed' = Listed
  BY <1>4, LiveFacts DEF Live, Listed
<1>8. \A x \in Ids : /\ events'[x].type = events[x].type /\ events'[x].by = events[x].by
                     /\ events[x].type = "create" => events'[x].fate = events[x].fate
                     /\ events'[x].sendCount = events[x].sendCount
                     /\ events'[x].unheard = events[x].unheard
  BY <1>2, <1>3 DEF Kept, SameFates
<1>9. QueuesSound'
  <2>1. ASSUME NEW u \in Workers
        PROVE  busy'[u] \in {0, busy[u]} /\ \A k \in DOMAIN queue[u] : queue[u][k] # 0
    BY <1>4, NoEventZero DEF QueuesSound
  <2> QED BY <1>3, <1>4, <1>7, <1>8, <2>1 DEF QueuesSound
<1>10. MainQueueSound'
  <2>1. CASE ~ taken
    <3>1. SameFates({x \in Ids : events[x].fate = "back"})
      BY <1>3, <1>6 DEF SameFates
    <3> QED BY <1>3, <1>4, <2>1, <3>1, MainUntouched
  <2>2. CASE taken
    <3>1. PICK q : q = mainQueue
      OBVIOUS
    <3>2. /\ \A k \in DOMAIN q : q[k] \in Ids /\ events[q[k]].fate = "back"
          /\ \A k, l \in DOMAIN q : q[k] = q[l] => k = l
          /\ q \in Seq(Nat) /\ e \in Nat
      BY <1>2, <3>1, EventFacts DEF MainQueueSound, Types
    <3>3. /\ DOMAIN Append(q, e) = DOMAIN q \cup {Len(q) + 1} /\ Len(q) + 1 \notin DOMAIN q
          /\ \A k \in DOMAIN q : Append(q, e)[k] = q[k]
          /\ Append(q, e)[Len(q) + 1] = e
      BY <3>2, AppendTo
    <3>4. mainQueue' = Append(q, e) /\ events'[e].fate = "back"
      BY <1>2b, <1>3, <1>4, <2>2, <3>1
    <3>5. \A k \in DOMAIN q : q[k] # e /\ events'[q[k]].fate = "back"
      BY <1>3, <1>6, <3>2 DEF SameFates
    <3> QED BY <1>2, <1>3, <3>2, <3>3, <3>4, <3>5 DEF MainQueueSound
  <2> QED BY <2>1, <2>2
<1>11. Counts'
  <2>1. ASSUME NEW x \in Ids, events[x].type # "create"
        PROVE  Counted(x)'
    <3>1. Counted(x) /\ IsFiniteSet(Listed)
      BY <2>1 DEF Counts
    <3>2. CASE x # e
      <4>1. \A u \in Live : InHand(u, x)' <=> InHand(u, x)
        BY <1>1, <1>2, <1>4, <1>7, <3>2, NoEventZero DEF InHand
      <4>2. Holders(x)' = Holders(x)
        BY <1>7, <4>1 DEF Holders
      <4> QED BY <1>3, <1>8, <3>1, <3>2, <4>2 DEF Counted, SameFates
    <3>3. CASE x = e
      <4>1. \A u \in Live : InHand(u, e)' <=> InHand(u, e) /\ u # w
        <5>1. \A u \in Live : u # w => (InHand(u, e)' <=> InHand(u, e))
          BY <1>4, <1>7 DEF InHand
        <5>2. ~ InHand(w, e)'
          <6>1. \A k \in DOMAIN queue'[w] : queue'[w][k] # e
            BY <1>2, <1>4
          <6> QED BY <1>2, <1>4, <6>1 DEF InHand, Range
        <5> QED BY <5>1, <5>2
      <4>2. Holders(e)' = Holders(e) \ {w} /\ w \in Holders(e)
        BY <1>2, <1>5, <1>7, <4>1 DEF Holders
      <4>3. Cardinality(Holders(e)') = Cardinality(Holders(e)) - 1
        BY <1>6, <4>2, FS_RemoveElement
      <4>4. /\ events[e].count \in Nat /\ events[e].sendCount \in Nat
            /\ Cardinality(events[e].unheard) \in Nat
        BY <1>2, <3>1, <3>3, EventFacts, FS_CardinalityType DEF Counted
      <4>5. events'[e].fate # "out" => events'[e].count = events'[e].sendCount
        BY <1>3, <1>6, <1>8, <3>3 DEF IsLast
      <4>6. events'[e].fate \in NativeFates
        BY <1>3, <1>6 DEF NativeFates
      <4>7. events'[e].count + Cardinality(Holders(e)') + Cardinality(events'[e].unheard)
                = events'[e].sendCount
        BY <1>3, <1>6, <1>8, <3>1, <3>3, <4>3, <4>4 DEF Counted
      <4>8. IsFiniteSet(events'[e].unheard)
        BY <1>8, <3>1, <3>3 DEF Counted
      <4> QED BY <3>3, <4>5, <4>6, <4>7, <4>8 DEF Counted
    <3> QED BY <3>2, <3>3
  <2> QED BY <1>3, <1>7, <1>8, <2>1 DEF Counts
<1>12. Vetoes'
  BY <1>3, <1>6 DEF Vetoes, SameMarks, SameFates
<1>13. WindowsSound' /\ Creates' /\ DestroyLast' /\ AskedFirst'
  <2>1. AnswersGoOn /\ WindowsGoOn /\ OwnersKept
    BY <1>4, <1>8 DEF AnswersGoOn, WindowsGoOn, OwnersKept
  <2> QED BY <1>3, <1>4, <2>1, QuietWindows
<1>14. AllKnown'
  <2>1. Known' = Known
    BY <1>4 DEF Known
  <2> QED BY <1>3, <1>4, <2>1, QuietKnown
<1>15. mainQueue' \in Seq(Nat) /\ Len(mainQueue') <= QueueSize
  <2>1. PICK q : q = mainQueue
    OBVIOUS
  <2>2. q \in Seq(Nat) /\ Len(q) <= QueueSize /\ QueueSize \in Nat /\ e \in Nat
    BY <1>2, <2>1, EventFacts, BoundsAssumption DEF Types
  <2>3. Append(q, e) \in Seq(Nat) /\ Len(Append(q, e)) = Len(q) + 1 /\ Len(q) \in Nat
    BY <2>2, AppendTo
  <2> QED BY <1>2b, <1>4, <2>1, <2>2, <2>3
<1> QED BY <1>9, <1>10, <1>11, <1>12, <1>13, <1>14, <1>15

-----------------------------------------------------------------------------
(* The steps of the worker's loop and of its scripts.  Sound is what all of *)
(* them keep; the types come at the end.                                    *)
Sound == /\ QueuesSound /\ MainQueueSound /\ Counts /\ Vetoes /\ WindowsSound
         /\ Creates /\ DestroyLast /\ AskedFirst /\ AllKnown

(* Canceling an event, with a listener's veto or without.                   *)
Marked(e, veto) == [events EXCEPT ![e].canceled = TRUE, ![e].vetoed = @ \/ veto]

LEMMA MarkFacts ==
    ASSUME Types, NEW e \in Ids, NEW veto \in BOOLEAN, events' = Marked(e, veto)
    PROVE  /\ Kept /\ Ids' = Ids /\ SameCounts /\ SameFates(Ids) /\ SameMarks(Ids \ {e})
           /\ events'[e].canceled /\ (events'[e].vetoed => veto \/ events[e].vetoed)
<1>1. e \in DOMAIN events /\ events[e] \in Event /\ events[e].vetoed \in BOOLEAN
  BY EventFacts
<1>2. PICK b \in BOOLEAN : b <=> (events[e].vetoed \/ veto)
  BY <1>1
<1> DEFINE r == [events[e] EXCEPT !.canceled = TRUE, !.vetoed = b]
<1>3. r \in Event
  BY <1>1 DEF Event
<1>4. /\ r.type = events[e].type /\ r.about = events[e].about /\ r.by = events[e].by
      /\ r.sendCount = events[e].sendCount /\ r.unheard = events[e].unheard
      /\ r.count = events[e].count /\ r.canceled /\ r.vetoed = b /\ r.fate = events[e].fate
  BY <1>1 DEF Event
<1>5. events' = [events EXCEPT ![e] = r]
  <2>1. (events[e].vetoed \/ veto) = b
    BY <1>1, <1>2
  <2> QED BY <1>1, <2>1 DEF Marked
<1> HIDE DEF r
<1>6. events \in Seq(Event) /\ DOMAIN events = Ids /\ Len(events) \in Nat
  BY DEF Types, Ids
<1>7. /\ events' \in Seq(Event) /\ Len(events') = Len(events)
      /\ \A k \in Ids : events'[k] = IF k = e THEN r ELSE events[k]
  BY <1>1, <1>3, <1>5, <1>6, ReplaceIn
<1>8. Ids' = Ids
  BY <1>7 DEF Ids
<1> QED BY <1>2, <1>4, <1>6, <1>7, <1>8 DEF Kept, SameCounts, SameMarks, SameFates

LEMMA TookSound ==
    ASSUME IInv, NEW w, NEW e, Took(w, e), mainQueue' = mainQueue, Vetoes'
    PROVE  Sound'
BY TookQueues, TookMain, TookCreates, TookCounts, TookWindows, TookLast, TookAsked, TookKnown
   DEF IInv, Sound

LEMMA HandleStep ==
    ASSUME IInv, NEW w \in Workers, Handle(w)
    PROVE  /\ Sound' /\ events' \in Seq(Event) /\ Ids' = Ids
           /\ queue' \in [Workers -> Seq(Nat)] /\ \A u \in Workers : Len(queue'[u]) <= QueueSize
           /\ busy' \in [Workers -> Nat] /\ heard' \in [Workers -> SUBSET Ids]
<1> USE DEF IInv
<1>1. PICK e : e = Head(queue[w])
  OBVIOUS
<1>2. TakesOff(w, e) /\ events[e].type # "create" /\ busy' = [busy EXCEPT ![w] = e]
  BY <1>1 DEF Handle, Runs, TakesOff
<1>3. /\ e \in Ids /\ e \in Nat
      /\ queue' \in [Workers -> Seq(Nat)] /\ \A u \in Workers : Len(queue'[u]) <= QueueSize
      /\ queue[w][1] = e /\ 1 \in DOMAIN queue[w]
  BY <1>2, TakesOffFacts, EventFacts
<1>4. /\ UNCHANGED <<status, mainQueue, window, owner>>
      /\ heard' \in [Workers -> SUBSET Ids]
      /\ \/ UNCHANGED events
         \/ events' = [events EXCEPT ![e].canceled = TRUE, ![e].vetoed = TRUE]
  <2>1. UNCHANGED <<status, mainQueue, window, owner>>
    BY DEF Handle, workerVars, windowVars
  <2>2. \/ UNCHANGED events
        \/ events' = [events EXCEPT ![e].canceled = TRUE, ![e].vetoed = TRUE]
    BY <1>1 DEF Handle
  <2>3. PICK listens : heard' = [heard EXCEPT ![w] = IF listens THEN @ \cup {e} ELSE @]
    BY <1>1 DEF Handle
  <2>4. heard' \in [Workers -> SUBSET Ids]
    BY <1>3, <2>3 DEF Types
  <2> QED BY <2>1, <2>2, <2>4
<1>5. /\ Kept /\ Ids' = Ids /\ SameCounts /\ SameFates(Ids) /\ SameMarks(Ids \ {e})
      /\ \/ events'[e].canceled
         \/ events'[e].canceled = events[e].canceled /\ events'[e].vetoed = events[e].vetoed
  <2>1. CASE UNCHANGED events
    <3>1. Ids' = Ids /\ events \in Seq(Event) /\ Len(events) \in Nat
      BY <2>1 DEF Ids, Types
    <3> QED BY <2>1, <3>1 DEF Kept, SameCounts, SameFates, SameMarks
  <2>2. CASE events' = [events EXCEPT ![e].canceled = TRUE, ![e].vetoed = TRUE]
    <3>1. e \in DOMAIN events /\ events[e] \in Event
      BY <1>3, EventFacts
    <3>2. events' = Marked(e, TRUE)
      BY <2>2, <3>1 DEF Marked
    <3> QED BY <1>3, <3>2, MarkFacts
  <2> QED BY <1>4, <2>1, <2>2
<1>6. Took(w, e)
  <2>1. TookNative(w, e)
    BY <1>2, <1>3, <1>4, <1>5 DEF TookNative, SameFates
  <2>2. SameFates(Ids \ {e})
    BY <1>5 DEF SameFates
  <2> QED BY <1>2, <1>4, <1>5, <2>1, <2>2 DEF Took
<1>7. Vetoes'
  <2>1. InHand(w, e) /\ w \in Live
    BY <1>2, <1>3 DEF InHand, Range, TakesOff
  <2>2. events[e].fate = "out"
    BY <1>2, <1>3, <2>1, HeldIsOut
  <2>3. events'[e].vetoed => events'[e].canceled /\ events'[e].fate # "acted"
    BY <1>3, <1>5, <2>2 DEF Vetoes, SameFates
  <2> QED BY <1>5, <2>3 DEF Vetoes, SameFates, SameMarks
<1>8. Sound'
  BY <1>4, <1>6, <1>7, TookSound
<1>9. busy' \in [Workers -> Nat]
  BY <1>2, <1>3 DEF Types
<1> QED BY <1>3, <1>4, <1>5, <1>8, <1>9 DEF Kept

LEMMA RegisterStep ==
    ASSUME IInv, NEW w \in Workers, Register(w)
    PROVE  /\ Sound' /\ events' \in Seq(Event) /\ Ids' = Ids
           /\ queue' \in [Workers -> Seq(Nat)] /\ \A u \in Workers : Len(queue'[u]) <= QueueSize
           /\ owner' \in [Windows -> Workers \cup {NoWorker}]
<1> USE DEF IInv
<1>1. PICK e : e = Head(queue[w])
  OBVIOUS
<1>2. /\ TakesOff(w, e) /\ events[e].type = "create"
      /\ owner' = [owner EXCEPT ![events[e].about] = w]
      /\ events' = Settled(e, "registered")
      /\ UNCHANGED <<status, busy, mainQueue, window>>
  BY <1>1 DEF Register, Runs, TakesOff, Settled, workerVars
<1>3. /\ e \in Ids
      /\ queue' \in [Workers -> Seq(Nat)] /\ \A u \in Workers : Len(queue'[u]) <= QueueSize
  BY <1>2, TakesOffFacts
<1>4. /\ Kept /\ SameCounts /\ SameMarks(Ids) /\ SameFates(Ids \ {e}) /\ Ids' = Ids
      /\ events'[e].fate = "registered"
  BY <1>2, <1>3, SettleFacts DEF Fates, CreateFates
<1>5. Took(w, e)
  BY <1>2, <1>4 DEF Took, TookAnswer
<1>6. Vetoes'
  BY <1>4 DEF Vetoes, SameMarks, SameFates
<1>7. Sound'
  BY <1>2, <1>5, <1>6, TookSound
<1>8. owner' \in [Windows -> Workers \cup {NoWorker}]
  BY <1>2 DEF Types
<1> QED BY <1>3, <1>4, <1>7, <1>8 DEF Kept

LEMMA CancelStep ==
    ASSUME IInv, NEW w \in Workers, NEW e \in Ids, CancelLate(w, e)
    PROVE  Sound' /\ events' \in Seq(Event) /\ Ids' = Ids
<1> USE DEF IInv
<1>1. /\ events' = [events EXCEPT ![e].canceled = TRUE]
      /\ UNCHANGED <<status, queue, busy, mainQueue, window, owner>>
  BY DEF CancelLate, workerVars, windowVars
<1>2. /\ Kept /\ Ids' = Ids /\ SameCounts /\ SameFates(Ids) /\ SameMarks(Ids \ {e})
      /\ events'[e].canceled /\ (events'[e].vetoed => events[e].vetoed)
  <2>1. e \in DOMAIN events /\ events[e] \in Event /\ events[e].vetoed \in BOOLEAN
    BY EventFacts
  <2>2. (events[e].vetoed \/ FALSE) = events[e].vetoed
    BY <2>1
  <2>3. events' = [events EXCEPT ![e].canceled = TRUE, ![e].vetoed = events[e].vetoed]
    BY <1>1, <2>1 DEF Event
  <2>4. events' = Marked(e, FALSE)
    BY <2>1, <2>2, <2>3 DEF Marked
  <2> QED BY <2>4, MarkFacts
<1>3. FatesGoOn /\ WindowsGoOn /\ OwnersKept
  BY <1>1, <1>2 DEF FatesGoOn, WindowsGoOn, OwnersKept, SameFates
<1>4. /\ QueuesSound' /\ Counts' /\ WindowsSound' /\ Creates'
      /\ DestroyLast' /\ AskedFirst'
  BY <1>1, <1>2, <1>3, QuietSteps
<1>5. Vetoes'
  BY <1>2 DEF Vetoes, SameMarks, SameFates
<1>6. MainQueueSound'
  BY <1>1, <1>2, MainUntouched DEF SameFates
<1>7. AllKnown'
  <2>1. Known' = Known
    BY <1>1 DEF Known
  <2> QED BY <1>1, <1>2, <2>1, QuietKnown
<1> QED BY <1>2, <1>4, <1>5, <1>6, <1>7 DEF Sound, Kept

-----------------------------------------------------------------------------
(* The steps of the main thread.                                            *)

(* What no step can disturb that leaves the window of the event in the map. *)
LEMMA SentSound ==
    ASSUME IInv, NEW n, NEW type, NEW v, Sent(n, type, v), Kept, SameCounts, SameMarks(Ids),
           FatesGoOn, WindowsGoOn, Known \subseteq Known', MainQueueSound',
           UNCHANGED <<status, busy, owner>>,
           \/ type = "quit" /\ v = NoWindow
           \/ /\ type \in {"close", "destroy"} /\ v \in Windows /\ window[v] = "open"
              /\ type = "destroy" => window'[v] = "dying"
    PROVE  Sound'
<1> USE DEF IInv
<1>1. type # "create"
  OBVIOUS
<1>2. \A d \in Ids : events[d].type = "destroy" => events[d].about # v
  BY NoneAssumption DEF WindowsSound
<1>3. type # "quit" => v \in Known'
  BY DEF Known
<1>4. type = "close" => v \in Windows /\ window[v] = "open"
  OBVIOUS
<1>5. type = "destroy" => window'[v] = "dying"
  OBVIOUS
<1>6. (type = "quit" /\ v = NoWindow) \/ (type \in {"close", "destroy"} /\ v \in Windows)
  OBVIOUS
<1>7. QueuesSound' /\ Counts' /\ Vetoes'
  BY <1>1, SentQueues, SentCounts, SentVetoes
<1>8. WindowsSound'
  BY <1>5, <1>6, SentWindows
<1>9. Creates' /\ AskedFirst'
  BY <1>1, <1>4, SentCreates, SentAsked
<1>10. DestroyLast' /\ AllKnown'
  BY <1>2, <1>3, SentLast, SentKnown
<1> QED BY <1>7, <1>8, <1>9, <1>10 DEF Sound

LEMMA ClosesStep ==
    ASSUME IInv, NEW v \in Windows, UserCloses(v)
    PROVE  /\ Sound' /\ events' \in Seq(Event) /\ Ids \subseteq Ids'
           /\ queue' \in [Workers -> Seq(Nat)] /\ \A u \in Workers : Len(queue'[u]) <= QueueSize
<1> USE DEF IInv
<1>1. /\ window[v] = "open" /\ Emit(events, "close", v)
      /\ UNCHANGED <<status, busy, mainQueue, window, owner>>
  BY DEF UserCloses, workerVars, windowVars
<1>2. /\ Sent(Len(events) + 1, "close", v)
      /\ Kept /\ SameCounts /\ SameMarks(Ids) /\ SameFates(Ids)
  BY <1>1, EmitPlain DEF Counts
<1>3. FatesGoOn /\ WindowsGoOn /\ Known' = Known
  BY <1>1, <1>2 DEF FatesGoOn, WindowsGoOn, Known, SameFates
<1>4. MainQueueSound'
  BY <1>1, <1>2, MainUntouched DEF SameFates
<1>5. Sound'
  BY <1>1, <1>2, <1>3, <1>4, SentSound
<1> QED BY <1>2, <1>5 DEF Sent, Kept

LEMMA QuitTakenStep ==
    ASSUME IInv, TakeQuit
    PROVE  /\ Sound' /\ events' \in Seq(Event) /\ Ids \subseteq Ids'
           /\ queue' \in [Workers -> Seq(Nat)] /\ \A u \in Workers : Len(queue'[u]) <= QueueSize
<1> USE DEF IInv
<1>1. /\ Emit(events, "quit", NoWindow)
      /\ UNCHANGED <<status, busy, mainQueue, window, owner>>
  BY DEF TakeQuit, workerVars, windowVars
<1>2. /\ Sent(Len(events) + 1, "quit", NoWindow)
      /\ Kept /\ SameCounts /\ SameMarks(Ids) /\ SameFates(Ids)
  BY <1>1, EmitPlain DEF Counts
<1>3. FatesGoOn /\ WindowsGoOn /\ Known' = Known
  BY <1>1, <1>2 DEF FatesGoOn, WindowsGoOn, Known, SameFates
<1>4. MainQueueSound'
  BY <1>1, <1>2, MainUntouched DEF SameFates
<1>5. Sound'
  BY <1>1, <1>2, <1>3, <1>4, SentSound
<1> QED BY <1>2, <1>5 DEF Sent, Kept

(* The main thread takes an event from its queue and does with it what      *)
(* leaves the queues of the workers alone.                                  *)
LEMMA TakenQuietly ==
    ASSUME IInv, NEW e, mainQueue # <<>>, e = Head(mainQueue), mainQueue' = Tail(mainQueue),
           NEW f \in {"acted", "dropped"}, events' = Settled(e, f),
           f = "acted" => ~ events[e].canceled /\ events[e].type # "create",
           WindowsGoOn, AllKnown', UNCHANGED <<status, queue, busy, owner>>
    PROVE  /\ Sound' /\ events' \in Seq(Event) /\ Ids' = Ids
           /\ mainQueue' \in Seq(Nat) /\ Len(mainQueue') <= QueueSize
<1> USE DEF IInv
<1>1. /\ e \in Ids /\ events[e].fate = "back"
      /\ mainQueue' \in Seq(Nat) /\ Len(mainQueue') <= QueueSize
  BY MainTaken
<1>2. /\ Kept /\ SameCounts /\ SameMarks(Ids) /\ SameFates(Ids \ {e}) /\ Ids' = Ids
      /\ events'[e].fate = f
  BY <1>1, SettleFacts DEF Fates, CreateFates, NativeFates
<1>3. FatesGoOn /\ OwnersKept
  BY <1>1, <1>2 DEF FatesGoOn, OwnersKept, SameFates
<1>4. /\ QueuesSound' /\ Counts' /\ WindowsSound' /\ Creates'
      /\ DestroyLast' /\ AskedFirst'
  BY <1>2, <1>3, QuietSteps
<1>5. Vetoes'
  BY <1>2, <1>3, QuietVetoes
<1>6. MainQueueSound'
  BY <1>2, MainTaken
<1> QED BY <1>1, <1>2, <1>4, <1>5, <1>6 DEF Sound, Kept

LEMMA KnownKept ==
    ASSUME IInv, NEW e \in Ids, NEW f \in Fates, events' = Settled(e, f),
           UNCHANGED <<status, queue, window>>
    PROVE  AllKnown'
<1>1. Kept
  BY SettleFacts DEF IInv
<1>2. Known' = Known
  BY DEF Known
<1> QED BY <1>1, <1>2, QuietKnown DEF IInv

LEMMA DropStep ==
    ASSUME IInv, DropCanceled
    PROVE  /\ Sound' /\ events' \in Seq(Event) /\ Ids' = Ids
           /\ mainQueue' \in Seq(Nat) /\ Len(mainQueue') <= QueueSize
<1>1. PICK e : e = Head(mainQueue)
  OBVIOUS
<1>2. /\ mainQueue # <<>> /\ mainQueue' = Tail(mainQueue) /\ events' = Settled(e, "dropped")
      /\ UNCHANGED <<status, queue, busy, window, owner>>
  BY <1>1 DEF DropCanceled, PopsBack, workerVars, windowVars
<1>3. e \in Ids /\ "dropped" \in Fates
  BY <1>1, <1>2, MainTaken DEF IInv, Fates, CreateFates
<1>4. AllKnown' /\ WindowsGoOn
  BY <1>2, <1>3, KnownKept DEF WindowsGoOn
<1> QED BY <1>1, <1>2, <1>4, TakenQuietly

LEMMA QuitStep ==
    ASSUME IInv, ActQuit
    PROVE  /\ Sound' /\ events' \in Seq(Event) /\ Ids' = Ids
           /\ mainQueue' \in Seq(Nat) /\ Len(mainQueue') <= QueueSize
<1>1. PICK e : e = Head(mainQueue)
  OBVIOUS
<1>2. /\ mainQueue # <<>> /\ mainQueue' = Tail(mainQueue) /\ events' = Settled(e, "acted")
      /\ ~ events[e].canceled /\ events[e].type = "quit"
      /\ UNCHANGED <<status, queue, busy, window, owner>>
  BY <1>1 DEF ActQuit, PopsBack, workerVars, windowVars
<1>3. e \in Ids /\ "acted" \in Fates
  BY <1>1, <1>2, MainTaken DEF IInv, Fates, NativeFates
<1>4. AllKnown' /\ WindowsGoOn
  BY <1>2, <1>3, KnownKept DEF WindowsGoOn
<1> QED BY <1>1, <1>2, <1>4, TakenQuietly

(* An event that is back is with no worker, and each has heard of it.       *)
LEMMA BackIsHeard ==
    ASSUME Types, Counts, NEW e \in Ids, events[e].type # "create", events[e].fate # "out"
    PROVE  events[e].unheard = {} /\ \A w \in Live : ~ InHand(w, e)
<1>1. IsFiniteSet(Listed) /\ Counted(e)
  BY DEF Counts
<1>2. /\ Cardinality(Holders(e)) \in Nat /\ IsFiniteSet(Holders(e))
  BY <1>1, HoldersFinite
<1>3. Cardinality(events[e].unheard) \in Nat
  BY <1>1, FS_CardinalityType DEF Counted
<1>4. events[e].count \in Nat /\ events[e].sendCount \in Nat
  BY EventFacts
<1>5. Cardinality(Holders(e)) = 0 /\ Cardinality(events[e].unheard) = 0
  BY <1>1, <1>2, <1>3, <1>4 DEF Counted
<1>6. Holders(e) = {} /\ events[e].unheard = {}
  BY <1>1, <1>2, <1>5, FS_EmptySet DEF Counted
<1> QED BY <1>6 DEF Holders

LEMMA DestroyStep ==
    ASSUME IInv, ActDestroy
    PROVE  /\ Sound' /\ events' \in Seq(Event) /\ Ids' = Ids
           /\ mainQueue' \in Seq(Nat) /\ Len(mainQueue') <= QueueSize
<1> USE DEF IInv
<1>1. PICK e : e = Head(mainQueue)
  OBVIOUS
<1>2. /\ mainQueue # <<>> /\ mainQueue' = Tail(mainQueue) /\ events' = Settled(e, "acted")
      /\ ~ events[e].canceled /\ events[e].type = "destroy"
      /\ window' = [window EXCEPT ![events[e].about] = "gone"]
      /\ UNCHANGED <<status, queue, busy, owner>>
  BY <1>1 DEF ActDestroy, PopsBack, workerVars
<1>3. e \in Ids /\ events[e].fate = "back"
  BY <1>1, <1>2, MainTaken
<1>4. PICK v \in Windows : v = events[e].about
  BY <1>2, <1>3 DEF WindowsSound
<1>5. WindowsGoOn
  BY <1>2, <1>3, <1>4 DEF WindowsGoOn, WindowsSound, Types
<1>6. AllKnown'
  <2>1. /\ Live' = Live /\ Live \subseteq Workers
        /\ \A x \in Ids : events'[x].type = events[x].type /\ events'[x].about = events[x].about
    <3>1. Kept
      BY <1>2, <1>3, SettleFacts DEF Fates, NativeFates
    <3> QED BY <1>2, <3>1, LiveFacts DEF Kept, Live
  <2>2. events[e].unheard = {} /\ \A w \in Live : ~ InHand(w, e)
    BY <1>2, <1>3, BackIsHeard
  <2>3. ASSUME NEW w \in Live, NEW k \in DOMAIN queue[w],
               events[queue[w][k]].type # "quit"
        PROVE  events[queue[w][k]].about \in Known'
    <3>1. events[queue[w][k]].about # v
      <4>1. SUFFICES ASSUME events[queue[w][k]].about = v
                     PROVE  FALSE
        OBVIOUS
      <4>2. LastAbout(w, e)
        BY <1>2, <1>3, <2>2, <2>3 DEF DestroyLast
      <4>3. PICK l \in DOMAIN queue[w] : queue[w][l] = e
        BY <1>4, <4>1, <4>2 DEF LastAbout
      <4> QED BY <2>2, <4>3 DEF InHand, Range
    <3>2. events[queue[w][k]].about \in Known
      BY <2>3 DEF AllKnown
    <3> QED BY <1>2, <1>4, <3>1, <3>2 DEF Known, Types
  <2> QED BY <1>2, <2>1, <2>3 DEF AllKnown, QueuesSound
<1> QED BY <1>1, <1>2, <1>5, <1>6, TakenQuietly

LEMMA CloseStep ==
    ASSUME IInv, ActClose
    PROVE  /\ Sound' /\ events' \in Seq(Event) /\ Ids \subseteq Ids'
           /\ queue' \in [Workers -> Seq(Nat)] /\ \A u \in Workers : Len(queue'[u]) <= QueueSize
           /\ mainQueue' \in Seq(Nat) /\ Len(mainQueue') <= QueueSize
           /\ window' \in [Windows -> {"none", "asked", "open", "blank", "dying", "gone"}]
<1> USE DEF IInv
<1>1. PICK e : e = Head(mainQueue)
  OBVIOUS
<1>2. /\ mainQueue # <<>> /\ mainQueue' = Tail(mainQueue)
      /\ ~ events[e].canceled /\ events[e].type = "close"
      /\ UNCHANGED <<status, busy, owner>>
  BY <1>1 DEF ActClose, PopsBack, workerVars
<1>3. /\ e \in Ids /\ events[e].fate = "back" /\ "acted" \in Fates
      /\ mainQueue' \in Seq(Nat) /\ Len(mainQueue') <= QueueSize
  BY <1>1, <1>2, MainTaken DEF Fates, NativeFates
<1>4. PICK v \in Windows : v = events[e].about
  BY <1>2, <1>3 DEF WindowsSound
<1>5. CASE window[v] # "open"
  <2>1. events' = Settled(e, "acted") /\ UNCHANGED <<window, queue>>
    BY <1>1, <1>4, <1>5 DEF ActClose
  <2>2. AllKnown' /\ WindowsGoOn
    BY <1>2, <1>3, <2>1, KnownKept DEF WindowsGoOn
  <2>3. Sound' /\ events' \in Seq(Event) /\ Ids' = Ids
    BY <1>1, <1>2, <2>1, <2>2, TakenQuietly
  <2> QED BY <1>3, <2>1, <2>3 DEF Types
<1>6. CASE window[v] = "open"
  <2>1. window' = [window EXCEPT ![v] = "dying"] /\ Emit(Settled(e, "acted"), "destroy", v)
    BY <1>1, <1>4, <1>6 DEF ActClose
  <2>2. /\ Sent(Len(events) + 1, "destroy", v)
        /\ Kept /\ SameCounts /\ SameMarks(Ids) /\ SameFates(Ids \ {e})
        /\ events'[e].fate = "acted"
    BY <1>3, <2>1, EmitAfter DEF Counts
  <2>3. FatesGoOn
    BY <1>2, <1>3, <2>2 DEF FatesGoOn, SameFates
  <2>4. /\ WindowsGoOn /\ Known \subseteq Known' /\ window'[v] = "dying"
        /\ window' \in [Windows -> {"none", "asked", "open", "blank", "dying", "gone"}]
    BY <1>6, <2>1 DEF WindowsGoOn, Known, Types
  <2>5. MainQueueSound'
    BY <1>1, <1>2, <2>2, MainTaken
  <2>6. Sound'
    BY <1>2, <1>6, <2>2, <2>3, <2>4, <2>5, SentSound
  <2> QED BY <1>3, <2>2, <2>4, <2>6 DEF Sent, Kept
<1> QED BY <1>5, <1>6

-----------------------------------------------------------------------------
(* Windows and workers come and go.                                         *)
LEMMA OpenStep ==
    ASSUME IInv, NEW w \in Workers, NEW v \in Windows, OpenWindow(w, v)
    PROVE  /\ Sound'
           /\ window' \in [Windows -> {"none", "asked", "open", "blank", "dying", "gone"}]
           /\ owner' \in [Windows -> Workers \cup {NoWorker}]
<1> USE DEF IInv
<1>1. /\ window[v] = "none" /\ owner' = [owner EXCEPT ![v] = w]
      /\ UNCHANGED <<status, queue, busy, events, mainQueue>>
  BY DEF OpenWindow, workerVars
<1>2. PICK o \in {"open", "blank"} : window' = [window EXCEPT ![v] = o]
  BY DEF OpenWindow, Initialize
<1>3. Kept /\ Ids' = Ids /\ SameCounts /\ SameFates(Ids) /\ SameMarks(Ids)
  <2>1. Ids' = Ids /\ events \in Seq(Event) /\ Len(events) \in Nat
    BY <1>1 DEF Ids, Types
  <2> QED BY <1>1, <2>1 DEF Kept, SameCounts, SameFates, SameMarks
<1>4. WindowsGoOn /\ Known \subseteq Known'
  BY <1>1, <1>2 DEF WindowsGoOn, Known, Types
<1>5. FatesGoOn /\ OwnersKept
  <2>1. \A c \in Ids : events[c].type = "create" => events[c].about # v
    BY <1>1 DEF Creates, CreateSound
  <2>2. \A c \in Ids : events[c].type = "create" => events[c].about \in Windows
    BY DEF WindowsSound
  <2> QED BY <1>1, <1>3, <2>1, <2>2 DEF FatesGoOn, OwnersKept, SameFates, Types
<1>6. /\ QueuesSound' /\ Counts' /\ WindowsSound' /\ Creates'
      /\ DestroyLast' /\ AskedFirst'
  BY <1>1, <1>3, <1>4, <1>5, QuietSteps
<1>7. Vetoes' /\ AllKnown'
  BY <1>1, <1>3, <1>4, <1>5, QuietVetoes, QuietKnown
<1>8. MainQueueSound'
  BY <1>1, <1>3, MainUntouched DEF SameFates
<1> QED BY <1>1, <1>2, <1>6, <1>7, <1>8 DEF Sound, Types

(* Workers that come have nothing in hand yet, and those that end have no   *)
(* longer anything.                                                         *)
LEMMA LivesChange ==
    ASSUME IInv, IsFiniteSet(Listed'),
           \A w \in Workers : w \in Live' /\ w \notin Live => status[w] = "none",
           \A w \in Live : w \notin Live' => queue[w] = <<>> /\ busy[w] = 0,
           \A w \in Workers : status'[w] = "none" => status[w] = "none",
           UNCHANGED <<queue, busy, events, mainQueue, window, owner>>
    PROVE  Sound'
<1> USE DEF IInv
<1>1. Live \subseteq Workers /\ Live' \subseteq Workers /\ Ids' = Ids
  BY DEF Live, Ids
<1>2. \A w \in Live' : w \notin Live => queue[w] = <<>> /\ busy[w] = 0
  <2>1. \A w \in Workers : w \notin Live => busy[w] = 0
    BY DEF QueuesSound
  <2> QED BY <1>1, <2>1 DEF QueuesSound
<1>3. QueuesSound'
  BY <1>1 DEF QueuesSound
<1>4. MainQueueSound' /\ Vetoes' /\ WindowsSound'
  BY <1>1 DEF MainQueueSound, Vetoes, WindowsSound
<1>5. Counts'
  <2>1. ASSUME NEW x \in Ids, events[x].type # "create"
        PROVE  Counted(x)'
    <3>1. Counted(x)
      BY <2>1 DEF Counts
    <3>2. \A w \in Workers : InHand(w, x)' <=> InHand(w, x)
      BY DEF InHand, Range
    <3>3. \A w \in Workers : (w \in Live' <=> w \in Live) \/ ~ InHand(w, x)
      <4>1. ASSUME NEW w \in Workers, queue[w] = <<>>, busy[w] = 0
            PROVE  ~ InHand(w, x)
        BY <4>1, NoEventZero DEF InHand, Range
      <4> QED BY <1>2, <4>1
    <3>4. Holders(x)' = Holders(x)
      BY <1>1, <3>2, <3>3 DEF Holders
    <3> QED BY <3>1, <3>4 DEF Counted
  <2> QED BY <1>1, <2>1 DEF Counts
<1>6. Creates'
  <2>1. ASSUME NEW c \in Ids, events[c].type = "create"
        PROVE  CreateSound(c)'
    <3>1. CreateSound(c)
      BY <2>1 DEF Creates
    <3>2. events[c].by \in Live' => events[c].by \in Live
      BY <3>1 DEF CreateSound
    <3>3. status'[events[c].by] # "none"
      BY <3>1 DEF CreateSound
    <3> QED BY <3>1, <3>2, <3>3 DEF CreateSound
  <2> QED BY <1>1, <2>1 DEF Creates
<1>7. DestroyLast'
  <2>1. ASSUME NEW d \in Ids, events[d].type = "destroy", NEW w \in Live' \ events[d].unheard
        PROVE  LastAbout(w, d)'
    <3>1. CASE w \in Live
      <4>1. LastAbout(w, d)
        BY <2>1, <3>1 DEF DestroyLast
      <4> QED BY <4>1 DEF LastAbout
    <3>2. CASE w \notin Live
      BY <1>2, <2>1, <3>2 DEF LastAbout
    <3> QED BY <3>1, <3>2
  <2> QED BY <1>1, <2>1 DEF DestroyLast
<1>8. AskedFirst'
  <2>1. ASSUME NEW c \in Ids, events[c].type = "create", events[c].by \in Live',
               events[c].fate # "unanswered"
        PROVE  AnsweredFirst(events[c].by, c)'
    <3>1. CASE events[c].by \in Live
      <4>1. AnsweredFirst(events[c].by, c)
        BY <2>1, <3>1 DEF AskedFirst
      <4> QED BY <4>1 DEF AnsweredFirst
    <3>2. CASE events[c].by \notin Live
      BY <1>2, <2>1, <3>2 DEF AnsweredFirst
    <3> QED BY <3>1, <3>2
  <2> QED BY <1>1, <2>1 DEF AskedFirst
<1>9. AllKnown'
  <2>1. Known' = Known
    BY DEF Known
  <2> QED BY <1>2, <2>1 DEF AllKnown
<1> QED BY <1>3, <1>4, <1>5, <1>6, <1>7, <1>8, <1>9 DEF Sound

LEMMA WorkerStep ==
    ASSUME IInv, NEW p \in Workers, NEW w \in Workers, CreateWorker(p, w)
    PROVE  /\ Sound' /\ status' \in [Workers -> {"none", "live", "zombie", "freed"}]
           /\ parent' \in [Workers -> Workers \cup {NoWorker}]
<1>1. /\ status[w] = "none" /\ status' = [status EXCEPT ![w] = "live"]
      /\ parent' = [parent EXCEPT ![w] = p]
      /\ UNCHANGED <<queue, busy, events, mainQueue, window, owner>>
      /\ status \in [Workers -> {"none", "live", "zombie", "freed"}]
      /\ parent \in [Workers -> Workers \cup {NoWorker}]
  BY DEF CreateWorker, windowVars, IInv, Types
<1>2. Live' = Live \cup {w} /\ Listed' = Listed \cup {w}
  BY <1>1 DEF Live, Listed
<1>3. IsFiniteSet(Listed')
  BY <1>2, FS_AddElement DEF IInv, Counts
<1>4. Sound'
  BY <1>1, <1>2, <1>3, LivesChange
<1> QED BY <1>1, <1>4

LEMMA EndStep ==
    ASSUME IInv, NEW w \in Workers, DestroyWorker(w)
    PROVE  Sound' /\ status' \in [Workers -> {"none", "live", "zombie", "freed"}]
<1> DEFINE E == Ending(w)
<1>1. /\ w \in Live /\ \A v \in E : queue[v] = <<>> /\ busy[v] = 0
      /\ status' = [v \in Workers |-> IF v = w THEN "freed"
                                      ELSE IF v \in E THEN "zombie" ELSE status[v]]
      /\ UNCHANGED <<queue, busy, events, mainQueue, window, owner>>
      /\ status \in [Workers -> {"none", "live", "zombie", "freed"}]
  BY DEF DestroyWorker, windowVars, IInv, Types
<1>2. w \in E /\ E \subseteq Live
  BY <1>1 DEF Ending
<1> HIDE DEF E
<1>3. Live \subseteq Workers /\ \A v \in Workers : v \in Live <=> status[v] = "live"
  BY LiveFacts
<1>4. Listed' \subseteq Listed /\ Live' = Live \ E
  BY <1>1, <1>2, <1>3 DEF Live, Listed
<1>5. IsFiniteSet(Listed')
  BY <1>4, FS_Subset DEF IInv, Counts
<1>6. \A v \in Workers : status'[v] = "none" => status[v] = "none"
  BY <1>1
<1>7. Sound'
  BY <1>1, <1>4, <1>5, <1>6, LivesChange
<1> QED BY <1>1, <1>7


LEMMA AskStep ==
    ASSUME IInv, NEW w \in Workers, NEW v \in Windows, AskWindow(w, v)
    PROVE  /\ Sound' /\ events' \in Seq(Event) /\ Ids \subseteq Ids'
           /\ mainQueue' \in Seq(Nat) /\ Len(mainQueue') <= QueueSize
           /\ window' \in [Windows -> {"none", "asked", "open", "blank", "dying", "gone"}]
<1> USE DEF IInv
<1>0. PICK n : n = Len(events) + 1
  OBVIOUS
<1>1. PICK f \in {"back", "lost"} :
          /\ events' = Append(events, [NewEvent("create", v, w) EXCEPT !.fate = f])
          /\ f = "back" => Room(mainQueue) /\ mainQueue' = Append(mainQueue, n)
          /\ f = "lost" => mainQueue' = mainQueue
  BY <1>0 DEF AskWindow
<1>1a. /\ f = "back" => Room(mainQueue) /\ mainQueue' = Append(mainQueue, n)
       /\ f = "back" \/ (f = "lost" /\ mainQueue' = mainQueue)
  BY <1>1
<1>2. /\ w \in Live /\ window[v] = "none" /\ window' = [window EXCEPT ![v] = "asked"]
      /\ UNCHANGED <<status, queue, busy, owner>>
  BY DEF AskWindow, Runs, workerVars
<1> DEFINE r == [NewEvent("create", v, w) EXCEPT !.fate = f]
<1>3. /\ r \in Event /\ r.type = "create" /\ r.about = v /\ r.by = w /\ r.fate = f
      /\ ~ r.vetoed
  <2>1. NewEvent("create", v, w) \in Event
    BY NewEventType
  <2>2. r \in Event /\ r.fate = f
    BY <2>1 DEF Event, Fates, CreateFates
  <2> QED BY <2>2 DEF NewEvent
<1> HIDE DEF r
<1>4. events \in Seq(Event) /\ Len(events) \in Nat /\ DOMAIN events = Ids
  BY DEF Types, Ids
<1>5. /\ events' \in Seq(Event) /\ Len(events') = n /\ events'[n] = r
      /\ \A x \in Ids : events'[x] = events[x]
  BY <1>0, <1>1, <1>3, <1>4, AppendTo DEF r
<1>6. Ids' = Ids \cup {n} /\ n \notin Ids /\ n \in Nat \ {0}
  BY <1>0, <1>4, <1>5 DEF Ids
<1>7. Live' = Live /\ Listed' = Listed /\ Live \subseteq Workers /\ Known' = Known
  BY <1>2, LiveFacts DEF Live, Listed, Known, Types
<1>8. \A u \in Workers : \A k \in DOMAIN queue[u] :
          queue[u][k] \in Ids /\ events'[queue[u][k]] = events[queue[u][k]]
  BY <1>5 DEF QueuesSound
<1>9. \A c \in Ids : events[c].type = "create" => events[c].about # v
  BY <1>2 DEF Creates, CreateSound
<1>10. QueuesSound'
  <2>1. \A u \in Workers : busy[u] # 0 => busy[u] \in Ids /\ events'[busy[u]] = events[busy[u]]
    BY <1>5 DEF QueuesSound
  <2> QED BY <1>2, <1>6, <1>7, <1>8, <2>1 DEF QueuesSound
<1>11. MainQueueSound'
  <2>1. PICK q : q = mainQueue
    OBVIOUS
  <2>2. /\ \A k \in DOMAIN q : q[k] \in Ids /\ events[q[k]].fate = "back"
        /\ \A k, l \in DOMAIN q : q[k] = q[l] => k = l
        /\ q \in Seq(Nat)
    BY <2>1 DEF MainQueueSound, Types
  <2>3. /\ DOMAIN Append(q, n) = DOMAIN q \cup {Len(q) + 1} /\ Len(q) + 1 \notin DOMAIN q
        /\ \A k \in DOMAIN q : Append(q, n)[k] = q[k]
        /\ Append(q, n)[Len(q) + 1] = n
    BY <1>6, <2>2, AppendTo
  <2>4. CASE f # "back"
    BY <1>1a, <1>5, <1>6, <2>1, <2>2, <2>4 DEF MainQueueSound
  <2>5. CASE f = "back"
    <3>1. mainQueue' = Append(q, n) /\ events'[n].fate = "back"
      BY <1>1a, <1>3, <1>5, <2>1, <2>5
    <3>2. \A k \in DOMAIN q : q[k] # n /\ events'[q[k]].fate = "back"
      BY <1>5, <1>6, <2>2
    <3> QED BY <1>6, <2>2, <2>3, <3>1, <3>2 DEF MainQueueSound
  <2> QED BY <2>4, <2>5
<1>12. Counts'
  <2>1. \A x : Holders(x)' = Holders(x)
    BY <1>2, <1>7 DEF Holders, InHand
  <2>2. \A x \in Ids : Counted(x) => Counted(x)'
    BY <1>5, <2>1 DEF Counted
  <2> QED BY <1>3, <1>5, <1>6, <1>7, <2>2 DEF Counts
<1>13. Vetoes'
  BY <1>3, <1>5, <1>6 DEF Vetoes
<1>14. WindowsSound'
  <2>1. \A u \in Windows : window[u] \in {"dying", "gone"} => window'[u] \in {"dying", "gone"}
    BY <1>2 DEF Types
  <2> QED BY <1>3, <1>5, <1>6, <2>1 DEF WindowsSound
<1>15. Creates'
  <2>1. ASSUME NEW c \in Ids, events[c].type = "create"
        PROVE  CreateSound(c)'
    <3>1. CreateSound(c) /\ events[c].about \in Windows /\ events[c].about # v
      BY <1>9, <2>1 DEF Creates, WindowsSound
    <3>2. window'[events[c].about] = window[events[c].about]
      BY <1>2, <3>1 DEF Types
    <3> QED BY <1>2, <1>5, <1>7, <3>1, <3>2 DEF CreateSound
  <2>2. CreateSound(n)'
    <3>1. events'[n].by = w /\ events'[n].about = v /\ events'[n].fate \in {"back", "lost"}
      BY <1>3, <1>5
    <3>2. window'[v] = "asked" /\ status'[w] # "none"
      BY <1>2, LiveFacts DEF Types
    <3> QED BY <3>1, <3>2 DEF CreateSound, CreateFates
  <2>3. \A c \in Ids : events'[c].type = "create" => events'[c].about # events'[n].about
    BY <1>3, <1>5, <1>9
  <2> QED BY <1>5, <1>6, <2>1, <2>2, <2>3 DEF Creates
<1>16. DestroyLast'
  <2>1. ASSUME NEW d \in Ids, events[d].type = "destroy", NEW u \in Live \ events[d].unheard
        PROVE  LastAbout(u, d)'
    <3>1. LastAbout(u, d) /\ u \in Workers
      BY <1>7, <2>1 DEF DestroyLast
    <3>2. queue' = queue /\ events'[d] = events[d]
      BY <1>2, <1>5, <2>1
    <3>3. \A k \in DOMAIN queue[u] : events'[queue[u][k]] = events[queue[u][k]]
      BY <1>8, <3>1
    <3> QED BY <3>1, <3>2, <3>3 DEF LastAbout
  <2> QED BY <1>3, <1>5, <1>6, <1>7, <2>1 DEF DestroyLast
<1>17. AskedFirst'
  <2>1. ASSUME NEW c \in Ids, events[c].type = "create", events[c].by \in Live,
               events[c].fate # "unanswered"
        PROVE  AnsweredFirst(events[c].by, c)'
    <3>1. AnsweredFirst(events[c].by, c) /\ events[c].by \in Workers
      BY <1>7, <2>1 DEF AskedFirst
    <3>2. queue' = queue /\ owner' = owner /\ events'[c] = events[c]
      BY <1>2, <1>5, <2>1
    <3>3. \A k \in DOMAIN queue[events[c].by] :
              events'[queue[events[c].by][k]] = events[queue[events[c].by][k]]
      BY <1>8, <3>1
    <3>4. PICK u \in Workers : u = events[c].by
      BY <3>1
    <3>5. ASSUME NEW k \in DOMAIN queue[u], events'[queue[u][k]].type = "close",
                 events'[queue[u][k]].about = events[c].about
          PROVE  owner[events[c].about] = u \/ \E l \in DOMAIN queue[u] : l < k /\ queue[u][l] = c
      BY <3>1, <3>3, <3>4, <3>5 DEF AnsweredFirst
    <3> QED BY <3>2, <3>4, <3>5 DEF AnsweredFirst
  <2>2. AnsweredFirst(w, n)'
    <3>1. \A k \in DOMAIN queue[w] : events[queue[w][k]].type = "close" =>
              events[queue[w][k]].about # v
      BY <1>2 DEF AllKnown, Known
    <3> QED BY <1>2, <1>3, <1>5, <1>8, <3>1 DEF AnsweredFirst
  <2>3. events'[n].by = w
    BY <1>3, <1>5
  <2> QED BY <1>5, <1>6, <1>7, <2>1, <2>2, <2>3 DEF AskedFirst
<1>18. AllKnown'
  BY <1>2, <1>7, <1>8 DEF AllKnown
<1>19. mainQueue' \in Seq(Nat) /\ Len(mainQueue') <= QueueSize
  <2>1. PICK q : q = mainQueue
    OBVIOUS
  <2>2. q \in Seq(Nat) /\ Len(q) <= QueueSize /\ QueueSize \in Nat
    BY <2>1, BoundsAssumption DEF Types
  <2>3. Append(q, n) \in Seq(Nat) /\ Len(Append(q, n)) = Len(q) + 1 /\ Len(q) \in Nat
    BY <1>6, <2>2, AppendTo
  <2>4. mainQueue' = q \/ (Len(q) < QueueSize /\ mainQueue' = Append(q, n))
    BY <1>1a, <2>1 DEF Room
  <2> QED BY <2>2, <2>3, <2>4
<1>20. window' \in [Windows -> {"none", "asked", "open", "blank", "dying", "gone"}]
  BY <1>2 DEF Types
<1>21. Sound'
  BY <1>10, <1>11, <1>12, <1>13, <1>14, <1>15, <1>16, <1>17, <1>18 DEF Sound
<1> QED BY <1>5, <1>6, <1>19, <1>20, <1>21


LEMMA CreatedStep ==
    ASSUME IInv, ActCreate
    PROVE  /\ Sound' /\ events' \in Seq(Event) /\ Ids' = Ids
           /\ queue' \in [Workers -> Seq(Nat)] /\ \A u \in Workers : Len(queue'[u]) <= QueueSize
           /\ mainQueue' \in Seq(Nat) /\ Len(mainQueue') <= QueueSize
           /\ window' \in [Windows -> {"none", "asked", "open", "blank", "dying", "gone"}]
<1> USE DEF IInv
<1>1. PICK e : e = Head(mainQueue)
  OBVIOUS
<1>2. PICK w : w = events[e].by
  OBVIOUS
<1>3. PICK f \in {"answered", "unanswered"} :
          /\ events' = Settled(e, f)
          /\ f = "answered" => Room(queue[w]) /\ queue' = [queue EXCEPT ![w] = Append(@, e)]
          /\ f = "unanswered" => queue' = queue
  BY <1>1, <1>2 DEF ActCreate
<1>4. /\ mainQueue # <<>> /\ mainQueue' = Tail(mainQueue) /\ events[e].type = "create"
      /\ ~ IsCanceled(e) /\ Initialize(events[e].about)
      /\ UNCHANGED <<status, busy, owner>>
  BY <1>1 DEF ActCreate, PopsBack, workerVars
<1>5. /\ e \in Ids /\ e \in Nat /\ events[e].fate = "back"
      /\ mainQueue' \in Seq(Nat) /\ Len(mainQueue') <= QueueSize
  BY <1>1, <1>4, MainTaken, EventFacts
<1>6. PICK v \in Windows : v = events[e].about
  BY <1>4, <1>5 DEF WindowsSound
<1>7. PICK o \in {"open", "blank"} : window' = [window EXCEPT ![v] = o]
  BY <1>4, <1>6 DEF Initialize
<1>8. w \in Live /\ w \in Workers /\ window[v] = "asked"
  <2>1. w \in Live
    BY <1>2, <1>4 DEF IsCanceled
  <2>2. CreateSound(e)
    BY <1>4, <1>5 DEF Creates
  <2> QED BY <1>5, <1>6, <2>1, <2>2, LiveFacts DEF CreateSound
<1>9. /\ Kept /\ SameCounts /\ SameMarks(Ids) /\ SameFates(Ids \ {e}) /\ Ids' = Ids
      /\ events'[e].fate = f
  BY <1>3, <1>5, SettleFacts DEF Fates, CreateFates
<1>10. /\ Live' = Live /\ Listed' = Listed /\ Live \subseteq Workers
       /\ Known \subseteq Known' /\ v \in Known' /\ v \notin Known
       /\ window' \in [Windows -> {"none", "asked", "open", "blank", "dying", "gone"}]
       /\ \A u \in Windows : u # v => window'[u] = window[u]
       /\ window'[v] \in {"open", "blank"}
  <2>1. Live' = Live /\ Listed' = Listed /\ Live \subseteq Workers
    BY <1>4, LiveFacts DEF Live, Listed
  <2>2. /\ window' \in [Windows -> {"none", "asked", "open", "blank", "dying", "gone"}]
        /\ \A u \in Windows : u # v => window'[u] = window[u]
        /\ window'[v] \in {"open", "blank"}
    BY <1>7 DEF Types
  <2> QED BY <1>8, <2>1, <2>2 DEF Known
<1>11. \A x \in Ids : /\ events'[x].type = events[x].type /\ events'[x].about = events[x].about
                      /\ events'[x].by = events[x].by
                      /\ events'[x].sendCount = events[x].sendCount
                      /\ events'[x].unheard = events[x].unheard
                      /\ events'[x].count = events[x].count
                      /\ x # e => events'[x].fate = events[x].fate
  BY <1>9 DEF Kept, SameCounts, SameFates
(* How the queues grow.                                                     *)
<1>12. /\ queue' \in [Workers -> Seq(Nat)] /\ \A u \in Workers : Len(queue'[u]) <= QueueSize
       /\ \A u \in Workers : u # w \/ f # "answered" => queue'[u] = queue[u]
       /\ \A k \in DOMAIN queue[w] : k \in DOMAIN queue'[w] /\ queue'[w][k] = queue[w][k]
       /\ \A k \in DOMAIN queue'[w] : k \in DOMAIN queue[w] \/
             (f = "answered" /\ k = Len(queue[w]) + 1 /\ queue'[w][k] = e)
       /\ f = "answered" => \E k \in DOMAIN queue'[w] : queue'[w][k] = e
  <2>1. PICK q : q = queue[w]
    OBVIOUS
  <2>2. q \in Seq(Nat) /\ Len(q) <= QueueSize /\ QueueSize \in Nat
    BY <1>8, <2>1, BoundsAssumption DEF Types
  <2>3. /\ Append(q, e) \in Seq(Nat) /\ Len(Append(q, e)) = Len(q) + 1 /\ Len(q) \in Nat
        /\ DOMAIN Append(q, e) = DOMAIN q \cup {Len(q) + 1}
        /\ \A k \in DOMAIN q : Append(q, e)[k] = q[k]
        /\ Append(q, e)[Len(q) + 1] = e
    BY <1>5, <2>2, AppendTo
  <2>4. CASE f = "answered"
    <3>1. queue' = [queue EXCEPT ![w] = Append(q, e)] /\ Len(q) < QueueSize
      BY <1>3, <2>1, <2>4 DEF Room
    <3>2. /\ queue' \in [Workers -> Seq(Nat)] /\ queue'[w] = Append(q, e)
          /\ \A u \in Workers : u # w => queue'[u] = queue[u]
      BY <1>8, <2>3, <3>1 DEF Types
    <3>3. \A u \in Workers : Len(queue'[u]) <= QueueSize
      BY <2>2, <2>3, <3>1, <3>2 DEF Types
    <3> QED BY <2>1, <2>3, <2>4, <3>2, <3>3
  <2>5. CASE f = "unanswered"
    BY <1>3, <1>8, <2>5 DEF Types
  <2> QED BY <2>4, <2>5
<1>13. \A u \in Workers : \A k \in DOMAIN queue[u] : queue[u][k] \in Ids /\ queue[u][k] # e
  BY <1>4, <1>5 DEF QueuesSound
<1>14. QueuesSound'
  <2>1. ASSUME NEW u \in Workers
        PROVE  /\ \A k \in DOMAIN queue'[u] :
                     /\ queue'[u][k] \in Ids /\ queue'[u][k] # busy[u]
                     /\ events[queue'[u][k]].type = "create" =>
                           /\ events'[queue'[u][k]].fate = "answered"
                           /\ events[queue'[u][k]].by = u
               /\ \A k, l \in DOMAIN queue'[u] : queue'[u][k] = queue'[u][l] => k = l
               /\ busy[u] # 0 => u \in Live /\ busy[u] \in Ids /\ events[busy[u]].type # "create"
               /\ status[u] = "none" => queue'[u] = <<>>
    <3>1. /\ \A k \in DOMAIN queue[u] :
                /\ queue[u][k] \in Ids /\ queue[u][k] # busy[u]
                /\ events[queue[u][k]].type = "create" =>
                      events[queue[u][k]].fate = "answered" /\ events[queue[u][k]].by = u
          /\ \A k, l \in DOMAIN queue[u] : queue[u][k] = queue[u][l] => k = l
          /\ busy[u] # 0 => u \in Live /\ busy[u] \in Ids /\ events[busy[u]].type # "create"
          /\ status[u] = "none" => queue[u] = <<>>
      BY DEF QueuesSound
    <3>2. CASE u # w \/ f # "answered"
      <4>1. queue'[u] = queue[u]
        BY <1>12, <3>2
      <4>2. \A k \in DOMAIN queue[u] : events'[queue[u][k]].fate = events[queue[u][k]].fate
        BY <1>11, <1>13
      <4> QED BY <3>1, <4>1, <4>2
    <3>3. CASE u = w /\ f = "answered"
      <4>1. status[w] # "none"
        BY <1>8, LiveFacts
      <4>2. busy[w] # e /\ events'[e].fate = "answered" /\ events[e].by = w
        BY <1>2, <1>4, <1>5, <1>9, <3>1, <3>3, NoEventZero
      <4>3. \A k \in DOMAIN queue'[w] :
                /\ queue'[w][k] \in Ids /\ queue'[w][k] # busy[w]
                /\ events[queue'[w][k]].type = "create" =>
                      events'[queue'[w][k]].fate = "answered" /\ events[queue'[w][k]].by = w
        <5>1. \A k \in DOMAIN queue'[w] :
                  (k \in DOMAIN queue[w] /\ queue'[w][k] = queue[w][k]) \/ queue'[w][k] = e
          BY <1>12
        <5> QED BY <1>5, <1>8, <1>11, <1>13, <3>1, <3>3, <4>2, <5>1
      <4>4. \A k, l \in DOMAIN queue'[w] : queue'[w][k] = queue'[w][l] => k = l
        <5>1. \A k \in DOMAIN queue[w] : queue[w][k] # e
          BY <1>8, <1>13
        <5> QED BY <1>12, <3>1, <3>3, <5>1
      <4> QED BY <3>1, <3>3, <4>1, <4>3, <4>4
    <3> QED BY <3>2, <3>3
  <2> QED BY <1>4, <1>9, <1>10, <1>11, <2>1 DEF QueuesSound
<1>15. MainQueueSound'
  BY <1>1, <1>4, <1>9, MainTaken
<1>16. Counts'
  <2>1. ASSUME NEW x \in Ids, events[x].type # "create"
        PROVE  Counted(x)'
    <3>1. Counted(x) /\ x # e
      BY <1>4, <2>1 DEF Counts
    <3>2. ASSUME NEW u \in Live
          PROVE  InHand(u, x)' <=> InHand(u, x)
      <4>1. /\ InHand(u, x) <=> (busy[u] = x \/ \E k \in DOMAIN queue[u] : queue[u][k] = x)
            /\ InHand(u, x)' <=> (busy[u] = x \/ \E k \in DOMAIN queue'[u] : queue'[u][k] = x)
        BY <1>4 DEF InHand, Range
      <4>2. CASE u # w
        BY <1>10, <1>12, <4>1, <4>2
      <4>3. CASE u = w
        BY <1>12, <3>1, <4>1, <4>3
      <4> QED BY <4>2, <4>3
    <3>3. Holders(x)' = Holders(x)
      BY <1>10, <3>2 DEF Holders
    <3> QED BY <1>11, <3>1, <3>3 DEF Counted
  <2> QED BY <1>9, <1>10, <1>11, <2>1 DEF Counts
<1>17. Vetoes'
  BY <1>9, <1>11 DEF Vetoes, SameMarks
<1>18. WindowsSound'
  <2>1. \A u \in Windows : window[u] \in {"dying", "gone"} => window'[u] \in {"dying", "gone"}
    BY <1>8, <1>10
  <2> QED BY <1>9, <1>11, <2>1 DEF WindowsSound
<1>19. Creates'
  <2>1. ASSUME NEW c \in Ids, events[c].type = "create"
        PROVE  CreateSound(c)'
    <3>1. CreateSound(c) /\ events[c].about \in Windows
      BY <2>1 DEF Creates, WindowsSound
    <3>2. CASE c # e
      <4>1. window'[events[c].about] = window[events[c].about]
        BY <1>4, <1>5, <1>6, <1>10, <2>1, <3>1, <3>2 DEF Creates
      <4>2. ASSUME events[c].by \in Live, NEW k \in DOMAIN queue[events[c].by],
                   queue[events[c].by][k] = c
            PROVE  k \in DOMAIN queue'[events[c].by] /\ queue'[events[c].by][k] = c
        <5>1. CASE events[c].by = w
          BY <1>12, <4>2, <5>1
        <5>2. CASE events[c].by # w
          BY <1>10, <1>12, <4>2, <5>2
        <5> QED BY <5>1, <5>2
      <4>3. (events'[c].fate = "answered" /\ events'[c].by \in Live') =>
                \E k \in DOMAIN queue'[events'[c].by] : queue'[events'[c].by][k] = c
        BY <1>10, <1>11, <3>1, <3>2, <4>2 DEF CreateSound
      <4> QED BY <1>4, <1>11, <3>1, <3>2, <4>1, <4>3 DEF CreateSound
    <3>3. CASE c = e
      <4>1. window'[events'[c].about] \in {"open", "blank"}
        BY <1>6, <1>10, <1>11, <3>3
      <4>2. (events'[c].fate = "answered" /\ events'[c].by \in Live') =>
                \E k \in DOMAIN queue'[events'[c].by] : queue'[events'[c].by][k] = c
        BY <1>2, <1>9, <1>11, <1>12, <3>3
      <4> QED BY <1>4, <1>9, <1>11, <3>1, <3>3, <4>1, <4>2 DEF CreateSound, CreateFates
    <3> QED BY <3>2, <3>3
  <2> QED BY <1>9, <1>11, <2>1 DEF Creates
<1>20. DestroyLast'
  <2>1. ASSUME NEW d \in Ids, events[d].type = "destroy", NEW u \in Live \ events[d].unheard
        PROVE  LastAbout(u, d)'
    <3>1. LastAbout(u, d) /\ u \in Workers
      BY <1>10, <2>1 DEF DestroyLast
    <3>2. events[d].about # v
      BY <1>8, <2>1 DEF WindowsSound
    <3>3. CASE u # w \/ f # "answered"
      <4>1. queue'[u] = queue[u]
        BY <1>12, <3>1, <3>3
      <4> QED BY <1>11, <1>13, <2>1, <3>1, <4>1 DEF LastAbout
    <3>4. CASE u = w /\ f = "answered"
      <4>1. ASSUME NEW k \in DOMAIN queue'[w], events'[queue'[w][k]].about = events'[d].about
            PROVE  k \in DOMAIN queue[w] /\ events[queue[w][k]].about = events[d].about
        <5>1. events'[d].about = events[d].about /\ events'[e].about = v
          BY <1>5, <1>6, <1>11, <2>1
        <5>2. queue'[w][k] # e
          BY <3>2, <4>1, <5>1
        <5>3. k \in DOMAIN queue[w] /\ queue'[w][k] = queue[w][k]
          BY <1>12, <5>2
        <5>4. events'[queue[w][k]].about = events[queue[w][k]].about
          BY <1>8, <1>11, <1>13, <5>3
        <5> QED BY <4>1, <5>1, <5>3, <5>4
      <4>2. \A k \in DOMAIN queue[w] : events[queue[w][k]].about = events[d].about =>
                \E l \in DOMAIN queue[w] : k <= l /\ queue[w][l] = d
        BY <3>1, <3>4 DEF LastAbout
      <4>3. ASSUME NEW k \in DOMAIN queue'[w], events'[queue'[w][k]].about = events'[d].about
            PROVE  \E l \in DOMAIN queue'[w] : k <= l /\ queue'[w][l] = d
        <5>1. PICK l \in DOMAIN queue[w] : k <= l /\ queue[w][l] = d
          BY <4>1, <4>2, <4>3
        <5> QED BY <1>12, <5>1
      <4> QED BY <3>4, <4>3 DEF LastAbout
    <3> QED BY <3>3, <3>4
  <2> QED BY <1>9, <1>10, <1>11, <2>1 DEF DestroyLast
<1>21. AskedFirst'
  <2>1. ASSUME NEW c \in Ids, events[c].type = "create", NEW u \in Live, u = events[c].by,
               events'[c].fate # "unanswered"
        PROVE  AnsweredFirst(u, c)'
    <3>1. /\ u \in Workers /\ events[c].about \in Windows
          /\ \A k \in DOMAIN queue[u] : queue[u][k] \in Ids
      BY <1>10, <1>13, <2>1 DEF WindowsSound
    <3>2. \A k \in DOMAIN queue'[u] : events'[queue'[u][k]].type = "close" =>
              /\ k \in DOMAIN queue[u] /\ queue'[u][k] = queue[u][k]
              /\ events[queue[u][k]].type = "close"
              /\ events'[queue'[u][k]].about = events[queue[u][k]].about
      <4>1. CASE u # w
        BY <1>11, <1>12, <3>1, <4>1
      <4>2. CASE u = w
        BY <1>4, <1>5, <1>11, <1>12, <3>1, <4>2
      <4> QED BY <4>1, <4>2
    <3>3. \A k \in DOMAIN queue[u] : k \in DOMAIN queue'[u] /\ queue'[u][k] = queue[u][k]
      BY <1>12, <3>1
    <3>4. CASE c # e
      <4>1. AnsweredFirst(u, c)
        BY <1>11, <2>1, <3>4 DEF AskedFirst
      <4> QED BY <1>4, <1>11, <3>2, <3>3, <4>1 DEF AnsweredFirst
    <3>5. CASE c = e
      <4>1. \A k \in DOMAIN queue[u] : events[queue[u][k]].type = "close" =>
                events[queue[u][k]].about # v
        BY <1>10, <2>1 DEF AllKnown
      <4> QED BY <1>6, <1>11, <3>2, <3>5, <4>1 DEF AnsweredFirst
    <3> QED BY <3>4, <3>5
  <2> QED BY <1>9, <1>10, <1>11, <2>1 DEF AskedFirst
<1>22. AllKnown'
  <2>1. ASSUME NEW u \in Live, NEW k \in DOMAIN queue'[u],
               events'[queue'[u][k]].type # "quit"
        PROVE  events'[queue'[u][k]].about \in Known'
    <3>1. CASE k \in DOMAIN queue[u] /\ queue'[u][k] = queue[u][k]
      <4>1. queue[u][k] \in Ids
        BY <1>10, <1>13, <3>1
      <4> QED BY <1>10, <1>11, <2>1, <3>1, <4>1 DEF AllKnown
    <3>2. CASE queue'[u][k] = e
      BY <1>5, <1>6, <1>10, <1>11, <3>2
    <3>3. u \in Workers
      BY <1>10
    <3>4. u # w \/ u = w
      OBVIOUS
    <3> QED BY <1>12, <2>1, <3>1, <3>2, <3>3, <3>4
  <2> QED BY <1>10, <2>1 DEF AllKnown
<1>23. Sound'
  BY <1>14, <1>15, <1>16, <1>17, <1>18, <1>19, <1>20, <1>21, <1>22 DEF Sound
<1> QED BY <1>5, <1>9, <1>10, <1>12, <1>23 DEF Kept

-----------------------------------------------------------------------------
(* The theorems.                                                            *)

LEMMA InitInv == Init => IInv
<1> SUFFICES ASSUME Init PROVE IInv
  OBVIOUS
<1>1. /\ events = <<>> /\ mainQueue = <<>> /\ Ids = {}
      /\ \A w \in Workers : queue[w] = <<>> /\ busy[w] = 0
      /\ Listed \subseteq {MainWorker}
  BY DEF Init, Ids, Listed
<1>2. IsFiniteSet(Listed)
  BY <1>1, FS_Singleton, FS_Subset
<1>3. Live \subseteq Workers
  BY LiveFacts
<1>4. Types
  <2>1. 0 <= QueueSize /\ 0 \in 0 .. MaxCloses
    BY BoundsAssumption
  <2>2. <<>> \in Seq(Event) /\ <<>> \in Seq(Nat) /\ Len(<<>>) = 0
    OBVIOUS
  <2>3. /\ queue \in [Workers -> Seq(Nat)] /\ \A w \in Workers : Len(queue[w]) <= QueueSize
        /\ mainQueue \in Seq(Nat) /\ Len(mainQueue) <= QueueSize /\ events \in Seq(Event)
    BY <1>1, <2>1, <2>2 DEF Init
  <2>4. /\ status \in [Workers -> {"none", "live", "zombie", "freed"}]
        /\ parent \in [Workers -> Workers \cup {NoWorker}]
        /\ busy \in [Workers -> Nat] /\ heard \in [Workers -> SUBSET Ids]
    BY DEF Init
  <2>5. /\ window \in [Windows -> {"none", "asked", "open", "blank", "dying", "gone"}]
        /\ owner \in [Windows -> Workers \cup {NoWorker}]
        /\ quitPosted \in BOOLEAN /\ closes \in 0 .. MaxCloses
    BY <2>1 DEF Init
  <2> QED BY <2>3, <2>4, <2>5 DEF Types
<1>5. QueuesSound /\ MainQueueSound
  BY <1>1 DEF QueuesSound, MainQueueSound
<1>6. Counts /\ Vetoes /\ WindowsSound /\ Creates /\ DestroyLast /\ AskedFirst
  BY <1>1, <1>2 DEF Counts, Vetoes, WindowsSound, Creates, DestroyLast, AskedFirst
<1>7. AllKnown
  BY <1>1, <1>3 DEF AllKnown
<1>8. Modes
  BY DEF Init, Modes
<1> QED BY <1>4, <1>5, <1>6, <1>7, <1>8 DEF IInv

LEMMA TypesKept ==
    ASSUME Types, Ids \subseteq Ids', events' \in Seq(Event),
           status' \in [Workers -> {"none", "live", "zombie", "freed"}],
           parent' \in [Workers -> Workers \cup {NoWorker}],
           queue' \in [Workers -> Seq(Nat)], \A w \in Workers : Len(queue'[w]) <= QueueSize,
           busy' \in [Workers -> Nat], heard' \in [Workers -> SUBSET Ids],
           mainQueue' \in Seq(Nat), Len(mainQueue') <= QueueSize,
           window' \in [Windows -> {"none", "asked", "open", "blank", "dying", "gone"}],
           owner' \in [Windows -> Workers \cup {NoWorker}],
           quitPosted' \in BOOLEAN, closes' \in 0 .. MaxCloses
    PROVE  Types'
BY DEF Types

LEMMA ModesKept == Modes /\ [Next]_vars => Modes'
<1> SUFFICES ASSUME Modes, [Next]_vars PROVE Modes'
  OBVIOUS
<1>1. UNCHANGED status => Live' = Live
  BY DEF Live
<1>2. UNCHANGED <<status, asleep, mpc>> => Modes'
  BY <1>1 DEF Modes
<1>3. ASSUME NEW w \in Workers, Loop(w) PROVE Modes'
  BY <1>2, <1>3 DEF Loop, Handle, Register, Count, workerVars
<1>4. ASSUME NEW w \in Workers, NEW e \in DOMAIN events, CancelLate(w, e) PROVE Modes'
  BY <1>2, <1>4 DEF CancelLate, workerVars
<1>5. ASSUME NEW w \in Workers, Misses(w) \/ Wake(w) PROVE Modes'
  BY <1>1, <1>5 DEF Misses, Wake, Runs, Modes
<1>6. ASSUME NEW w \in Workers, NEW v \in Windows, OpenWindow(w, v) \/ AskWindow(w, v)
      PROVE  Modes'
  BY <1>2, <1>6 DEF OpenWindow, AskWindow, workerVars
<1>7. ASSUME NEW v \in Windows, UserCloses(v) PROVE Modes'
  BY <1>2, <1>7 DEF UserCloses, workerVars
<1>8. CASE TakeQuit
  BY <1>2, <1>8 DEF TakeQuit, workerVars
<1>9. CASE DropCanceled \/ ActCreate \/ ActClose \/ ActDestroy
  BY <1>2, <1>9 DEF DropCanceled, ActCreate, ActClose, ActDestroy, PopsBack, workerVars
<1>10. CASE ActQuit
  BY <1>1, <1>10 DEF ActQuit, workerVars, Modes
<1>11. ASSUME NEW p \in Workers, NEW w \in Workers, CreateWorker(p, w) PROVE Modes'
  <2>1. Live \subseteq Live' /\ UNCHANGED <<asleep, mpc>>
    BY <1>11 DEF CreateWorker, Live
  <2> QED BY <2>1 DEF Modes
<1>12. CASE Wait
  BY <1>1, <1>12 DEF Wait, workerVars, Modes
<1>13. ASSUME NEW w \in Workers, DestroyWorker(w) PROVE Modes'
  <2>1. UNCHANGED asleep /\ mpc' = "loop" /\ w \in Live
    BY <1>13 DEF DestroyWorker
  <2>2. Ending(w) \cap asleep = {}
    BY <1>13 DEF DestroyWorker
  <2>3. \A S \in SUBSET Live :
            (w \in S /\ \A c \in Live : parent[c] \in S => c \in S) => w \in S
    OBVIOUS
  <2>4. w \in Ending(w)
    BY <2>1, <2>3 DEF Ending
  <2>5. \A v \in asleep : v \in Live'
    BY <1>13, <2>2, <2>4 DEF DestroyWorker, Live, Modes
  <2> QED BY <2>1, <2>5 DEF Modes
<1>14. CASE UNCHANGED vars
  BY <1>2, <1>14 DEF vars
<1> QED BY <1>3, <1>4, <1>5, <1>6, <1>7, <1>8, <1>9, <1>10, <1>11, <1>12, <1>13, <1>14
     DEF Next, MainPop

(* Every step keeps the invariant.                                          *)
LEMMA NextInv == IInv /\ [Next]_vars => IInv'
<1> SUFFICES ASSUME IInv, [Next]_vars PROVE IInv'
  OBVIOUS
<1>1. Types' /\ Sound' => IInv'
  BY ModesKept DEF IInv, Sound
<1>2. /\ Types /\ events \in Seq(Event) /\ Ids \subseteq Ids
      /\ status \in [Workers -> {"none", "live", "zombie", "freed"}]
      /\ parent \in [Workers -> Workers \cup {NoWorker}]
      /\ queue \in [Workers -> Seq(Nat)] /\ \A w \in Workers : Len(queue[w]) <= QueueSize
      /\ busy \in [Workers -> Nat] /\ heard \in [Workers -> SUBSET Ids]
      /\ mainQueue \in Seq(Nat) /\ Len(mainQueue) <= QueueSize
      /\ window \in [Windows -> {"none", "asked", "open", "blank", "dying", "gone"}]
      /\ owner \in [Windows -> Workers \cup {NoWorker}]
      /\ quitPosted \in BOOLEAN /\ closes \in 0 .. MaxCloses
  BY DEF IInv, Types
<1>3. events' = events => Ids' = Ids
  BY DEF Ids
<1>4. ASSUME NEW w \in Workers, Handle(w) PROVE IInv'
  <2>1. UNCHANGED <<status, parent, mainQueue, window, owner, quitPosted, closes>>
    BY <1>4 DEF Handle, workerVars, windowVars
  <2> QED BY <1>1, <1>2, <1>4, <2>1, HandleStep, TypesKept
<1>5. ASSUME NEW w \in Workers, Register(w) PROVE IInv'
  <2>1. UNCHANGED <<status, parent, busy, heard, mainQueue, window, quitPosted, closes>>
    BY <1>5 DEF Register, workerVars
  <2> QED BY <1>1, <1>2, <1>5, <2>1, RegisterStep, TypesKept
<1>6. ASSUME NEW w \in Workers, Count(w) PROVE IInv'
  <2>1. /\ UNCHANGED <<status, parent, queue, heard, window, owner, quitPosted, closes>>
        /\ busy' \in [Workers -> Nat]
    BY <1>2, <1>6 DEF Count, workerVars, windowVars
  <2>2. Kept /\ busy[w] \in Ids /\ Ids' = Ids
    <3>1. busy[w] \in Ids
      BY <1>6 DEF Count, IInv, QueuesSound
    <3>2. PICK taken \in BOOLEAN : CountTakes(w, taken)
      BY <1>6 DEF Count, CountTakes
    <3> QED BY <1>2, <3>1, <3>2, CountEvents
  <2>3. Sound' /\ mainQueue' \in Seq(Nat) /\ Len(mainQueue') <= QueueSize
    BY <1>6, CountStep DEF Sound
  <2> QED BY <1>1, <1>2, <2>1, <2>2, <2>3, TypesKept DEF Kept
<1>7. ASSUME NEW w \in Workers, NEW e \in DOMAIN events, CancelLate(w, e) PROVE IInv'
  <2>1. UNCHANGED <<status, parent, queue, busy, heard, mainQueue, window, owner, quitPosted,
                    closes>>
    BY <1>7 DEF CancelLate, workerVars, windowVars
  <2>2. e \in Ids
    BY <1>2 DEF Ids
  <2> QED BY <1>1, <1>2, <1>7, <2>1, <2>2, CancelStep, TypesKept
<1>8. ASSUME NEW v \in Windows, UserCloses(v) PROVE IInv'
  <2>1. /\ UNCHANGED <<status, parent, busy, heard, mainQueue, window, owner, quitPosted>>
        /\ closes' \in 0 .. MaxCloses
    BY <1>2, <1>8, BoundsAssumption DEF UserCloses, workerVars, windowVars
  <2> QED BY <1>1, <1>2, <1>8, <2>1, ClosesStep, TypesKept
<1>9. CASE TakeQuit
  <2>1. /\ UNCHANGED <<status, parent, busy, heard, mainQueue, window, owner, closes>>
        /\ quitPosted' \in BOOLEAN
    BY <1>9 DEF TakeQuit, workerVars, windowVars
  <2> QED BY <1>1, <1>2, <1>9, <2>1, QuitTakenStep, TypesKept
<1>10. CASE DropCanceled
  <2>1. UNCHANGED <<status, parent, queue, busy, heard, window, owner, quitPosted, closes>>
    BY <1>10 DEF DropCanceled, workerVars, windowVars
  <2> QED BY <1>1, <1>2, <1>10, <2>1, DropStep, TypesKept
<1>11. CASE ActCreate
  <2>1. UNCHANGED <<status, parent, busy, heard, owner, quitPosted, closes>>
    BY <1>11 DEF ActCreate, workerVars
  <2> QED BY <1>1, <1>2, <1>11, <2>1, CreatedStep, TypesKept
<1>12. CASE ActClose
  <2>1. UNCHANGED <<status, parent, busy, heard, owner, quitPosted, closes>>
    BY <1>12 DEF ActClose, workerVars
  <2> QED BY <1>1, <1>2, <1>12, <2>1, CloseStep, TypesKept
<1>13. CASE ActDestroy
  <2>1. /\ UNCHANGED <<status, parent, queue, busy, heard, owner, closes>>
        /\ quitPosted' \in BOOLEAN
        /\ window' \in [Windows -> {"none", "asked", "open", "blank", "dying", "gone"}]
    BY <1>2, <1>13 DEF ActDestroy, workerVars
  <2> QED BY <1>1, <1>2, <1>13, <2>1, DestroyStep, TypesKept
<1>14. CASE ActQuit
  <2>1. UNCHANGED <<status, parent, queue, busy, heard, window, owner, quitPosted, closes>>
    BY <1>14 DEF ActQuit, workerVars, windowVars
  <2> QED BY <1>1, <1>2, <1>14, <2>1, QuitStep, TypesKept
<1>15. ASSUME NEW w \in Workers, NEW v \in Windows, OpenWindow(w, v) PROVE IInv'
  <2>1. UNCHANGED <<status, parent, queue, busy, heard, events, mainQueue, quitPosted, closes>>
    BY <1>15 DEF OpenWindow, workerVars
  <2> QED BY <1>1, <1>2, <1>3, <1>15, <2>1, OpenStep, TypesKept
<1>16. ASSUME NEW w \in Workers, NEW v \in Windows, AskWindow(w, v) PROVE IInv'
  <2>1. UNCHANGED <<status, parent, queue, busy, heard, owner, quitPosted, closes>>
    BY <1>16 DEF AskWindow, workerVars
  <2> QED BY <1>1, <1>2, <1>16, <2>1, AskStep, TypesKept
<1>17. ASSUME NEW p \in Workers, NEW w \in Workers, CreateWorker(p, w) PROVE IInv'
  <2>1. UNCHANGED <<queue, busy, heard, events, mainQueue, window, owner, quitPosted, closes>>
    BY <1>17 DEF CreateWorker, windowVars
  <2> QED BY <1>1, <1>2, <1>3, <1>17, <2>1, WorkerStep, TypesKept
<1>18. ASSUME NEW w \in Workers, DestroyWorker(w) PROVE IInv'
  <2>1. UNCHANGED <<parent, queue, busy, heard, events, mainQueue, window, owner, quitPosted,
                    closes>>
    BY <1>18 DEF DestroyWorker, windowVars
  <2> QED BY <1>1, <1>2, <1>3, <1>18, <2>1, EndStep, TypesKept
<1>19. CASE UNCHANGED vars \/ Wait \/ \E w \in Workers : Misses(w) \/ Wake(w)
  <2>1. UNCHANGED <<status, parent, queue, busy, heard, events, mainQueue, window, owner,
                    quitPosted, closes>>
    BY <1>19 DEF vars, Wait, Misses, Wake, workerVars, windowVars
  <2>2. Types'
    BY <1>2, <1>3, <2>1, TypesKept
  <2>3. Sound'
    <3>1. IsFiniteSet(Listed') /\ Live' = Live
      BY <2>1 DEF Listed, Live, IInv, Counts
    <3> QED BY <2>1, <3>1, LivesChange
  <2> QED BY <1>1, <2>2, <2>3
<1> QED BY <1>4, <1>5, <1>6, <1>7, <1>8, <1>9, <1>10, <1>11, <1>12, <1>13, <1>14, <1>15, <1>16,
           <1>17, <1>18, <1>19 DEF Next, Loop, MainPop

(* The counts, the queues and the windows agree in every state.             *)
THEOREM Invariant == Spec => []IInv
<1>1. Init => IInv
  BY InitInv
<1>2. IInv /\ [Next]_vars => IInv'
  BY NextInv
<1> QED BY <1>1, <1>2, PTL DEF Spec

(* An event that has come back to the main thread has been processed and    *)
(* counted by every worker it was sent to, and the queues are of their      *)
(* types (NativeEvent::process, App::emitEvent).                            *)
THEOREM CountsAreSound == Spec => []CountsSound
<1>1. IInv => CountsSound
  <2> SUFFICES ASSUME IInv PROVE TypeOK /\ BackWhenAllCounted
    BY DEF CountsSound
  <2> USE DEF IInv
  <2>1. TypeOK
    <3>1. \A w \in Workers : queue[w] \in Seq(Ids)
      <4>1. ASSUME NEW q \in Seq(Nat), \A k \in DOMAIN q : q[k] \in Ids
            PROVE  q \in Seq(Ids)
        BY <4>1
      <4> QED BY <4>1 DEF QueuesSound, Types
    <3>2. mainQueue \in Seq(Ids)
      <4>1. ASSUME NEW q \in Seq(Nat), \A k \in DOMAIN q : q[k] \in Ids
            PROVE  q \in Seq(Ids)
        BY <4>1
      <4> QED BY <4>1 DEF MainQueueSound, Types
    <3>3. busy \in [Workers -> Ids \cup {0}]
      BY DEF QueuesSound, Types
    <3>4. \A e \in Ids : /\ events[e].type \in {"close", "destroy", "quit", "create"}
                         /\ events[e].about \in Windows \cup {NoWindow}
                         /\ events[e].by \in Workers \cup {NoWorker}
                         /\ events[e].fate \in {"out", "back", "lost", "acted", "dropped",
                                                "answered", "unanswered", "registered"}
      BY EventFacts DEF Fates, CreateFates, NativeFates
    <3> QED BY <3>1, <3>2, <3>3, <3>4 DEF TypeOK, Types, Modes
  <2>2. BackWhenAllCounted
    <3>1. ASSUME NEW e \in Ids, events[e].type # "create", events[e].fate # "out"
          PROVE  events[e].count = events[e].sendCount
      BY <3>1 DEF Counts, Counted
    <3> QED BY <3>1, BackIsHeard DEF BackWhenAllCounted
  <2> QED BY <2>1, <2>2
<1> QED BY <1>1, Invariant, PTL

(* A worker that handles the closing or the creation of a window finds it   *)
(* in the map (Worker::entry, WindowManager::getWindow).                    *)
THEOREM WindowsStayKnown == Spec => []WindowStillKnown
<1>1. IInv => WindowStillKnown
  BY DEF IInv, AllKnown, WindowStillKnown, Range
<1> QED BY <1>1, Invariant, PTL

(* The worker that made a window with Window.create() is asked before the   *)
(* window closes (WindowClass::onCreate, Worker::entry).                    *)
THEOREM MakerAskedFirst == Spec => []MakerIsAsked
<1>1. IInv => MakerIsAsked
  <2> SUFFICES ASSUME IInv, NEW w \in Live, NEW c \in Ids,
                      events[c].type = "create", events[c].by = w,
                      events[c].fate # "unanswered", queue[w] # <<>>,
                      events[Head(queue[w])].type = "close",
                      events[Head(queue[w])].about = events[c].about
               PROVE  owner[events[c].about] = w
    BY DEF MakerIsAsked
  <2>1. AnsweredFirst(w, c)
    BY DEF IInv, AskedFirst
  <2>2. PICK q : q = queue[w]
    OBVIOUS
  <2>3. q \in Seq(Nat) /\ q # <<>>
    BY <2>2, LiveFacts DEF IInv, Types
  <2>4. 1 \in DOMAIN q /\ Head(q) = q[1] /\ \A l \in DOMAIN q : ~ (l < 1)
    BY <2>3, TailOf
  <2> QED BY <2>1, <2>2, <2>4 DEF AnsweredFirst
<1> QED BY <1>1, Invariant, PTL

(* The main thread never acts on an event that a listener has vetoed        *)
(* (EventClass::cancel, App::run).                                          *)
THEOREM VetoesHold == Spec => []VetoHolds
<1>1. IInv => VetoHolds
  BY DEF IInv, Vetoes, VetoHolds
<1> QED BY <1>1, Invariant, PTL
=============================================================================
