----------------------------- MODULE Timers_proof -----------------------------
(***************************************************************************)
(* Proofs about Timers for every set of workers, every capacity of the     *)
(* queues and any number of timeouts and cancels.                          *)
(***************************************************************************)
EXTENDS Timers, SequenceTheorems, TLAPS

Fates == {"sent", "refused", "late", "untimed", "armed", "fired", "lost", "killed"}
Timeout == [owner : Workers, index : Nat, loop : BOOLEAN, resolved : Nat,
            fate : Fates, canceled : BOOLEAN]
Message == [type : {"INIT", "CANCEL"}, of : Nat]

Types ==
    /\ timeouts \in Seq(Timeout) /\ Len(timeouts) <= MaxTimeouts
    /\ nodes \in [Workers -> Seq(Nat)]
    /\ freeNodes \in [Workers -> Seq(Nat)]
    /\ queue \in [Workers -> Seq(Nat)] /\ \A w \in Workers : Len(queue[w]) <= QueueSize
    /\ mainQueue \in Seq(Message) /\ Len(mainQueue) <= QueueSize
    /\ armed \subseteq Ids /\ timerEvents \subseteq Ids
    /\ cancels \in 0 .. MaxCancels
    /\ asleep \subseteq Workers /\ waits \in BOOLEAN
    /\ ended \subseteq Workers \ {MainWorker}
    /\ crashed \in BOOLEAN

(* The node of a timeout is given back when it is resolved, if it does not  *)
(* loop: until then nobody else has its index.                              *)
NodesKept ==
    /\ \A t \in Ids : timeouts[t].index \in DOMAIN nodes[timeouts[t].owner]
    /\ \A w \in Workers :
          /\ \A k \in DOMAIN nodes[w] : nodes[w][k] \in Ids
          /\ \A k \in DOMAIN freeNodes[w] : freeNodes[w][k] \in DOMAIN nodes[w]
          /\ \A k, l \in DOMAIN freeNodes[w] : freeNodes[w][k] = freeNodes[w][l] => k = l
    /\ \A t \in Ids :
          (timeouts[t].loop \/ timeouts[t].resolved = 0) =>
              /\ nodes[timeouts[t].owner][timeouts[t].index] = t
              /\ \A k \in DOMAIN freeNodes[timeouts[t].owner] :
                    freeNodes[timeouts[t].owner][k] # timeouts[t].index
    /\ \A t \in Ids : timeouts[t].loop \/ timeouts[t].resolved <= 1

(* A timeout that does not loop is in one place at a time: sent to the main *)
(* thread, armed, or on its way back, once.                                 *)
EventsOnce ==
    /\ \A w \in Workers :
          /\ \A k \in DOMAIN queue[w] :
                LET t == queue[w][k]
                IN  /\ t \in Ids /\ timeouts[t].owner = w
                    /\ timeouts[t].loop \/ (timeouts[t].resolved = 0 /\ timeouts[t].fate = "fired")
          /\ \A k, l \in DOMAIN queue[w] :
                (queue[w][k] = queue[w][l] /\ ~ timeouts[queue[w][k]].loop) => k = l
    /\ \A t \in armed :
          /\ timeouts[t].fate # "sent"
          /\ timeouts[t].loop \/ (timeouts[t].resolved = 0 /\ timeouts[t].fate = "armed")

(* INIT events reach the main thread in the order of creation, and before   *)
(* any cancel() of the same timeout.                                        *)
SentInOrder ==
    /\ \A k \in DOMAIN mainQueue :
          LET t == mainQueue[k].of
          IN  /\ t \in Ids
              /\ mainQueue[k].type = "INIT" =>
                    /\ timeouts[t].fate = "sent" /\ ~ timeouts[t].canceled
                    /\ timeouts[t].loop \/ timeouts[t].resolved = 0
    /\ \A k, l \in DOMAIN mainQueue :
          (k < l /\ mainQueue[l].type = "INIT") =>
              /\ mainQueue[k].type = "INIT" => mainQueue[k].of < mainQueue[l].of
              /\ mainQueue[k].type = "CANCEL" => mainQueue[k].of # mainQueue[l].of

(* The first timeout with an index, among those of all workers. *)
IsFirst(t) == \A u \in 1 .. t - 1 : timeouts[u].index # timeouts[t].index

(* The table of indices has the first timeout of each, as long as its timer *)
(* may fire.                                                                *)
TablesSound ==
    /\ armed \subseteq timerEvents
    /\ \A i \in DOMAIN timerIds :
          /\ timerIds[i] \in timerEvents /\ timeouts[timerIds[i]].index = i
          /\ \A k \in DOMAIN mainQueue :
                mainQueue[k].type = "INIT" => timerIds[i] < mainQueue[k].of
    /\ \A t \in armed :
          IsFirst(t) => /\ ~ timeouts[t].canceled
                        /\ timeouts[t].index \in DOMAIN timerIds
                        /\ timerIds[timeouts[t].index] = t

IInv == Types /\ NodesKept /\ EventsOnce /\ SentInOrder /\ TablesSound

-----------------------------------------------------------------------------
(* Facts about sequences.                                                   *)
LEMMA AppendTo ==
    ASSUME NEW S, NEW q \in Seq(S), NEW x \in S
    PROVE  /\ Append(q, x) \in Seq(S) /\ Len(Append(q, x)) = Len(q) + 1
           /\ DOMAIN Append(q, x) = DOMAIN q \cup {Len(q) + 1}
           /\ \A k \in DOMAIN q : Append(q, x)[k] = q[k]
           /\ Append(q, x)[Len(q) + 1] = x
           /\ DOMAIN q = 1 .. Len(q) /\ Len(q) \in Nat
OBVIOUS

LEMMA TailOf ==
    ASSUME NEW S, NEW q \in Seq(S), q # <<>>
    PROVE  /\ Tail(q) \in Seq(S) /\ Len(Tail(q)) = Len(q) - 1
           /\ \A k \in DOMAIN Tail(q) :
                 k \in Nat \ {0} /\ k + 1 \in DOMAIN q /\ Tail(q)[k] = q[k + 1]
           /\ 1 \in DOMAIN q /\ Head(q) = q[1]
           /\ DOMAIN q = 1 .. Len(q) /\ Len(q) \in Nat \ {0}
OBVIOUS

LEMMA FrontOf ==
    ASSUME NEW S, NEW q \in Seq(S), q # <<>>
    PROVE  /\ Front(q) \in Seq(S) /\ Last(q) = q[Len(q)]
           /\ DOMAIN q = DOMAIN Front(q) \cup {Len(q)} /\ Len(q) \notin DOMAIN Front(q)
           /\ \A k \in DOMAIN Front(q) : Front(q)[k] = q[k]
<1>1. Len(q) \in Nat \ {0} /\ DOMAIN q = 1 .. Len(q) /\ \A k \in 1 .. Len(q) - 1 : q[k] \in S
  OBVIOUS
<1>2. /\ SubSeq(q, 1, Len(q) - 1) \in Seq(S)
      /\ Len(SubSeq(q, 1, Len(q) - 1)) = Len(q) - 1
      /\ \A k \in 1 .. Len(q) - 1 : SubSeq(q, 1, Len(q) - 1)[k] = q[k]
  BY <1>1, SubSeqProperties
<1> QED BY <1>1, <1>2 DEF Front, Last

LEMMA ExceptOf ==
    ASSUME NEW S, NEW q \in Seq(S), NEW i \in DOMAIN q, NEW x \in S
    PROVE  /\ [q EXCEPT ![i] = x] \in Seq(S) /\ Len([q EXCEPT ![i] = x]) = Len(q)
           /\ DOMAIN [q EXCEPT ![i] = x] = DOMAIN q
OBVIOUS
-----------------------------------------------------------------------------
(* What no step takes from a timeout that has been made.                    *)
Keeps == /\ timeouts' \in Seq(Timeout) /\ Len(timeouts') = Len(timeouts) /\ Ids' = Ids
         /\ \A t \in Ids : /\ timeouts'[t].owner = timeouts[t].owner
                           /\ timeouts'[t].index = timeouts[t].index
                           /\ timeouts'[t].loop = timeouts[t].loop

SameResolved == \A t \in Ids : timeouts'[t].resolved = timeouts[t].resolved
SameFates(S) == \A t \in S : timeouts'[t].fate = timeouts[t].fate
SameCanceled(S) == \A t \in S : timeouts'[t].canceled = timeouts[t].canceled

LEMMA TimeoutFacts ==
    ASSUME Types, NEW t \in Ids
    PROVE  /\ timeouts[t] \in Timeout /\ t \in Nat \ {0} /\ t <= Len(timeouts)
           /\ timeouts[t].owner \in Workers /\ timeouts[t].index \in Nat
           /\ timeouts[t].loop \in BOOLEAN /\ timeouts[t].resolved \in Nat
           /\ timeouts[t].fate \in Fates /\ timeouts[t].canceled \in BOOLEAN
           /\ Ids = 1 .. Len(timeouts) /\ Len(timeouts) \in Nat
<1>1. timeouts \in Seq(Timeout) /\ t \in DOMAIN timeouts
  BY DEF Types, Ids
<1>2. timeouts[t] \in Timeout /\ t \in Nat \ {0} /\ t <= Len(timeouts)
      /\ Ids = 1 .. Len(timeouts) /\ Len(timeouts) \in Nat
  BY <1>1 DEF Ids
<1> QED BY <1>2 DEF Timeout

LEMMA BecomesKeeps ==
    ASSUME Types, NEW t \in Ids, NEW fate \in Fates, Becomes(t, fate)
    PROVE  /\ Keeps /\ SameResolved /\ SameFates(Ids \ {t}) /\ SameCanceled(Ids)
           /\ timeouts'[t].fate = fate
<1> DEFINE r == [timeouts[t] EXCEPT !.fate = fate]
<1>1. timeouts[t] \in Timeout
  BY TimeoutFacts
<1>2. /\ r \in Timeout /\ r.fate = fate /\ r.owner = timeouts[t].owner
      /\ r.index = timeouts[t].index /\ r.loop = timeouts[t].loop
      /\ r.resolved = timeouts[t].resolved /\ r.canceled = timeouts[t].canceled
  BY <1>1 DEF Timeout
<1>3. timeouts' = [timeouts EXCEPT ![t] = r]
  BY DEF Becomes
<1> HIDE DEF r
<1>4. timeouts \in Seq(Timeout) /\ t \in DOMAIN timeouts
  BY DEF Types, Ids
<1>5. timeouts' \in Seq(Timeout) /\ Len(timeouts') = Len(timeouts) /\ Ids' = Ids
  BY <1>2, <1>3, <1>4, ExceptOf DEF Ids
<1>6. \A u \in Ids : timeouts'[u] = IF u = t THEN r ELSE timeouts[u]
  BY <1>3, <1>4 DEF Ids
<1> QED BY <1>2, <1>5, <1>6 DEF Keeps, SameResolved, SameFates, SameCanceled

LEMMA UnchangedKeeps ==
    ASSUME Types, UNCHANGED timeouts
    PROVE  Keeps /\ SameResolved /\ SameFates(Ids) /\ SameCanceled(Ids)
BY DEF Types, Keeps, SameResolved, SameFates, SameCanceled, Ids
-----------------------------------------------------------------------------
(* What keeps each part of the invariant.                                   *)
LEMMA NodesStay ==
    ASSUME NodesKept, Keeps, SameResolved, UNCHANGED <<nodes, freeNodes>>
    PROVE  NodesKept'
<1>1. \A t \in Ids' : timeouts'[t].index \in DOMAIN nodes'[timeouts'[t].owner]
  BY DEF NodesKept, Keeps
<1>2. \A w \in Workers :
          /\ \A k \in DOMAIN nodes'[w] : nodes'[w][k] \in Ids'
          /\ \A k \in DOMAIN freeNodes'[w] : freeNodes'[w][k] \in DOMAIN nodes'[w]
          /\ \A k, l \in DOMAIN freeNodes'[w] : freeNodes'[w][k] = freeNodes'[w][l] => k = l
  BY DEF NodesKept, Keeps
<1>3. \A t \in Ids' :
          (timeouts'[t].loop \/ timeouts'[t].resolved = 0) =>
              /\ nodes'[timeouts'[t].owner][timeouts'[t].index] = t
              /\ \A k \in DOMAIN freeNodes'[timeouts'[t].owner] :
                    freeNodes'[timeouts'[t].owner][k] # timeouts'[t].index
  BY DEF NodesKept, Keeps, SameResolved
<1>4. \A t \in Ids' : timeouts'[t].loop \/ timeouts'[t].resolved <= 1
  BY DEF NodesKept, Keeps, SameResolved
<1> QED BY <1>1, <1>2, <1>3, <1>4 DEF NodesKept

LEMMA EventsStay ==
    ASSUME EventsOnce, Keeps, SameResolved, UNCHANGED queue, armed' \subseteq armed,
           armed \subseteq Ids, SameFates(armed'),
           \A t \in Ids : (timeouts[t].fate = "fired" /\ ~ timeouts[t].loop) =>
                              timeouts'[t].fate = "fired"
    PROVE  EventsOnce'
<1>1. \A w \in Workers : \A k \in DOMAIN queue'[w] :
         LET t == queue'[w][k]
         IN  /\ t \in Ids' /\ timeouts'[t].owner = w
             /\ timeouts'[t].loop \/ (timeouts'[t].resolved = 0 /\ timeouts'[t].fate = "fired")
  BY DEF EventsOnce, Keeps, SameResolved
<1>2. \A w \in Workers : \A k, l \in DOMAIN queue'[w] :
         (queue'[w][k] = queue'[w][l] /\ ~ timeouts'[queue'[w][k]].loop) => k = l
  BY DEF EventsOnce, Keeps
<1>3. \A t \in armed' :
          /\ timeouts'[t].fate # "sent"
          /\ timeouts'[t].loop \/ (timeouts'[t].resolved = 0 /\ timeouts'[t].fate = "armed")
  BY DEF EventsOnce, Keeps, SameResolved, SameFates
<1> QED BY <1>1, <1>2, <1>3 DEF EventsOnce

(* The timeouts whose INIT event is in the queue q. *)
Pending(q) == {q[k].of : k \in {l \in DOMAIN q : q[l].type = "INIT"}}

LEMMA SentStay ==
    ASSUME SentInOrder, Keeps, UNCHANGED mainQueue,
           \A t \in Pending(mainQueue) :
              /\ timeouts'[t].fate = timeouts[t].fate
              /\ timeouts'[t].canceled = timeouts[t].canceled
              /\ timeouts[t].loop \/ timeouts'[t].resolved = timeouts[t].resolved
    PROVE  SentInOrder'
BY DEF SentInOrder, Keeps, Pending

LEMMA SentTail ==
    ASSUME Types, SentInOrder, Keeps, mainQueue # <<>>, mainQueue' = Tail(mainQueue),
           SameResolved,
           \A t \in Pending(mainQueue') : /\ timeouts'[t].fate = timeouts[t].fate
                                          /\ timeouts'[t].canceled = timeouts[t].canceled
    PROVE  SentInOrder'
<1>1. \A k \in DOMAIN mainQueue' :
         k \in Nat \ {0} /\ k + 1 \in DOMAIN mainQueue /\ mainQueue'[k] = mainQueue[k + 1]
  BY TailOf DEF Types
<1>2. \A k \in DOMAIN mainQueue' :
         mainQueue'[k].type = "INIT" => mainQueue'[k].of \in Pending(mainQueue')
  BY DEF Pending
<1>3. \A k \in DOMAIN mainQueue' :
          LET t == mainQueue'[k].of
          IN  /\ t \in Ids'
              /\ mainQueue'[k].type = "INIT" =>
                    /\ timeouts'[t].fate = "sent" /\ ~ timeouts'[t].canceled
                    /\ timeouts'[t].loop \/ timeouts'[t].resolved = 0
  BY <1>1, <1>2 DEF SentInOrder, Keeps, SameResolved
<1>4. \A k, l \in DOMAIN mainQueue' :
          (k < l /\ mainQueue'[l].type = "INIT") =>
              /\ mainQueue'[k].type = "INIT" => mainQueue'[k].of < mainQueue'[l].of
              /\ mainQueue'[k].type = "CANCEL" => mainQueue'[k].of # mainQueue'[l].of
  <2> TAKE k, l \in DOMAIN mainQueue'
  <2>1. /\ k + 1 \in DOMAIN mainQueue /\ l + 1 \in DOMAIN mainQueue
        /\ mainQueue'[k] = mainQueue[k + 1] /\ mainQueue'[l] = mainQueue[l + 1]
        /\ k < l => k + 1 < l + 1
    BY <1>1
  <2> QED BY <2>1 DEF SentInOrder
<1> QED BY <1>3, <1>4 DEF SentInOrder

LEMMA FirstStays ==
    ASSUME Types, Keeps, NEW t \in Ids
    PROVE  /\ IsFirst(t)' <=> IsFirst(t)
           /\ 1 .. t - 1 \subseteq Ids
<1>1. 1 .. t - 1 \subseteq Ids
  BY TimeoutFacts
<1> QED BY <1>1 DEF IsFirst, Keeps

LEMMA TablesStay ==
    ASSUME Types, TablesSound, Keeps, UNCHANGED <<timerEvents, timerIds>>,
           armed' \subseteq armed, SameCanceled(armed'),
           Pending(mainQueue') \subseteq Pending(mainQueue)
    PROVE  TablesSound'
<1>1. \A i \in DOMAIN timerIds : timerIds[i] \in Ids
  BY DEF TablesSound, Types
<1>2. \A i \in DOMAIN timerIds :
          \A t \in Pending(mainQueue) : timerIds[i] < t
  BY DEF TablesSound, Pending
<1>3. \A i \in DOMAIN timerIds' :
          /\ timerIds'[i] \in timerEvents' /\ timeouts'[timerIds'[i]].index = i
          /\ \A k \in DOMAIN mainQueue' :
                mainQueue'[k].type = "INIT" => timerIds'[i] < mainQueue'[k].of
  <2> TAKE i \in DOMAIN timerIds'
  <2>1. timerIds'[i] \in timerEvents' /\ timeouts'[timerIds'[i]].index = i
    BY <1>1 DEF TablesSound, Keeps
  <2>2. ASSUME NEW k \in DOMAIN mainQueue', mainQueue'[k].type = "INIT"
        PROVE  timerIds'[i] < mainQueue'[k].of
    <3>1. mainQueue'[k].of \in Pending(mainQueue')
      BY <2>2 DEF Pending
    <3> QED BY <1>2, <3>1
  <2> QED BY <2>1, <2>2
<1>4. \A t \in armed' :
          IsFirst(t)' => /\ ~ timeouts'[t].canceled
                         /\ timeouts'[t].index \in DOMAIN timerIds'
                         /\ timerIds'[timeouts'[t].index] = t
  BY FirstStays DEF TablesSound, Types, Keeps, SameCanceled
<1>5. armed' \subseteq timerEvents'
  BY DEF TablesSound
<1> QED BY <1>3, <1>4, <1>5 DEF TablesSound

-----------------------------------------------------------------------------
(* The steps, one by one.                                                   *)
LEMMA InitInv == Init => IInv
<1> SUFFICES ASSUME Init PROVE IInv
  OBVIOUS
<1>1. Types
  <2>1. <<>> \in Seq(Timeout) /\ <<>> \in Seq(Nat) /\ <<>> \in Seq(Message) /\ Len(<<>>) = 0
    OBVIOUS
  <2>2. 0 <= MaxTimeouts /\ 0 <= QueueSize /\ 0 \in 0 .. MaxCancels
    BY QueueAssumption, BoundsAssumption
  <2>3. /\ nodes \in [Workers -> Seq(Nat)] /\ freeNodes \in [Workers -> Seq(Nat)]
        /\ queue \in [Workers -> Seq(Nat)] /\ \A w \in Workers : Len(queue[w]) <= QueueSize
    BY <2>1, <2>2 DEF Init
  <2>4. /\ timeouts \in Seq(Timeout) /\ Len(timeouts) <= MaxTimeouts
        /\ mainQueue \in Seq(Message) /\ Len(mainQueue) <= QueueSize
    BY <2>1, <2>2 DEF Init
  <2> QED BY <2>2, <2>3, <2>4 DEF Init, Types
<1>2. Ids = {} /\ armed = {} /\ DOMAIN timerIds = {} /\ DOMAIN mainQueue = {}
  BY DEF Init, Ids
<1>3. \A w \in Workers : DOMAIN nodes[w] = {} /\ DOMAIN freeNodes[w] = {} /\ DOMAIN queue[w] = {}
  BY DEF Init
<1>4. NodesKept /\ EventsOnce
  BY <1>2, <1>3 DEF NodesKept, EventsOnce
<1>5. SentInOrder /\ TablesSound
  BY <1>2 DEF SentInOrder, TablesSound
<1> QED BY <1>1, <1>4, <1>5 DEF IInv

(* Steps that touch no timeout, no node, no timer and no queue.             *)
LEMMA QuietStep ==
    ASSUME IInv,
           UNCHANGED <<timeouts, nodes, freeNodes, queue, mainQueue, armed, timerEvents,
                       timerIds, cancels>>,
           asleep' \subseteq Workers, waits' \in BOOLEAN,
           ended' \subseteq Workers \ {MainWorker}, crashed' \in BOOLEAN
    PROVE  IInv'
BY DEF IInv, Types, NodesKept, EventsOnce, SentInOrder, TablesSound, IsFirst, Ids

LEMMA CancelStep == ASSUME IInv, NEW t \in Ids, Cancel(t) PROVE IInv'
<1> USE DEF IInv
<1>1. Keeps /\ SameResolved /\ SameFates(Ids) /\ SameCanceled(Ids) /\ armed \subseteq Ids
  BY UnchangedKeeps DEF Cancel, Types
<1>2. CASE mainQueue' = mainQueue
  <2>1. cancels' \in 0 .. MaxCancels
    BY BoundsAssumption DEF Cancel, Types
  <2>2. UNCHANGED <<timeouts, nodes, freeNodes, queue, mainQueue, armed, timerEvents, timerIds,
                    lives>>
    BY <1>2 DEF Cancel
  <2>3. Types'
    BY <2>1, <2>2 DEF Types, Ids, lives
  <2>4. NodesKept' /\ EventsOnce'
    BY <2>2 DEF NodesKept, EventsOnce, Ids
  <2>5. SentInOrder'
    BY <2>2 DEF SentInOrder, Ids
  <2>6. TablesSound'
    BY <2>2 DEF TablesSound, IsFirst
  <2> QED BY <2>3, <2>4, <2>5, <2>6
<1>3. CASE /\ Room(mainQueue)
           /\ mainQueue' = Append(mainQueue, [type |-> "CANCEL", of |-> t])
  <2> DEFINE m == [type |-> "CANCEL", of |-> t]
  <2>1. m \in Message /\ m.type = "CANCEL" /\ m.of = t
    BY TimeoutFacts DEF Message
  <2>2. mainQueue' = Append(mainQueue, m)
    BY <1>3
  <2> HIDE DEF m
  <2>3. /\ mainQueue' \in Seq(Message) /\ Len(mainQueue') = Len(mainQueue) + 1
        /\ DOMAIN mainQueue' = DOMAIN mainQueue \cup {Len(mainQueue) + 1}
        /\ \A k \in DOMAIN mainQueue : mainQueue'[k] = mainQueue[k]
        /\ mainQueue'[Len(mainQueue) + 1] = m
        /\ DOMAIN mainQueue = 1 .. Len(mainQueue) /\ Len(mainQueue) \in Nat
    BY <2>1, <2>2, AppendTo DEF Types
  <2>4. cancels' \in 0 .. MaxCancels
    BY BoundsAssumption DEF Cancel, Types
  <2>5. Types'
    <3>1. Len(mainQueue') <= QueueSize
      BY <1>3, <2>3, QueueAssumption DEF Room
    <3> QED BY <2>3, <2>4, <3>1 DEF Cancel, Types, Ids, lives
  <2>6. NodesKept'
    BY <1>1, NodesStay DEF Cancel
  <2>7. EventsOnce'
    BY <1>1, EventsStay DEF Cancel, SameFates
  <2>8. SentInOrder'
    <3>1. \A k \in DOMAIN mainQueue' :
             mainQueue'[k].type = "INIT" => k \in DOMAIN mainQueue /\ mainQueue'[k] = mainQueue[k]
      BY <2>1, <2>3
    <3>2. \A k, l \in DOMAIN mainQueue' :
             (k < l /\ mainQueue'[l].type = "INIT") =>
                 k \in DOMAIN mainQueue /\ mainQueue'[k] = mainQueue[k]
      BY <2>1, <2>3
    <3>3. \A k \in DOMAIN mainQueue' : mainQueue'[k].of \in Ids
      BY <2>1, <2>3 DEF SentInOrder
    <3>4. timeouts' = timeouts /\ Ids' = Ids
      BY DEF Cancel, Ids
    <3>5. \A k, l \in DOMAIN mainQueue' :
             (k < l /\ mainQueue'[l].type = "INIT") =>
                 /\ mainQueue'[k].type = "INIT" => mainQueue'[k].of < mainQueue'[l].of
                 /\ mainQueue'[k].type = "CANCEL" => mainQueue'[k].of # mainQueue'[l].of
      BY <3>1, <3>2 DEF SentInOrder
    <3> QED BY <3>1, <3>3, <3>4, <3>5 DEF SentInOrder
  <2>9. Pending(mainQueue') \subseteq Pending(mainQueue)
    BY <2>1, <2>3 DEF Pending
  <2>10. TablesSound'
    BY <1>1, <2>9, TablesStay DEF Cancel, SameCanceled
  <2> QED BY <2>5, <2>6, <2>7, <2>8, <2>10
<1> QED BY <1>2, <1>3 DEF Cancel

(* What the main thread knows of the message that it takes.                 *)
LEMMA PopFacts ==
    ASSUME IInv, mainQueue # <<>>, mainQueue' = Tail(mainQueue)
    PROVE  /\ mainQueue' \in Seq(Message) /\ Len(mainQueue') <= QueueSize
           /\ 1 \in DOMAIN mainQueue /\ Head(mainQueue) = mainQueue[1]
           /\ Head(mainQueue).of \in Ids
           /\ Pending(mainQueue') \subseteq Pending(mainQueue)
           /\ Head(mainQueue).type = "INIT" =>
                 \A u \in Pending(mainQueue') : Head(mainQueue).of < u
           /\ Head(mainQueue).type = "CANCEL" =>
                 \A u \in Pending(mainQueue') : Head(mainQueue).of # u
<1> USE DEF IInv
<1>1. /\ mainQueue' \in Seq(Message) /\ Len(mainQueue') = Len(mainQueue) - 1
      /\ \A k \in DOMAIN mainQueue' :
            k \in Nat \ {0} /\ k + 1 \in DOMAIN mainQueue /\ mainQueue'[k] = mainQueue[k + 1]
      /\ 1 \in DOMAIN mainQueue /\ Head(mainQueue) = mainQueue[1]
      /\ Len(mainQueue) \in Nat \ {0} /\ Len(mainQueue) <= QueueSize
  BY TailOf DEF Types
<1>2. Len(mainQueue') <= QueueSize
  BY <1>1, QueueAssumption
<1>3. Head(mainQueue).of \in Ids
  BY <1>1 DEF SentInOrder
<1>4. \A u \in Pending(mainQueue') :
         \E l \in DOMAIN mainQueue : 1 < l /\ mainQueue[l].type = "INIT" /\ mainQueue[l].of = u
  <2> TAKE u \in Pending(mainQueue')
  <2>1. PICK k \in DOMAIN mainQueue' : mainQueue'[k].type = "INIT" /\ mainQueue'[k].of = u
    BY DEF Pending
  <2>2. k + 1 \in DOMAIN mainQueue /\ 1 < k + 1 /\ mainQueue'[k] = mainQueue[k + 1]
    BY <1>1
  <2> QED BY <2>1, <2>2
<1>5. Pending(mainQueue') \subseteq Pending(mainQueue)
  BY <1>4 DEF Pending
<1>6. Head(mainQueue).type = "INIT" => \A u \in Pending(mainQueue') : Head(mainQueue).of < u
  BY <1>1, <1>4 DEF SentInOrder
<1>7. Head(mainQueue).type = "CANCEL" => \A u \in Pending(mainQueue') : Head(mainQueue).of # u
  BY <1>1, <1>4 DEF SentInOrder
<1> QED BY <1>1, <1>2, <1>3, <1>5, <1>6, <1>7

LEMMA DropStep == IInv /\ DropCanceled => IInv'
<1> SUFFICES ASSUME IInv, DropCanceled PROVE IInv'
  OBVIOUS
<1> USE DEF IInv
<1>1. mainQueue # <<>> /\ mainQueue' = Tail(mainQueue)
  BY DEF DropCanceled
<1>2. Keeps /\ SameResolved /\ SameFates(Ids) /\ SameCanceled(Ids) /\ armed \subseteq Ids
  BY UnchangedKeeps DEF DropCanceled, Types
<1>3. Types'
  BY <1>1, PopFacts DEF DropCanceled, Types, Ids, lives
<1>4. NodesKept'
  BY <1>2, NodesStay DEF DropCanceled
<1>5. EventsOnce'
  BY <1>2, EventsStay DEF DropCanceled, SameFates
<1>6. SentInOrder'
  BY <1>1, <1>2, SentTail DEF DropCanceled
<1>7. TablesSound'
  BY <1>1, <1>2, PopFacts, TablesStay DEF DropCanceled, SameCanceled
<1> QED BY <1>3, <1>4, <1>5, <1>6, <1>7


LEMMA ArmStep == ASSUME IInv, NEW t \in Ids, Arm(t) PROVE IInv'
<1> USE DEF IInv
<1>1. /\ mainQueue # <<>> /\ mainQueue' = Tail(mainQueue)
      /\ Head(mainQueue).type = "INIT" /\ Head(mainQueue).of = t
      /\ armed' = armed \cup {t} /\ timerEvents' = timerEvents \cup {t}
      /\ timerIds' = Emplace(timerIds, timeouts[t].index, t)
      /\ UNCHANGED <<nodes, freeNodes, queue>>
  BY DEF Arm, Pops
<1>2. /\ Keeps /\ SameResolved /\ SameFates(Ids \ {t}) /\ SameCanceled(Ids)
      /\ timeouts'[t].fate = "armed"
  BY BecomesKeeps DEF Arm, Fates
<1>3. /\ timeouts[t].fate = "sent" /\ ~ timeouts[t].canceled
      /\ timeouts[t].loop \/ timeouts[t].resolved = 0
      /\ t \in Pending(mainQueue)
      /\ \A u \in Pending(mainQueue') : t < u /\ u \in Pending(mainQueue)
      /\ mainQueue' \in Seq(Message) /\ Len(mainQueue') <= QueueSize
  BY <1>1, PopFacts DEF SentInOrder, Pending
<1>4. armed \subseteq Ids /\ timerEvents \subseteq Ids /\ Pending(mainQueue) \subseteq Ids
  BY DEF Types, SentInOrder, Pending
<1>5. Types'
  BY <1>1, <1>2, <1>3 DEF Arm, Types, Keeps, lives
<1>6. NodesKept'
  BY <1>1, <1>2, NodesStay
<1>7. EventsOnce'
  <2>1. \A u \in Ids : u = t => timeouts[u].fate # "fired"
    BY <1>3
  <2>2. \A u \in Ids : timeouts[u].fate = "fired" => timeouts'[u].fate = "fired"
    BY <1>2, <2>1 DEF SameFates
  <2>3. \A w \in Workers : \A k \in DOMAIN queue'[w] :
           LET u == queue'[w][k]
           IN  /\ u \in Ids' /\ timeouts'[u].owner = w
               /\ timeouts'[u].loop \/ (timeouts'[u].resolved = 0 /\ timeouts'[u].fate = "fired")
    BY <1>1, <1>2, <2>2 DEF EventsOnce, Keeps, SameResolved
  <2>4. \A w \in Workers : \A k, l \in DOMAIN queue'[w] :
           (queue'[w][k] = queue'[w][l] /\ ~ timeouts'[queue'[w][k]].loop) => k = l
    BY <1>1, <1>2 DEF EventsOnce, Keeps
  <2>5. \A u \in armed' :
            /\ timeouts'[u].fate # "sent"
            /\ timeouts'[u].loop \/ (timeouts'[u].resolved = 0 /\ timeouts'[u].fate = "armed")
    BY <1>1, <1>2, <1>3, <1>4 DEF EventsOnce, Keeps, SameResolved, SameFates
  <2> QED BY <2>3, <2>4, <2>5 DEF EventsOnce
<1>8. SentInOrder'
  <2>1. t \in Nat /\ \A u \in Ids : u \in Nat
    BY TimeoutFacts
  <2>2. \A u \in Pending(mainQueue') : u # t
    BY <1>3, <1>4, <2>1
  <2> QED BY <1>1, <1>2, <1>3, <1>4, <2>2, SentTail DEF SameFates, SameCanceled
<1>9. TablesSound'
  <2> DEFINE i == timeouts[t].index
  <2>1. \A j \in DOMAIN timerIds :
            /\ timerIds[j] \in timerEvents /\ timerIds[j] \in Ids
            /\ timeouts[timerIds[j]].index = j
            /\ \A u \in Pending(mainQueue) : timerIds[j] < u
    BY <1>4 DEF TablesSound, Pending
  <2>2. /\ DOMAIN timerIds' = DOMAIN timerIds \cup {i}
        /\ \A j \in DOMAIN timerIds : timerIds'[j] = timerIds[j]
        /\ i \notin DOMAIN timerIds => timerIds'[i] = t
    BY <1>1 DEF Emplace
  <2>3. \A j \in DOMAIN timerIds' :
            /\ timerIds'[j] \in timerEvents' /\ timerIds'[j] \in Ids
            /\ timeouts[timerIds'[j]].index = j
            /\ \A u \in Pending(mainQueue') : timerIds'[j] < u
    BY <1>1, <1>3, <2>1, <2>2
  <2>4. \A j \in DOMAIN timerIds' :
            /\ timerIds'[j] \in timerEvents' /\ timeouts'[timerIds'[j]].index = j
            /\ \A k \in DOMAIN mainQueue' :
                  mainQueue'[k].type = "INIT" => timerIds'[j] < mainQueue'[k].of
    BY <1>2, <2>3 DEF Keeps, Pending
  <2>5. IsFirst(t) => i \notin DOMAIN timerIds
    <3>1. ASSUME i \in DOMAIN timerIds
          PROVE  timerIds[i] \in 1 .. t - 1 /\ timeouts[timerIds[i]].index = i
      <4>1. timerIds[i] \in Ids /\ timerIds[i] < t /\ timeouts[timerIds[i]].index = i
        BY <1>3, <2>1, <3>1
      <4>2. timerIds[i] \in Nat \ {0} /\ t \in Nat
        BY <4>1, TimeoutFacts
      <4> QED BY <4>1, <4>2
    <3> QED BY <3>1 DEF IsFirst
  <2>6. ASSUME NEW u \in armed', IsFirst(u)'
        PROVE  /\ ~ timeouts'[u].canceled
               /\ timeouts'[u].index \in DOMAIN timerIds'
               /\ timerIds'[timeouts'[u].index] = u
    <3>1. u \in Ids /\ IsFirst(u) /\ timeouts'[u].index = timeouts[u].index
          /\ timeouts'[u].canceled = timeouts[u].canceled
      BY <1>1, <1>2, <1>4, <2>6, FirstStays DEF Keeps, SameCanceled
    <3>2. CASE u = t
      BY <1>3, <2>2, <2>5, <3>1, <3>2
    <3>3. CASE u \in armed
      BY <2>2, <3>1, <3>3 DEF TablesSound
    <3> QED BY <1>1, <3>2, <3>3
  <2>7. armed' \subseteq timerEvents'
    BY <1>1 DEF TablesSound
  <2> QED BY <2>4, <2>6, <2>7 DEF TablesSound
<1> QED BY <1>5, <1>6, <1>7, <1>8, <1>9

LEMMA NoTimerStep == ASSUME IInv, NEW t \in Ids, NoTimer(t) PROVE IInv'
<1> USE DEF IInv
<1>1. /\ mainQueue # <<>> /\ mainQueue' = Tail(mainQueue)
      /\ Head(mainQueue).type = "INIT" /\ Head(mainQueue).of = t
      /\ UNCHANGED <<nodes, freeNodes, queue, armed, timerEvents, timerIds>>
  BY DEF NoTimer, Pops
<1>2. Keeps /\ SameResolved /\ SameFates(Ids \ {t}) /\ SameCanceled(Ids)
  <2>1. PICK why \in {"late", "untimed"} : Becomes(t, why)
    BY DEF NoTimer
  <2> QED BY <2>1, BecomesKeeps DEF Fates
<1>3. /\ timeouts[t].fate = "sent"
      /\ \A u \in Pending(mainQueue') : t < u /\ u \in Pending(mainQueue)
      /\ mainQueue' \in Seq(Message) /\ Len(mainQueue') <= QueueSize
  BY <1>1, PopFacts DEF SentInOrder
<1>4. armed \subseteq Ids /\ Pending(mainQueue) \subseteq Ids /\ t \notin armed
  BY <1>3 DEF Types, SentInOrder, Pending, EventsOnce
<1>5. Types'
  BY <1>1, <1>2, <1>3 DEF NoTimer, Types, Keeps, lives
<1>6. NodesKept'
  BY <1>1, <1>2, NodesStay
<1>7. EventsOnce'
  BY <1>1, <1>2, <1>3, <1>4, EventsStay DEF SameFates
<1>8. SentInOrder'
  <2>1. t \in Nat /\ \A u \in Ids : u \in Nat
    BY TimeoutFacts
  <2>2. \A u \in Pending(mainQueue') : u # t
    BY <1>3, <1>4, <2>1
  <2> QED BY <1>1, <1>2, <1>3, <1>4, <2>2, SentTail DEF SameFates, SameCanceled
<1>9. TablesSound'
  BY <1>1, <1>2, <1>3, <1>4, TablesStay DEF SameCanceled
<1> QED BY <1>5, <1>6, <1>7, <1>8, <1>9

(* Fire(t), when the queue of the worker takes the event and when not. *)
FireTakes(t, fits) ==
    /\ t \in armed
    /\ Takes(queue[timeouts[t].owner], timeouts[t].owner, fits)
    /\ queue' = [queue EXCEPT ![timeouts[t].owner] = IF fits THEN Append(@, t) ELSE @]
    /\ armed' = IF ~ timeouts[t].loop THEN armed \ {t} ELSE armed
    /\ Becomes(t, IF ~ fits THEN "lost"
                  ELSE IF ~ timeouts[t].loop THEN "fired" ELSE timeouts[t].fate)
    /\ UNCHANGED <<nodes, freeNodes, mainQueue, timerEvents, timerIds, cancels, lives>>

LEMMA FireStep == ASSUME IInv, NEW t \in Ids, Fire(t) PROVE IInv'
<1> USE DEF IInv
<1>0. PICK fits \in BOOLEAN : FireTakes(t, fits)
  BY DEF Fire, FireTakes
<1> DEFINE w == timeouts[t].owner
           full == ~ fits
           fate == IF full THEN "lost" ELSE IF ~ timeouts[t].loop THEN "fired" ELSE timeouts[t].fate
<1>1. /\ t \in armed /\ UNCHANGED <<nodes, freeNodes, mainQueue, timerEvents, timerIds, cancels>>
      /\ queue' = [queue EXCEPT ![w] = IF full THEN @ ELSE Append(@, t)]
      /\ armed' = IF ~ timeouts[t].loop THEN armed \ {t} ELSE armed
      /\ Becomes(t, fate) /\ UNCHANGED lives
  BY <1>0 DEF FireTakes
<1>2. /\ timeouts[t].fate # "sent" /\ w \in Workers /\ fate \in Fates
      /\ timeouts[t].loop \/ (timeouts[t].resolved = 0 /\ timeouts[t].fate = "armed")
  BY <1>1, TimeoutFacts DEF EventsOnce, Fates
<1>3. fate # "sent"
  BY <1>2
<1>4. /\ Keeps /\ SameResolved /\ SameFates(Ids \ {t}) /\ SameCanceled(Ids)
      /\ timeouts'[t].fate = fate
  BY <1>1, <1>2, BecomesKeeps
<1>5. (~ timeouts[t].loop => fate = IF full THEN "lost" ELSE "fired") /\ w = timeouts[t].owner
  OBVIOUS
<1>6. armed' \subseteq armed /\ armed \subseteq Ids /\ (timeouts[t].loop \/ t \notin armed')
  BY <1>1 DEF Types
<1>7. /\ queue[w] \in Seq(Nat) /\ Len(queue[w]) <= QueueSize /\ Len(queue[w]) \in Nat
      /\ t \in Nat
  BY <1>2, TimeoutFacts DEF Types
<1>8. queue \in [Workers -> Seq(Nat)]
  BY DEF Types
<1>9. /\ \A v \in Workers \ {w} : queue'[v] = queue[v]
      /\ full => queue'[w] = queue[w]
      /\ ~ full => queue'[w] = Append(queue[w], t)
      /\ ~ full => Len(queue[w]) < QueueSize
  BY <1>0, <1>1, <1>2, <1>8 DEF FireTakes, Takes, Room
<1> HIDE DEF fate, full, w
<1>10. /\ Append(queue[w], t) \in Seq(Nat) /\ Len(Append(queue[w], t)) = Len(queue[w]) + 1
       /\ DOMAIN Append(queue[w], t) = DOMAIN queue[w] \cup {Len(queue[w]) + 1}
       /\ \A k \in DOMAIN queue[w] : Append(queue[w], t)[k] = queue[w][k]
       /\ Append(queue[w], t)[Len(queue[w]) + 1] = t
       /\ DOMAIN queue[w] = 1 .. Len(queue[w])
  BY <1>7, AppendTo
<1>11. Types'
  <2>1. \A v \in Workers : queue'[v] \in Seq(Nat) /\ Len(queue'[v]) <= QueueSize
    <3>1. queue'[w] \in Seq(Nat) /\ Len(queue'[w]) <= QueueSize
      <4>1. CASE full
        BY <1>7, <1>9, <4>1
      <4>2. CASE ~ full
        <5>1. Len(queue'[w]) = Len(queue[w]) + 1 /\ Len(queue[w]) < QueueSize
          BY <1>9, <1>10, <4>2
        <5>2. Len(queue'[w]) <= QueueSize
          BY <1>7, <5>1, QueueAssumption
        <5>3. queue'[w] \in Seq(Nat)
          BY <1>9, <1>10, <4>2
        <5> QED BY <5>2, <5>3
      <4> QED BY <4>1, <4>2
    <3> QED BY <1>9, <3>1 DEF Types
  <2>2. queue' \in [Workers -> Seq(Nat)]
    BY <1>1, <1>8, <2>1
  <2> QED BY <1>1, <1>4, <1>6, <2>1, <2>2 DEF Types, Keeps, lives
<1>12. NodesKept'
  BY <1>1, <1>4, NodesStay
<1>13. EventsOnce'
  <2>1. \A v \in Workers : \A k \in DOMAIN queue'[v] :
            \/ k \in DOMAIN queue[v] /\ queue'[v][k] = queue[v][k]
            \/ ~ full /\ v = w /\ k = Len(queue[w]) + 1 /\ queue'[v][k] = t
    BY <1>9, <1>10
  <2>2. ~ timeouts[t].loop => \A v \in Workers : \A k \in DOMAIN queue[v] : queue[v][k] # t
    BY <1>2 DEF EventsOnce
  <2>3. ASSUME NEW v \in Workers, NEW k \in DOMAIN queue'[v]
        PROVE  /\ queue'[v][k] \in Ids /\ timeouts[queue'[v][k]].owner = v
               /\ \/ timeouts[queue'[v][k]].loop
                  \/ /\ timeouts[queue'[v][k]].resolved = 0
                     /\ timeouts'[queue'[v][k]].fate = "fired"
    <3>1. CASE k \in DOMAIN queue[v] /\ queue'[v][k] = queue[v][k]
      BY <1>4, <2>2, <3>1 DEF EventsOnce, SameFates
    <3>2. CASE ~ full /\ v = w /\ queue'[v][k] = t
      BY <1>2, <1>4, <1>5, <3>2
    <3> QED BY <2>1, <3>1, <3>2
  <2>4. \A v \in Workers : \A k, l \in DOMAIN queue'[v] :
           (queue'[v][k] = queue'[v][l] /\ ~ timeouts[queue'[v][k]].loop) => k = l
    BY <2>1, <2>2 DEF EventsOnce
  <2>5. \A u \in armed' :
            /\ timeouts'[u].fate # "sent"
            /\ timeouts'[u].loop \/ (timeouts'[u].resolved = 0 /\ timeouts'[u].fate = "armed")
    BY <1>3, <1>4, <1>6 DEF EventsOnce, Keeps, SameResolved, SameFates
  <2>6. \A v \in Workers : \A k \in DOMAIN queue'[v] :
            LET u == queue'[v][k]
            IN  /\ u \in Ids' /\ timeouts'[u].owner = v
                /\ timeouts'[u].loop \/ (timeouts'[u].resolved = 0 /\ timeouts'[u].fate = "fired")
    BY <1>4, <2>3 DEF Keeps, SameResolved
  <2>7. \A v \in Workers : \A k, l \in DOMAIN queue'[v] :
           (queue'[v][k] = queue'[v][l] /\ ~ timeouts'[queue'[v][k]].loop) => k = l
    BY <1>4, <2>3, <2>4 DEF Keeps
  <2> QED BY <2>5, <2>6, <2>7 DEF EventsOnce
<1>14. SentInOrder'
  <2>1. \A u \in Pending(mainQueue) : u \in Ids /\ u # t
    BY <1>2 DEF SentInOrder, Pending
  <2> QED BY <1>1, <1>4, <2>1, SentStay DEF SameFates, SameCanceled, SameResolved
<1>15. TablesSound'
  BY <1>1, <1>4, <1>6, TablesStay DEF SameCanceled
<1> QED BY <1>11, <1>12, <1>13, <1>14, <1>15


(* What a cancel() does to the timeouts: t is marked, id may lose its timer. *)
CanceledIn(p, t, id, fate) ==
    /\ p \in Seq(Timeout) /\ Len(p) = Len(timeouts) /\ DOMAIN p = Ids
    /\ \A u \in Ids : /\ p[u].owner = timeouts[u].owner
                      /\ p[u].index = timeouts[u].index
                      /\ p[u].loop = timeouts[u].loop
                      /\ p[u].resolved = timeouts[u].resolved
                      /\ p[u].fate = IF u = id THEN fate ELSE timeouts[u].fate
                      /\ u # t => p[u].canceled = timeouts[u].canceled

LEMMA CanceledTimeouts ==
    ASSUME Types, NEW t \in Ids, NEW id \in Ids, NEW fate \in Fates
    PROVE  CanceledIn([timeouts EXCEPT ![t].canceled = TRUE, ![id].fate = fate], t, id, fate)
<1> DEFINE r == [timeouts[t] EXCEPT !.canceled = TRUE]
<1>1. timeouts[t] \in Timeout /\ timeouts \in Seq(Timeout) /\ t \in DOMAIN timeouts
      /\ DOMAIN timeouts = Ids
  BY TimeoutFacts DEF Types, Ids
<1>2. /\ r \in Timeout /\ r.fate = timeouts[t].fate /\ r.owner = timeouts[t].owner
      /\ r.index = timeouts[t].index /\ r.loop = timeouts[t].loop
      /\ r.resolved = timeouts[t].resolved
  BY <1>1 DEF Timeout
<1> DEFINE q == [timeouts EXCEPT ![t] = r]
<1> HIDE DEF r
<1>3. q \in Seq(Timeout) /\ Len(q) = Len(timeouts) /\ DOMAIN q = Ids
  BY <1>1, <1>2, ExceptOf
<1>4. \A u \in Ids : q[u] = IF u = t THEN r ELSE timeouts[u]
  BY <1>1
<1> DEFINE s == [q[id] EXCEPT !.fate = fate]
           p == [q EXCEPT ![id] = s]
<1>5. p = [timeouts EXCEPT ![t].canceled = TRUE, ![id].fate = fate]
  BY <1>1 DEF r
<1> HIDE DEF q
<1>6. q[id] \in Timeout
  BY <1>3
<1>7. /\ s \in Timeout /\ s.owner = q[id].owner /\ s.index = q[id].index
      /\ s.loop = q[id].loop /\ s.resolved = q[id].resolved /\ s.canceled = q[id].canceled
      /\ s.fate = fate
  BY <1>6 DEF Timeout
<1> HIDE DEF s
<1>8. p \in Seq(Timeout) /\ Len(p) = Len(timeouts) /\ DOMAIN p = Ids
  BY <1>3, <1>7, ExceptOf
<1>9. \A u \in Ids : p[u] = IF u = id THEN s ELSE q[u]
  BY <1>3
<1> HIDE DEF p
<1>10. \A u \in Ids : /\ p[u].owner = timeouts[u].owner
                      /\ p[u].index = timeouts[u].index
                      /\ p[u].loop = timeouts[u].loop
                      /\ p[u].resolved = timeouts[u].resolved
                      /\ p[u].fate = IF u = id THEN fate ELSE timeouts[u].fate
                      /\ u # t => p[u].canceled = timeouts[u].canceled
  BY <1>2, <1>4, <1>7, <1>9
<1>11. CanceledIn(p, t, id, fate)
  BY <1>8, <1>10 DEF CanceledIn
<1> QED BY <1>5, <1>11

LEMMA CanceledKeeps ==
    ASSUME Types, NEW t \in Ids, NEW id \in Ids, NEW fate \in Fates,
           CanceledIn(timeouts', t, id, fate)
    PROVE  /\ Keeps /\ SameResolved /\ SameFates(Ids \ {id}) /\ SameCanceled(Ids \ {t})
           /\ timeouts'[id].fate = fate
<1>1. Ids' = Ids
  BY DEF CanceledIn, Ids
<1> QED BY <1>1 DEF CanceledIn, Keeps, SameResolved, SameFates, SameCanceled

LEMMA Amended ==
    ASSUME Types, NEW t \in Ids, NEW r \in Timeout, r.owner = timeouts[t].owner,
           r.index = timeouts[t].index, r.loop = timeouts[t].loop,
           timeouts' = [timeouts EXCEPT ![t] = r]
    PROVE  /\ Keeps /\ timeouts'[t] = r
           /\ \A u \in Ids \ {t} : timeouts'[u] = timeouts[u]
<1>1. timeouts \in Seq(Timeout) /\ t \in DOMAIN timeouts
  BY DEF Types, Ids
<1>2. timeouts' \in Seq(Timeout) /\ Len(timeouts') = Len(timeouts) /\ Ids' = Ids
  BY <1>1, ExceptOf DEF Ids
<1>3. \A u \in Ids : timeouts'[u] = IF u = t THEN r ELSE timeouts[u]
  BY <1>1 DEF Ids
<1> QED BY <1>2, <1>3 DEF Keeps

LEMMA OnlyCanceledKeeps ==
    ASSUME Types, NEW t \in Ids, timeouts' = [timeouts EXCEPT ![t].canceled = TRUE]
    PROVE  Keeps /\ SameResolved /\ SameFates(Ids) /\ SameCanceled(Ids \ {t})
<1> DEFINE r == [timeouts[t] EXCEPT !.canceled = TRUE]
<1>1. timeouts[t] \in Timeout
  BY TimeoutFacts
<1>2. /\ r \in Timeout /\ r.fate = timeouts[t].fate /\ r.owner = timeouts[t].owner
      /\ r.index = timeouts[t].index /\ r.loop = timeouts[t].loop
      /\ r.resolved = timeouts[t].resolved
  BY <1>1 DEF Timeout
<1>3. timeouts' = [timeouts EXCEPT ![t] = r]
  OBVIOUS
<1> HIDE DEF r
<1>4. /\ Keeps /\ timeouts'[t] = r
      /\ \A u \in Ids \ {t} : timeouts'[u] = timeouts[u]
  BY <1>2, <1>3, Amended
<1> QED BY <1>2, <1>4 DEF SameResolved, SameFates, SameCanceled

LEMMA DisarmStep == ASSUME IInv, NEW t \in Ids, Disarm(t) PROVE IInv'
<1> USE DEF IInv
<1> DEFINE i == timeouts[t].index
           id == timerIds[i]
           known == i \in DOMAIN timerIds
           fate == IF id \in armed THEN "killed" ELSE timeouts[id].fate
<1>1. /\ mainQueue # <<>> /\ mainQueue' = Tail(mainQueue)
      /\ Head(mainQueue).type = "CANCEL" /\ Head(mainQueue).of = t
      /\ UNCHANGED <<nodes, freeNodes, queue, cancels, lives>>
  BY DEF Disarm, Pops
<1>2. known => /\ timeouts' = [timeouts EXCEPT ![t].canceled = TRUE, ![id].fate = fate]
               /\ armed' = armed \ {id} /\ timerEvents' = timerEvents \ {id}
               /\ timerIds' = [j \in DOMAIN timerIds \ {i} |-> timerIds[j]]
  BY DEF Disarm, Restrict
<1>3. ~ known => /\ timeouts' = [timeouts EXCEPT ![t].canceled = TRUE]
                 /\ UNCHANGED <<armed, timerEvents, timerIds>>
  BY DEF Disarm
<1>4. armed \subseteq Ids /\ timerEvents \subseteq Ids /\ Pending(mainQueue) \subseteq Ids
  BY DEF Types, SentInOrder, Pending
<1>5. \A j \in DOMAIN timerIds :
          /\ timerIds[j] \in timerEvents /\ timerIds[j] \in Ids
          /\ timeouts[timerIds[j]].index = j
          /\ \A u \in Pending(mainQueue) : timerIds[j] < u
  BY <1>4 DEF TablesSound, Pending
<1>6. /\ \A u \in Pending(mainQueue') : u # t /\ u \in Pending(mainQueue)
      /\ mainQueue' \in Seq(Message) /\ Len(mainQueue') <= QueueSize
  BY <1>1, PopFacts
<1>7. known => id \in Ids /\ fate \in Fates /\ (id \notin armed => fate = timeouts[id].fate)
  BY <1>5, TimeoutFacts DEF Fates
<1> HIDE DEF fate, i
<1>8. /\ Keeps /\ SameResolved /\ SameCanceled(Ids \ {t})
      /\ known => SameFates(Ids \ {id}) /\ timeouts'[id].fate = fate
      /\ ~ known => SameFates(Ids)
  <2>1. CASE known
    <3> HIDE DEF id
    <3>1. timeouts' = [timeouts EXCEPT ![t].canceled = TRUE, ![id].fate = fate]
      BY <1>2, <2>1
    <3>2. CanceledIn([timeouts EXCEPT ![t].canceled = TRUE, ![id].fate = fate], t, id, fate)
      BY <1>7, <2>1, CanceledTimeouts
    <3>3. CanceledIn(timeouts', t, id, fate)
      BY <3>1, <3>2, Zenon
    <3> QED BY <1>7, <2>1, <3>3, CanceledKeeps
  <2>2. CASE ~ known
    BY <1>3, <2>2, OnlyCanceledKeeps DEF SameFates
  <2> QED BY <2>1, <2>2
<1>9. \A u \in Ids : timeouts'[u].fate # timeouts[u].fate =>
                        known /\ u = id /\ u \in armed
  <2> TAKE u \in Ids
  <2>1. ~ known => timeouts'[u].fate = timeouts[u].fate
    BY <1>8 DEF SameFates
  <2>2. (known /\ u # id) => timeouts'[u].fate = timeouts[u].fate
    BY <1>8 DEF SameFates
  <2>3. (known /\ id \notin armed) => timeouts'[id].fate = timeouts[id].fate
    BY <1>7, <1>8
  <2> QED BY <2>1, <2>2, <2>3
<1>10. armed' \subseteq armed /\ armed' \subseteq Ids /\ timerEvents' \subseteq Ids
  BY <1>2, <1>3, <1>4
<1>11. known => id \notin armed'
  BY <1>2
<1>12. Types'
  BY <1>1, <1>6, <1>8, <1>10 DEF Types, Keeps, lives
<1>13. NodesKept'
  BY <1>1, <1>8, NodesStay
<1>14. EventsOnce'
  <2>1. SameFates(armed')
    BY <1>9, <1>10, <1>11 DEF SameFates
  <2>2. \A u \in Ids : (timeouts[u].fate = "fired" /\ ~ timeouts[u].loop) =>
                            timeouts'[u].fate = "fired"
    BY <1>9 DEF EventsOnce
  <2> QED BY <1>1, <1>4, <1>8, <1>10, <2>1, <2>2, EventsStay
<1>15. SentInOrder'
  <2>1. \A u \in Pending(mainQueue') : u \in Ids /\ timeouts[u].fate = "sent" /\ u # t
    BY <1>4, <1>6 DEF SentInOrder, Pending
  <2>2. \A u \in Pending(mainQueue') : /\ timeouts'[u].fate = timeouts[u].fate
                                       /\ timeouts'[u].canceled = timeouts[u].canceled
    BY <1>8, <1>9, <2>1 DEF EventsOnce, SameCanceled
  <2> QED BY <1>1, <1>8, <2>2, SentTail
<1>16. TablesSound'
  <2>1. \A j \in DOMAIN timerIds' : j \in DOMAIN timerIds /\ timerIds'[j] = timerIds[j]
                                    /\ (known => j # i)
    BY <1>2, <1>3
  <2>2. \A j \in DOMAIN timerIds' :
            /\ timerIds'[j] \in timerEvents' /\ timeouts'[timerIds'[j]].index = j
            /\ \A k \in DOMAIN mainQueue' :
                  mainQueue'[k].type = "INIT" => timerIds'[j] < mainQueue'[k].of
    <3> TAKE j \in DOMAIN timerIds'
    <3>1. known => timerIds[j] # id
      BY <1>5, <2>1
    <3>2. timerIds'[j] \in timerEvents'
      BY <1>2, <1>3, <1>5, <2>1, <3>1
    <3>3. timeouts'[timerIds'[j]].index = j
      BY <1>5, <1>8, <2>1 DEF Keeps
    <3>4. \A u \in Pending(mainQueue') : timerIds'[j] < u
      BY <1>5, <1>6, <2>1
    <3> QED BY <3>2, <3>3, <3>4 DEF Pending
  <2>3. ASSUME NEW u \in armed', IsFirst(u)'
        PROVE  /\ ~ timeouts'[u].canceled
               /\ timeouts'[u].index \in DOMAIN timerIds'
               /\ timerIds'[timeouts'[u].index] = u
    <3>1. u \in Ids /\ u \in armed /\ IsFirst(u) /\ timeouts'[u].index = timeouts[u].index
      BY <1>8, <1>10, <2>3, FirstStays DEF Keeps
    <3>2. /\ ~ timeouts[u].canceled /\ timeouts[u].index \in DOMAIN timerIds
          /\ timerIds[timeouts[u].index] = u
      BY <3>1 DEF TablesSound
    <3>3. u # t /\ (known => timeouts[u].index # i)
      BY <1>11, <2>3, <3>2 DEF i
    <3>4. timeouts'[u].canceled = timeouts[u].canceled
      BY <1>8, <3>1, <3>3 DEF SameCanceled
    <3>5. timeouts[u].index \in DOMAIN timerIds'
      BY <1>2, <1>3, <3>2, <3>3
    <3> QED BY <2>1, <3>1, <3>2, <3>4, <3>5
  <2>4. armed' \subseteq timerEvents'
    BY <1>2, <1>3 DEF TablesSound
  <2> QED BY <2>2, <2>3, <2>4 DEF TablesSound
<1> QED BY <1>12, <1>13, <1>14, <1>15, <1>16


(* The event at the head of a worker's queue finds its own timeout.         *)
LEMMA HeadFindsItsTimeout ==
    ASSUME IInv, NEW w \in Workers, queue[w] # <<>>
    PROVE  LET t == Head(queue[w])
           IN  /\ t \in Ids /\ timeouts[t].owner = w /\ nodes[w][timeouts[t].index] = t
               /\ timeouts[t].loop \/ (timeouts[t].resolved = 0 /\ timeouts[t].fate = "fired")
               /\ 1 \in DOMAIN queue[w] /\ queue[w][1] = t
<1> USE DEF IInv
<1>1. PICK q : q = queue[w]
  OBVIOUS
<1>2. q \in Seq(Nat) /\ q # <<>>
  BY <1>1 DEF Types
<1>3. 1 \in DOMAIN q /\ Head(q) = q[1]
  BY <1>2, TailOf
<1>4. /\ q[1] \in Ids /\ timeouts[q[1]].owner = w
      /\ timeouts[q[1]].loop \/ (timeouts[q[1]].resolved = 0 /\ timeouts[q[1]].fate = "fired")
  BY <1>1, <1>3 DEF EventsOnce
<1>5. nodes[w][timeouts[q[1]].index] = q[1]
  BY <1>4 DEF NodesKept
<1> QED BY <1>1, <1>3, <1>4, <1>5

LEMMA ResolveStep == ASSUME IInv, NEW w \in Workers, Resolve(w) PROVE IInv'
<1> USE DEF IInv
<1>1. PICK t : t = Head(queue[w])
  OBVIOUS
<1>2. PICK i : i = timeouts[t].index
  OBVIOUS
<1>3. queue[w] # <<>>
  BY DEF Resolve
<1>4. /\ t \in Ids /\ timeouts[t].owner = w /\ nodes[w][i] = t
      /\ timeouts[t].loop \/ (timeouts[t].resolved = 0 /\ timeouts[t].fate = "fired")
      /\ 1 \in DOMAIN queue[w] /\ queue[w][1] = t
  BY <1>1, <1>2, <1>3, HeadFindsItsTimeout
<1>5. PICK n : n = IF timeouts[t].resolved < 2 THEN timeouts[t].resolved + 1
                   ELSE timeouts[t].resolved
  OBVIOUS
<1>6. n \in Nat /\ (timeouts[t].resolved = 0 => n = 1) /\ timeouts[t].loop \in BOOLEAN
  BY <1>4, <1>5, TimeoutFacts
<1>7. /\ timeouts' = [timeouts EXCEPT ![t].resolved = n]
      /\ freeNodes' = [freeNodes EXCEPT ![w] = IF timeouts[t].loop THEN @ ELSE Append(@, i)]
      /\ queue' = [queue EXCEPT ![w] = Tail(@)]
      /\ UNCHANGED <<nodes, mainQueue, armed, timerEvents, timerIds, cancels, lives>>
  BY <1>1, <1>2, <1>4, <1>5 DEF Resolve
<1>8. /\ Keeps /\ SameFates(Ids) /\ SameCanceled(Ids)
      /\ timeouts'[t].resolved = n
      /\ \A u \in Ids \ {t} : timeouts'[u].resolved = timeouts[u].resolved
  <2> DEFINE r == [timeouts[t] EXCEPT !.resolved = n]
  <2>1. timeouts[t] \in Timeout
    BY <1>4, TimeoutFacts
  <2>2. /\ r \in Timeout /\ r.fate = timeouts[t].fate /\ r.owner = timeouts[t].owner
        /\ r.index = timeouts[t].index /\ r.loop = timeouts[t].loop
        /\ r.canceled = timeouts[t].canceled /\ r.resolved = n
    BY <1>6, <2>1 DEF Timeout
  <2>3. timeouts' = [timeouts EXCEPT ![t] = r]
    BY <1>7
  <2> HIDE DEF r
  <2>4. /\ Keeps /\ timeouts'[t] = r
        /\ \A u \in Ids \ {t} : timeouts'[u] = timeouts[u]
    BY <1>4, <2>2, <2>3, Amended
  <2> QED BY <2>2, <2>4 DEF SameFates, SameCanceled
<1>9. /\ queue[w] \in Seq(Nat) /\ Len(queue[w]) <= QueueSize
      /\ freeNodes[w] \in Seq(Nat) /\ i \in Nat
      /\ queue \in [Workers -> Seq(Nat)] /\ freeNodes \in [Workers -> Seq(Nat)]
  BY <1>2, <1>4, TimeoutFacts DEF Types
<1>10. PICK q, f : q = queue[w] /\ f = freeNodes[w]
  OBVIOUS
<1>11. /\ Tail(q) \in Seq(Nat) /\ Len(Tail(q)) = Len(q) - 1
       /\ \A k \in DOMAIN Tail(q) :
             k \in Nat \ {0} /\ k + 1 \in DOMAIN q /\ Tail(q)[k] = q[k + 1]
       /\ Len(q) \in Nat \ {0}
  BY <1>3, <1>9, <1>10, TailOf
<1>12. /\ Append(f, i) \in Seq(Nat)
       /\ DOMAIN Append(f, i) = DOMAIN f \cup {Len(f) + 1}
       /\ \A k \in DOMAIN f : Append(f, i)[k] = f[k]
       /\ Append(f, i)[Len(f) + 1] = i
       /\ DOMAIN f = 1 .. Len(f) /\ Len(f) \in Nat
  BY <1>9, <1>10, AppendTo
<1>13. PICK tq, g : tq = Tail(q) /\ g = IF timeouts[t].loop THEN f ELSE Append(f, i)
  OBVIOUS
<1>14. /\ \A v \in Workers : queue'[v] = IF v = w THEN tq ELSE queue[v]
       /\ \A v \in Workers : freeNodes'[v] = IF v = w THEN g ELSE freeNodes[v]
       /\ queue' = [queue EXCEPT ![w] = tq] /\ freeNodes' = [freeNodes EXCEPT ![w] = g]
  BY <1>7, <1>9, <1>10, <1>13
<1>15. /\ tq \in Seq(Nat) /\ g \in Seq(Nat) /\ Len(tq) <= QueueSize
       /\ \A k \in DOMAIN tq : k \in Nat \ {0} /\ k + 1 \in DOMAIN q /\ tq[k] = q[k + 1]
       /\ \A k \in DOMAIN g : (k \in DOMAIN f /\ g[k] = f[k]) \/ (k = Len(f) + 1 /\ g[k] = i)
       /\ timeouts[t].loop => g = f
  <2>1. Len(tq) <= QueueSize
    BY <1>9, <1>10, <1>11, <1>13, QueueAssumption
  <2>2. tq \in Seq(Nat) /\ g \in Seq(Nat)
    BY <1>9, <1>10, <1>11, <1>12, <1>13
  <2> QED BY <1>11, <1>12, <1>13, <2>1, <2>2
<1>16. Types'
  <2>1. \A v \in Workers : /\ queue'[v] \in Seq(Nat) /\ Len(queue'[v]) <= QueueSize
                           /\ freeNodes'[v] \in Seq(Nat)
    BY <1>14, <1>15 DEF Types
  <2>2. queue' \in [Workers -> Seq(Nat)] /\ freeNodes' \in [Workers -> Seq(Nat)]
    BY <1>9, <1>14, <1>15
  <2> QED BY <1>7, <1>8, <2>1, <2>2 DEF Types, Keeps, lives
<1>17. NodesKept'
  <2>1. i \in DOMAIN nodes[w]
    BY <1>2, <1>4 DEF NodesKept
  <2>2. \A k \in DOMAIN f : f[k] # i
    BY <1>2, <1>4, <1>10 DEF NodesKept
  <2>3. \A k \in DOMAIN g : g[k] \in DOMAIN nodes[w]
    BY <1>10, <1>15, <2>1 DEF NodesKept
  <2>4. \A k, l \in DOMAIN g : g[k] = g[l] => k = l
    BY <1>10, <1>15, <2>2 DEF NodesKept
  <2>5. \A u \in Ids' : timeouts'[u].index \in DOMAIN nodes'[timeouts'[u].owner]
    BY <1>7, <1>8 DEF NodesKept, Keeps
  <2>6. \A v \in Workers :
            /\ \A k \in DOMAIN nodes'[v] : nodes'[v][k] \in Ids'
            /\ \A k \in DOMAIN freeNodes'[v] : freeNodes'[v][k] \in DOMAIN nodes'[v]
            /\ \A k, l \in DOMAIN freeNodes'[v] : freeNodes'[v][k] = freeNodes'[v][l] => k = l
    BY <1>7, <1>8, <1>14, <2>3, <2>4 DEF NodesKept, Keeps
  <2>7. ASSUME NEW u \in Ids, timeouts'[u].loop \/ timeouts'[u].resolved = 0
        PROVE  /\ nodes[timeouts[u].owner][timeouts[u].index] = u
               /\ \A k \in DOMAIN freeNodes'[timeouts[u].owner] :
                     freeNodes'[timeouts[u].owner][k] # timeouts[u].index
    <3>1. timeouts[u].loop \/ (u # t /\ timeouts[u].resolved = 0)
      BY <1>4, <1>6, <1>8, <2>7 DEF Keeps
    <3>2. /\ nodes[timeouts[u].owner][timeouts[u].index] = u
          /\ \A k \in DOMAIN freeNodes[timeouts[u].owner] :
                freeNodes[timeouts[u].owner][k] # timeouts[u].index
      BY <3>1 DEF NodesKept
    <3>3. timeouts[u].owner = w =>
              \A k \in DOMAIN g : g[k] # timeouts[u].index
      BY <1>4, <1>10, <1>15, <3>1, <3>2
    <3>4. timeouts[u].owner \in Workers
      BY TimeoutFacts
    <3> QED BY <1>14, <3>2, <3>3, <3>4
  <2>8. \A u \in Ids' :
          (timeouts'[u].loop \/ timeouts'[u].resolved = 0) =>
              /\ nodes'[timeouts'[u].owner][timeouts'[u].index] = u
              /\ \A k \in DOMAIN freeNodes'[timeouts'[u].owner] :
                    freeNodes'[timeouts'[u].owner][k] # timeouts'[u].index
    <3> TAKE u \in Ids'
    <3>1. u \in Ids /\ nodes' = nodes /\ timeouts'[u].owner = timeouts[u].owner
          /\ timeouts'[u].index = timeouts[u].index
      BY <1>7, <1>8 DEF Keeps
    <3> QED BY <2>7, <3>1
  <2>9. \A u \in Ids' : timeouts'[u].loop \/ timeouts'[u].resolved <= 1
    BY <1>4, <1>6, <1>8 DEF NodesKept, Keeps
  <2> QED BY <2>5, <2>6, <2>8, <2>9 DEF NodesKept
<1>18. EventsOnce'
  <2>1. /\ \A k \in DOMAIN q :
              /\ q[k] \in Ids /\ timeouts[q[k]].owner = w
              /\ timeouts[q[k]].loop \/ (timeouts[q[k]].resolved = 0 /\ timeouts[q[k]].fate = "fired")
        /\ \A k, l \in DOMAIN q : (q[k] = q[l] /\ ~ timeouts[q[k]].loop) => k = l
    BY <1>10 DEF EventsOnce
  <2>2. \A k \in DOMAIN tq : timeouts[tq[k]].loop \/ tq[k] # t
    <3> TAKE k \in DOMAIN tq
    <3>1. k + 1 \in DOMAIN q /\ tq[k] = q[k + 1] /\ k + 1 # 1
      BY <1>15
    <3>2. q[1] = t /\ 1 \in DOMAIN q
      BY <1>4, <1>10
    <3> QED BY <2>1, <3>1, <3>2
  <2>3. ASSUME NEW v \in Workers, NEW k \in DOMAIN queue'[v]
        PROVE  /\ queue'[v][k] \in Ids /\ timeouts[queue'[v][k]].owner = v
               /\ \/ timeouts[queue'[v][k]].loop
                  \/ /\ timeouts[queue'[v][k]].resolved = 0 /\ queue'[v][k] # t
                     /\ timeouts[queue'[v][k]].fate = "fired"
    <3>1. CASE v = w
      <4>1. k \in DOMAIN tq /\ queue'[v][k] = tq[k]
        BY <1>14, <3>1
      <4>2. k + 1 \in DOMAIN q /\ tq[k] = q[k + 1]
        BY <1>15, <4>1
      <4> QED BY <2>1, <2>2, <3>1, <4>1, <4>2
    <3>2. CASE v # w
      <4>1. queue'[v] = queue[v]
        BY <1>14, <3>2
      <4> QED BY <1>4, <3>2, <4>1 DEF EventsOnce
    <3> QED BY <3>1, <3>2
  <2>4. \A v \in Workers : \A k \in DOMAIN queue'[v] :
            LET u == queue'[v][k]
            IN  /\ u \in Ids' /\ timeouts'[u].owner = v
                /\ timeouts'[u].loop \/ (timeouts'[u].resolved = 0 /\ timeouts'[u].fate = "fired")
    BY <1>8, <2>3 DEF Keeps, SameFates
  <2>5. \A k, l \in DOMAIN tq : (tq[k] = tq[l] /\ ~ timeouts[tq[k]].loop) => k = l
    <3> TAKE k, l \in DOMAIN tq
    <3>1. /\ k + 1 \in DOMAIN q /\ tq[k] = q[k + 1] /\ l + 1 \in DOMAIN q /\ tq[l] = q[l + 1]
          /\ k + 1 = l + 1 => k = l
      BY <1>15
    <3> QED BY <2>1, <3>1
  <2>6. \A v \in Workers : \A k, l \in DOMAIN queue'[v] :
           (queue'[v][k] = queue'[v][l] /\ ~ timeouts'[queue'[v][k]].loop) => k = l
    <3>1. ASSUME NEW v \in Workers, NEW k \in DOMAIN queue'[v]
          PROVE  timeouts'[queue'[v][k]].loop = timeouts[queue'[v][k]].loop
      BY <1>8, <2>3 DEF Keeps
    <3>2. \A v \in Workers : \A k, l \in DOMAIN queue'[v] :
             (queue'[v][k] = queue'[v][l] /\ ~ timeouts[queue'[v][k]].loop) => k = l
      BY <1>14, <2>5 DEF EventsOnce
    <3> QED BY <3>1, <3>2
  <2>7. \A u \in armed' :
            /\ timeouts'[u].fate # "sent"
            /\ timeouts'[u].loop \/ (timeouts'[u].resolved = 0 /\ timeouts'[u].fate = "armed")
    <3> TAKE u \in armed'
    <3>1. u \in armed /\ u \in Ids
      BY <1>7 DEF Types
    <3>2. timeouts[u].loop \/ u # t
      BY <1>4, <3>1 DEF EventsOnce
    <3> QED BY <1>8, <3>1, <3>2 DEF EventsOnce, Keeps, SameFates
  <2> QED BY <2>4, <2>6, <2>7 DEF EventsOnce
<1>19. SentInOrder'
  <2>1. \A u \in Pending(mainQueue) : u \in Ids /\ (timeouts[u].loop \/ u # t)
    BY <1>4 DEF SentInOrder, Pending
  <2> QED BY <1>7, <1>8, <2>1, SentStay DEF SameFates, SameCanceled
<1>20. TablesSound'
  <2>1. armed' \subseteq armed /\ armed \subseteq Ids /\ mainQueue' = mainQueue
    BY <1>7 DEF Types
  <2> QED BY <1>7, <1>8, <2>1, TablesStay DEF SameCanceled
<1> QED BY <1>16, <1>17, <1>18, <1>19, <1>20


(* Create(w, loop), when the main thread's queue takes the event and when not. *)
CreateTakes(w, loop, fits) ==
    LET t == Len(timeouts) + 1
        reuses == freeNodes[w] # <<>>
        i == IF reuses THEN Last(freeNodes[w]) ELSE Len(nodes[w]) + 1
    IN  /\ Len(timeouts) < MaxTimeouts
        /\ Takes(mainQueue, w, fits)
        /\ timeouts' = Append(timeouts,
               [owner |-> w, index |-> i, loop |-> loop, resolved |-> 0,
                fate |-> IF fits THEN "sent" ELSE "refused", canceled |-> FALSE])
        /\ nodes' = [nodes EXCEPT ![w] = IF reuses THEN [@ EXCEPT ![i] = t]
                                         ELSE Append(@, t)]
        /\ freeNodes' = [freeNodes EXCEPT ![w] = IF reuses THEN Front(@) ELSE @]
        /\ mainQueue' = IF fits THEN Append(mainQueue, [type |-> "INIT", of |-> t])
                        ELSE mainQueue
        /\ UNCHANGED <<queue, armed, timerEvents, timerIds, cancels, lives>>

(* A node for a new timeout, among those that nobody may ask for.           *)
LEMMA CreateStep == ASSUME IInv, NEW w \in Workers, NEW loop \in BOOLEAN, Create(w, loop) PROVE IInv'
<1> USE DEF IInv
<1>1. PICK t, n, f : t = Len(timeouts) + 1 /\ n = nodes[w] /\ f = freeNodes[w]
  OBVIOUS
<1>0. PICK fits \in BOOLEAN : CreateTakes(w, loop, fits)
  BY DEF Create, CreateTakes
<1>2. PICK i : i = IF f # <<>> THEN Last(f) ELSE Len(n) + 1
  OBVIOUS
<1>3. fits => Room(mainQueue)
  BY <1>0 DEF CreateTakes, Takes
<1>4. PICK r : r = [owner |-> w, index |-> i, loop |-> loop, resolved |-> 0,
                    fate |-> IF fits THEN "sent" ELSE "refused", canceled |-> FALSE]
  OBVIOUS
<1>5. PICK m : m = [type |-> "INIT", of |-> t]
  OBVIOUS
<1>6. PICK nn, ff : /\ nn = IF f # <<>> THEN [n EXCEPT ![i] = t] ELSE Append(n, t)
                    /\ ff = IF f # <<>> THEN Front(f) ELSE f
  OBVIOUS
<1>7. /\ timeouts' = Append(timeouts, r) /\ Len(timeouts) < MaxTimeouts
      /\ nodes' = [nodes EXCEPT ![w] = nn] /\ freeNodes' = [freeNodes EXCEPT ![w] = ff]
      /\ mainQueue' = IF fits THEN Append(mainQueue, m) ELSE mainQueue
      /\ UNCHANGED <<queue, armed, timerEvents, timerIds, cancels, lives>>
  BY <1>0, <1>1, <1>2, <1>4, <1>5, <1>6 DEF CreateTakes
<1>8. /\ timeouts \in Seq(Timeout) /\ Ids = 1 .. Len(timeouts) /\ Len(timeouts) \in Nat
      /\ t \in Nat \ {0} /\ t \notin Ids /\ \A u \in Ids : u < t /\ u \in Nat
      /\ n \in Seq(Nat) /\ f \in Seq(Nat)
      /\ nodes \in [Workers -> Seq(Nat)] /\ freeNodes \in [Workers -> Seq(Nat)]
  BY <1>1 DEF Types, Ids
<1>9. /\ \A k \in DOMAIN n : n[k] \in Ids
      /\ \A k \in DOMAIN f : f[k] \in DOMAIN n
      /\ \A k, l \in DOMAIN f : f[k] = f[l] => k = l
  BY <1>1 DEF NodesKept
<1>10. /\ i \in Nat /\ nn \in Seq(Nat) /\ ff \in Seq(Nat)
       /\ DOMAIN nn = DOMAIN n \cup {i} /\ nn[i] = t
       /\ \A k \in DOMAIN n \ {i} : nn[k] = n[k]
       /\ \A k \in DOMAIN ff : k \in DOMAIN f /\ ff[k] = f[k] /\ f[k] # i
       /\ f # <<>> => \E k \in DOMAIN f : f[k] = i
       /\ f = <<>> => i \notin DOMAIN n
  <2>1. CASE f # <<>>
    <3>1. /\ Front(f) \in Seq(Nat) /\ Last(f) = f[Len(f)]
          /\ DOMAIN f = DOMAIN Front(f) \cup {Len(f)} /\ Len(f) \notin DOMAIN Front(f)
          /\ \A k \in DOMAIN Front(f) : Front(f)[k] = f[k]
      BY <1>8, <2>1, FrontOf
    <3>2. i = f[Len(f)] /\ i \in DOMAIN n /\ i \in Nat
      <4>1. i = f[Len(f)] /\ Len(f) \in DOMAIN f
        BY <1>2, <2>1, <3>1
      <4>2. f[Len(f)] \in DOMAIN n
        BY <1>9, <4>1
      <4>3. \A k \in DOMAIN n : k \in Nat
        BY <1>8
      <4> QED BY <4>1, <4>2, <4>3
    <3>3. nn = [n EXCEPT ![i] = t] /\ ff = Front(f)
      BY <1>6, <2>1
    <3>4. nn \in Seq(Nat) /\ DOMAIN nn = DOMAIN n
      BY <1>8, <3>2, <3>3, ExceptOf
    <3>5. nn[i] = t /\ \A k \in DOMAIN n \ {i} : nn[k] = n[k]
      BY <3>2, <3>3
    <3>6. \A k \in DOMAIN ff : k \in DOMAIN f /\ ff[k] = f[k] /\ f[k] # i
      BY <1>9, <3>1, <3>2, <3>3
    <3> QED BY <2>1, <3>1, <3>2, <3>3, <3>4, <3>5, <3>6
  <2>2. CASE f = <<>>
    <3>1. i = Len(n) + 1 /\ nn = Append(n, t) /\ ff = f /\ DOMAIN f = {}
      BY <1>2, <1>6, <2>2
    <3>2. /\ Append(n, t) \in Seq(Nat) /\ DOMAIN Append(n, t) = DOMAIN n \cup {Len(n) + 1}
          /\ \A k \in DOMAIN n : Append(n, t)[k] = n[k]
          /\ Append(n, t)[Len(n) + 1] = t
          /\ DOMAIN n = 1 .. Len(n) /\ Len(n) \in Nat
      BY <1>8, AppendTo
    <3> QED BY <1>8, <2>2, <3>1, <3>2
  <2> QED BY <2>1, <2>2
<1>11. /\ r \in Timeout /\ r.owner = w /\ r.index = i /\ r.loop = loop /\ r.resolved = 0
       /\ r.fate = IF fits THEN "sent" ELSE "refused"
       /\ ~ r.canceled
  BY <1>4, <1>10 DEF Timeout, Fates
<1>12. /\ timeouts' \in Seq(Timeout) /\ Len(timeouts') = Len(timeouts) + 1
       /\ Ids' = Ids \cup {t} /\ timeouts'[t] = r
       /\ \A u \in Ids : timeouts'[u] = timeouts[u]
  BY <1>1, <1>7, <1>8, <1>11, AppendTo DEF Ids
<1>13. /\ \A v \in Workers : nodes'[v] = IF v = w THEN nn ELSE nodes[v]
       /\ \A v \in Workers : freeNodes'[v] = IF v = w THEN ff ELSE freeNodes[v]
       /\ nodes' \in [Workers -> Seq(Nat)] /\ freeNodes' \in [Workers -> Seq(Nat)]
  BY <1>7, <1>8, <1>10
<1>14. /\ armed \subseteq Ids /\ timerEvents \subseteq Ids
       /\ armed' = armed /\ timerEvents' = timerEvents /\ timerIds' = timerIds /\ queue' = queue
  BY <1>7 DEF Types
<1>15. \A u \in Ids : u # t /\ timeouts[u].owner \in Workers
  BY <1>8, TimeoutFacts
<1>16. /\ mainQueue' \in Seq(Message) /\ Len(mainQueue') <= QueueSize
       /\ mainQueue \in Seq(Message) /\ Len(mainQueue) \in Nat
       /\ DOMAIN mainQueue = 1 .. Len(mainQueue)
       /\ \A k \in DOMAIN mainQueue' :
             \/ k \in DOMAIN mainQueue /\ mainQueue'[k] = mainQueue[k]
             \/ fits /\ k = Len(mainQueue) + 1 /\ mainQueue'[k] = m
  <2>1. PICK q : q = mainQueue
    OBVIOUS
  <2>2. q \in Seq(Message) /\ Len(q) <= QueueSize /\ (fits => Len(q) < QueueSize)
    BY <1>3, <2>1 DEF Types, Room
  <2>3. m \in Message
    BY <1>5, <1>8 DEF Message
  <2>4. /\ Append(q, m) \in Seq(Message) /\ Len(Append(q, m)) = Len(q) + 1
        /\ DOMAIN Append(q, m) = DOMAIN q \cup {Len(q) + 1}
        /\ \A k \in DOMAIN q : Append(q, m)[k] = q[k]
        /\ Append(q, m)[Len(q) + 1] = m
        /\ DOMAIN q = 1 .. Len(q) /\ Len(q) \in Nat
    BY <2>2, <2>3, AppendTo
  <2>5. CASE fits
    <3>1. mainQueue' = Append(q, m)
      BY <1>7, <2>1, <2>5
    <3>2. Len(mainQueue') <= QueueSize
      BY <2>2, <2>4, <2>5, <3>1, QueueAssumption
    <3> QED BY <2>1, <2>2, <2>4, <2>5, <3>1, <3>2
  <2>6. CASE ~ fits
    BY <1>7, <2>1, <2>2, <2>4, <2>6
  <2> QED BY <1>3, <2>5, <2>6
<1>17. Types'
  <2>1. Len(timeouts') <= MaxTimeouts
    BY <1>7, <1>8, <1>12, BoundsAssumption
  <2>2. armed' \subseteq Ids' /\ timerEvents' \subseteq Ids'
    BY <1>12, <1>14
  <2> QED BY <1>7, <1>12, <1>13, <1>16, <2>1, <2>2 DEF Types, lives
<1>18. NodesKept'
  <2>1. \A u \in Ids' : timeouts'[u].index \in DOMAIN nodes'[timeouts'[u].owner]
    <3> TAKE u \in Ids'
    <3>1. CASE u = t
      BY <1>10, <1>11, <1>12, <1>13, <3>1
    <3>2. CASE u \in Ids
      <4>1. timeouts'[u] = timeouts[u] /\ timeouts[u].owner \in Workers
        BY <1>12, <1>15, <3>2
      <4>2. timeouts[u].index \in DOMAIN nodes[timeouts[u].owner]
        BY <3>2 DEF NodesKept
      <4>3. \A v \in Workers : DOMAIN nodes[v] \subseteq DOMAIN nodes'[v]
        BY <1>1, <1>10, <1>13
      <4> QED BY <4>1, <4>2, <4>3
    <3> QED BY <1>12, <3>1, <3>2
  <2>2. /\ \A k \in DOMAIN nn : nn[k] \in Ids'
        /\ \A k \in DOMAIN ff : ff[k] \in DOMAIN nn
        /\ \A k, l \in DOMAIN ff : ff[k] = ff[l] => k = l
    BY <1>9, <1>10, <1>12
  <2>3. \A v \in Workers :
            /\ \A k \in DOMAIN nodes'[v] : nodes'[v][k] \in Ids'
            /\ \A k \in DOMAIN freeNodes'[v] : freeNodes'[v][k] \in DOMAIN nodes'[v]
            /\ \A k, l \in DOMAIN freeNodes'[v] : freeNodes'[v][k] = freeNodes'[v][l] => k = l
    <3> TAKE v \in Workers
    <3>1. CASE v = w
      BY <1>13, <2>2, <3>1
    <3>2. CASE v # w
      <4>1. nodes'[v] = nodes[v] /\ freeNodes'[v] = freeNodes[v] /\ Ids \subseteq Ids'
        BY <1>12, <1>13, <3>2
      <4> QED BY <4>1 DEF NodesKept
    <3> QED BY <3>1, <3>2
  <2>4. ASSUME NEW u \in Ids, timeouts[u].loop \/ timeouts[u].resolved = 0
        PROVE  /\ nodes'[timeouts[u].owner][timeouts[u].index] = u
               /\ \A k \in DOMAIN freeNodes'[timeouts[u].owner] :
                     freeNodes'[timeouts[u].owner][k] # timeouts[u].index
    <3>1. PICK v, j : v = timeouts[u].owner /\ j = timeouts[u].index
      OBVIOUS
    <3>2. /\ nodes[v][j] = u /\ j \in DOMAIN nodes[v] /\ v \in Workers
          /\ \A k \in DOMAIN freeNodes[v] : freeNodes[v][k] # j
      BY <1>15, <2>4, <3>1 DEF NodesKept
    <3>3. CASE v = w
      <4>1. j # i
        BY <1>1, <1>10, <3>2, <3>3
      <4>2. nn[j] = u /\ \A k \in DOMAIN ff : ff[k] # j
        BY <1>1, <1>10, <3>2, <3>3, <4>1
      <4> QED BY <1>13, <3>1, <3>2, <3>3, <4>2
    <3>4. CASE v # w
      BY <1>13, <3>1, <3>2, <3>4
    <3> QED BY <3>3, <3>4
  <2>5. /\ nodes'[w][i] = t
        /\ \A k \in DOMAIN freeNodes'[w] : freeNodes'[w][k] # i
    BY <1>10, <1>13
  <2>6. \A u \in Ids' :
          (timeouts'[u].loop \/ timeouts'[u].resolved = 0) =>
              /\ nodes'[timeouts'[u].owner][timeouts'[u].index] = u
              /\ \A k \in DOMAIN freeNodes'[timeouts'[u].owner] :
                    freeNodes'[timeouts'[u].owner][k] # timeouts'[u].index
    <3> TAKE u \in Ids'
    <3>1. CASE u = t
      BY <1>11, <1>12, <2>5, <3>1
    <3>2. CASE u \in Ids
      <4>1. timeouts'[u] = timeouts[u]
        BY <1>12, <3>2
      <4> QED BY <2>4, <3>2, <4>1
    <3> QED BY <1>12, <3>1, <3>2
  <2>7. \A u \in Ids' : timeouts'[u].loop \/ timeouts'[u].resolved <= 1
    BY <1>11, <1>12 DEF NodesKept
  <2> QED BY <2>1, <2>3, <2>6, <2>7 DEF NodesKept
<1>19. EventsOnce'
  <2>1. \A v \in Workers : \A k \in DOMAIN queue[v] :
            queue[v][k] \in Ids /\ timeouts'[queue[v][k]] = timeouts[queue[v][k]]
    BY <1>12 DEF EventsOnce
  <2>2. \A u \in armed : timeouts'[u] = timeouts[u]
    BY <1>12, <1>14
  <2>3. \A v \in Workers :
            /\ \A k \in DOMAIN queue'[v] :
                  LET u == queue'[v][k]
                  IN  /\ u \in Ids' /\ timeouts'[u].owner = v
                      /\ timeouts'[u].loop \/ (timeouts'[u].resolved = 0 /\ timeouts'[u].fate = "fired")
            /\ \A k, l \in DOMAIN queue'[v] :
                  (queue'[v][k] = queue'[v][l] /\ ~ timeouts'[queue'[v][k]].loop) => k = l
    BY <1>14, <1>12, <2>1 DEF EventsOnce
  <2>4. \A u \in armed' :
            /\ timeouts'[u].fate # "sent"
            /\ timeouts'[u].loop \/ (timeouts'[u].resolved = 0 /\ timeouts'[u].fate = "armed")
    BY <1>14, <2>2 DEF EventsOnce
  <2> QED BY <2>3, <2>4 DEF EventsOnce
<1>20. m.type = "INIT" /\ m.of = t
  BY <1>5
<1>21. SentInOrder'
  <2>1. \A k \in DOMAIN mainQueue : mainQueue[k].of \in Ids
    BY DEF SentInOrder
  <2>2. \A k \in DOMAIN mainQueue' :
            LET u == mainQueue'[k].of
            IN  /\ u \in Ids'
                /\ mainQueue'[k].type = "INIT" =>
                      /\ timeouts'[u].fate = "sent" /\ ~ timeouts'[u].canceled
                      /\ timeouts'[u].loop \/ timeouts'[u].resolved = 0
    <3> TAKE k \in DOMAIN mainQueue'
    <3>1. CASE k \in DOMAIN mainQueue /\ mainQueue'[k] = mainQueue[k]
      BY <1>12, <2>1, <3>1 DEF SentInOrder
    <3>2. CASE fits /\ mainQueue'[k] = m
      BY <1>11, <1>12, <1>20, <3>2
    <3> QED BY <1>16, <3>1, <3>2
  <2>3. \A k, l \in DOMAIN mainQueue' :
            (k < l /\ mainQueue'[l].type = "INIT") =>
                /\ mainQueue'[k].type = "INIT" => mainQueue'[k].of < mainQueue'[l].of
                /\ mainQueue'[k].type = "CANCEL" => mainQueue'[k].of # mainQueue'[l].of
    <3> TAKE k, l \in DOMAIN mainQueue'
    <3>1. k < l => k \in DOMAIN mainQueue /\ mainQueue'[k] = mainQueue[k]
      BY <1>16
    <3>2. CASE l \in DOMAIN mainQueue /\ mainQueue'[l] = mainQueue[l]
      BY <3>1, <3>2 DEF SentInOrder
    <3>3. CASE mainQueue'[l] = m
      BY <1>8, <1>20, <2>1, <3>1, <3>3
    <3> QED BY <1>16, <3>2, <3>3
  <2> QED BY <2>2, <2>3 DEF SentInOrder
<1>22. TablesSound'
  <2>1. \A j \in DOMAIN timerIds : timerIds[j] \in Ids /\ timerIds[j] \in timerEvents
    BY <1>14 DEF TablesSound
  <2>2. \A j \in DOMAIN timerIds' :
            /\ timerIds'[j] \in timerEvents' /\ timeouts'[timerIds'[j]].index = j
            /\ \A k \in DOMAIN mainQueue' :
                  mainQueue'[k].type = "INIT" => timerIds'[j] < mainQueue'[k].of
    <3> TAKE j \in DOMAIN timerIds'
    <3>1. timerIds'[j] \in timerEvents' /\ timeouts'[timerIds'[j]].index = j
      BY <1>14, <1>12, <2>1 DEF TablesSound
    <3>2. ASSUME NEW k \in DOMAIN mainQueue', mainQueue'[k].type = "INIT"
          PROVE  timerIds'[j] < mainQueue'[k].of
      <4>1. CASE k \in DOMAIN mainQueue /\ mainQueue'[k] = mainQueue[k]
        BY <1>14, <3>2, <4>1 DEF TablesSound
      <4>2. CASE mainQueue'[k] = m
        BY <1>14, <1>8, <1>20, <2>1, <4>2
      <4> QED BY <1>16, <4>1, <4>2
    <3> QED BY <3>1, <3>2
  <2>3. ASSUME NEW u \in armed', IsFirst(u)'
        PROVE  /\ ~ timeouts'[u].canceled
               /\ timeouts'[u].index \in DOMAIN timerIds'
               /\ timerIds'[timeouts'[u].index] = u
    <3>1. u \in Ids /\ u \in armed /\ timeouts'[u] = timeouts[u]
      BY <1>12, <1>14
    <3>2. 1 .. u - 1 \subseteq Ids
      BY <3>1, TimeoutFacts
    <3>3. IsFirst(u)
      BY <1>12, <2>3, <3>1, <3>2 DEF IsFirst
    <3> QED BY <1>14, <3>1, <3>3 DEF TablesSound
  <2>4. armed' \subseteq timerEvents'
    BY <1>14 DEF TablesSound
  <2> QED BY <2>2, <2>3, <2>4 DEF TablesSound
<1> QED BY <1>17, <1>18, <1>19, <1>21, <1>22

-----------------------------------------------------------------------------
LEMMA NextInv == IInv /\ [Next]_vars => IInv'
<1> SUFFICES ASSUME IInv, [Next]_vars PROVE IInv'
  OBVIOUS
<1>1. CASE UNCHANGED vars
  BY <1>1, QuietStep DEF vars, lives, IInv, Types
<1>2. CASE \E w \in Workers : \/ \E loop \in BOOLEAN : Create(w, loop)
                            \/ Resolve(w) \/ Misses(w) \/ Wake(w) \/ End(w)
  <2>1. PICK w \in Workers : \/ \E loop \in BOOLEAN : Create(w, loop)
                            \/ Resolve(w) \/ Misses(w) \/ Wake(w) \/ End(w)
    BY <1>2
  <2>2. CASE \E loop \in BOOLEAN : Create(w, loop)
    BY <2>2, CreateStep
  <2>3. CASE Resolve(w)
    BY <2>3, ResolveStep
  <2>4. CASE End(w)
    <3>1. /\ asleep' \subseteq Workers /\ waits' \in BOOLEAN
          /\ ended' \subseteq Workers \ {MainWorker} /\ crashed' \in BOOLEAN
      BY <2>4 DEF End, IInv, Types, rest
    <3> QED BY <2>4, <3>1, QuietStep DEF End, rest
  <2>5. CASE Misses(w) \/ Wake(w)
    <3>1. /\ asleep' \subseteq Workers /\ waits' \in BOOLEAN
          /\ ended' \subseteq Workers \ {MainWorker} /\ crashed' \in BOOLEAN
      BY <2>5 DEF Misses, Wake, IInv, Types, rest
    <3> QED BY <2>5, <3>1, QuietStep DEF Misses, Wake, rest
  <2> QED BY <2>1, <2>2, <2>3, <2>4, <2>5
<1>3. CASE \E t \in Ids : Cancel(t) \/ Timer(t)
  <2>1. PICK t \in Ids : Cancel(t) \/ Fire(t) \/ FireCrashes(t)
    BY <1>3 DEF Timer
  <2>2. CASE FireCrashes(t)
    BY <2>2, QuietStep DEF FireCrashes, IInv, Types
  <2> QED BY <2>1, <2>2, CancelStep, FireStep
<1>4. CASE Main
  <2>1. CASE DropCanceled
    BY <2>1, DropStep
  <2>2. CASE \E t \in Ids : Arm(t) \/ NoTimer(t) \/ Disarm(t)
    BY <2>2, ArmStep, NoTimerStep, DisarmStep
  <2> QED BY <1>4, <2>1, <2>2 DEF Main
<1>5. CASE Wait
  <2>1. asleep' \subseteq Workers /\ waits' \in BOOLEAN
        /\ ended' \subseteq Workers \ {MainWorker} /\ crashed' \in BOOLEAN
    BY <1>5 DEF Wait, IInv, Types, rest
  <2> QED BY <1>5, <2>1, QuietStep DEF Wait, rest
<1> QED BY <1>1, <1>2, <1>3, <1>4, <1>5 DEF Next

(* What holds in every reachable state: see the parts of IInv.              *)
THEOREM Invariant == Spec => []IInv
BY InitInv, NextInv, PTL DEF Spec

LEMMA TypesAreOK == IInv => TypeOK
<1> SUFFICES ASSUME IInv PROVE TypeOK
  OBVIOUS
<1> USE DEF IInv
<1>1. \A t \in Ids : /\ timeouts[t].owner \in Workers
                     /\ timeouts[t].index \in DOMAIN nodes[timeouts[t].owner]
                     /\ timeouts[t].fate \in {"sent", "refused", "late", "untimed",
                                              "armed", "fired", "lost", "killed"}
  BY TimeoutFacts DEF NodesKept, Fates
<1>2. ASSUME NEW w \in Workers
      PROVE  /\ nodes[w] \in Seq(Ids)
             /\ freeNodes[w] \in Seq(DOMAIN nodes[w])
             /\ queue[w] \in Seq(Ids) /\ Len(queue[w]) <= QueueSize
  <2>1. PICK n, f, q : n = nodes[w] /\ f = freeNodes[w] /\ q = queue[w]
    OBVIOUS
  <2>2. n \in Seq(Nat) /\ f \in Seq(Nat) /\ q \in Seq(Nat) /\ Len(q) <= QueueSize
    BY <2>1 DEF Types
  <2>3. /\ \A k \in DOMAIN n : n[k] \in Ids
        /\ \A k \in DOMAIN f : f[k] \in DOMAIN n
        /\ \A k \in DOMAIN q : q[k] \in Ids
    BY <2>1 DEF NodesKept, EventsOnce
  <2>4. n \in Seq(Ids)
    BY <2>2, <2>3
  <2>5. f \in Seq(DOMAIN n)
    BY <2>2, <2>3
  <2>6. q \in Seq(Ids)
    BY <2>2, <2>3
  <2> QED BY <2>1, <2>2, <2>4, <2>5, <2>6
<1>3. mainQueue \in Seq([type : {"INIT", "CANCEL"}, of : Ids])
  <2>1. mainQueue \in Seq(Message) /\ \A k \in DOMAIN mainQueue : mainQueue[k].of \in Ids
    BY DEF Types, SentInOrder
  <2>2. DOMAIN mainQueue = 1 .. Len(mainQueue) /\ Len(mainQueue) \in Nat
        /\ \A k \in DOMAIN mainQueue : mainQueue[k] \in Message
    BY <2>1
  <2>3. PICK S : S = [type : {"INIT", "CANCEL"}, of : Ids]
    OBVIOUS
  <2>4. \A k \in DOMAIN mainQueue : mainQueue[k] \in S
    BY <2>1, <2>2, <2>3 DEF Message
  <2>5. mainQueue \in Seq(S)
    BY <2>1, <2>4
  <2> QED BY <2>3, <2>5
<1>4. IsInjective(timerIds) /\ Range(timerIds) \subseteq Ids
  <2>1. \A i \in DOMAIN timerIds : timerIds[i] \in Ids /\ timeouts[timerIds[i]].index = i
    BY DEF TablesSound, Types
  <2> QED BY <2>1 DEF IsInjective, Range
<1> QED BY <1>1, <1>2, <1>3, <1>4 DEF TypeOK, Types

LEMMA EventsFindTimeouts == IInv => FindsItsTimeout
<1> SUFFICES ASSUME IInv, NEW w \in Workers, NEW k \in DOMAIN queue[w]
             PROVE  /\ nodes[w][timeouts[queue[w][k]].index] = queue[w][k]
                    /\ timeouts[queue[w][k]].index \notin Range(freeNodes[w])
  BY DEF FindsItsTimeout, Range
<1>1. PICK t : t = queue[w][k]
  OBVIOUS
<1>2. t \in Ids /\ timeouts[t].owner = w /\ (timeouts[t].loop \/ timeouts[t].resolved = 0)
  BY <1>1 DEF IInv, EventsOnce
<1>3. /\ nodes[w][timeouts[t].index] = t
      /\ \A l \in DOMAIN freeNodes[w] : freeNodes[w][l] # timeouts[t].index
  BY <1>2 DEF IInv, NodesKept
<1> QED BY <1>1, <1>3 DEF Range

LEMMA NodesGivenBackOnce == IInv => ResolvedOnce
BY DEF IInv, NodesKept, ResolvedOnce, IsInjective

LEMMA TimersHaveEvents == IInv => TablesAgree
BY DEF IInv, TablesSound, TablesAgree, Range

(* The nodes of the workers, the tables of the main thread and the events    *)
(* under way agree (resolveTimeout, timerProc, App::run): an event that      *)
(* reaches its worker finds its own timeout, and no node is given back       *)
(* twice.                                                                    *)
THEOREM TimersAreSound == Spec => []TimersSound
<1>1. IInv => TimersSound
  BY TypesAreOK, EventsFindTimeouts, NodesGivenBackOnce, TimersHaveEvents DEF TimersSound
<1> QED BY <1>1, Invariant, PTL

(* A cancel() that the main thread has seen has stopped the timeout, if no   *)
(* earlier timeout of any worker had its index.                              *)
THEOREM CancelWorksForFirst == Spec => []CancelStopsFirst
<1>1. IInv => CancelStopsFirst
  <2> SUFFICES ASSUME IInv, NEW t \in Ids, IsFirst(t), timeouts[t].canceled PROVE t \notin armed
    BY DEF CancelStopsFirst, IsFirst
  <2> QED BY DEF IInv, TablesSound
<1> QED BY <1>1, Invariant, PTL

(* No step starts a timer for a worker whose thread has ended.               *)
THEOREM ArmsLiving == Spec => ArmsForTheLiving
<1>1. [Next]_vars => [\A t \in armed' \ armed : timeouts[t].owner \notin ended']_vars
  <2> SUFFICES ASSUME Next, NEW t \in armed' \ armed PROVE timeouts[t].owner \notin ended'
    OBVIOUS
  <2>1. \E u \in Ids : Arm(u)
    BY DEF Next, Main, Timer, Create, Resolve, Misses, Wake, Wait, End, Cancel, Fire,
           FireCrashes, DropCanceled, NoTimer, Disarm, rest
  <2>2. PICK u \in Ids : Arm(u)
    BY <2>1
  <2> QED BY <2>2 DEF Arm, Pops, lives
<1> QED BY <1>1, PTL DEF Spec, ArmsForTheLiving
=============================================================================
