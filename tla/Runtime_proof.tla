----------------------------- MODULE Runtime_proof -----------------------------
(***************************************************************************)
(* Proofs about Runtime for every set of slots, every length of the queues *)
(* and any number of calls and of collected handles.                       *)
(***************************************************************************)
EXTENDS Runtime, SequenceTheorems, TLAPS

(* Types, and which event the main thread holds where.  A terminate() names *)
(* a worker.                                                                *)
Request == {e \in EventType : e.kind = "terminate" => e.about \in Slots}

Typed ==
    /\ TypeOK
    /\ mainQueue \in Seq(Request)
    /\ mpc \in {"work", "hung"} => current \in Request
    /\ mpc \in {"join", "answer"} => current \in Request /\ current.kind = "terminate"
    /\ mpc \notin {"work", "hung", "join", "answer"} => current = NoEvent
    /\ MainJoins => target \in Slots

(* The workers that are closing form a chain: the first is the one the main *)
(* thread joins, and each joins the next.  A worker that has been told to   *)
(* end and is still in its loop comes after the last.                       *)
Told(w) == thread[w] \in Running /\ Poison \in Range(queue[w])

IsChain(p) ==
    /\ \A i, j \in 1 .. Len(p) : p[i] = p[j] => i = j
    /\ \A w \in Slots : thread[w] = "closing" <=> \E i \in 1 .. Len(p) : p[i] = w
    /\ Len(p) > 0 => MainJoins /\ p[1] = target
    /\ \A i \in 1 .. Len(p) - 1 : joins[p[i]] = p[i + 1]
    /\ \A w \in Slots : joins[w] # None => thread[w] = "closing"
    /\ \A w \in Slots : Told(w) =>
          /\ MainJoins
          /\ IF Len(p) = 0 THEN w = target ELSE w = joins[p[Len(p)]]

Chain == \E p \in Seq(Slots) : IsChain(p)

(* The main thread works for the worker that asked: between the test of the *)
(* status and the answer no slot changes hands.                             *)
Working == /\ mpc \in {"work", "join", "answer"} => current.life = life[current.owner]
           /\ WorksForLiveOwner

(* A terminated worker has ended; a slot that is being joined is not free,  *)
(* and a slot that was never used has no thread.                            *)
Slotted == /\ FreedAreDone
           /\ \A s \in Slots : terminated[s] => thread[s] = "done"
           /\ MainJoins => \A i \in DOMAIN freed : freed[i] # target
           /\ \A s \in Slots : life[s] = 0 => thread[s] = "none"

(* Only the first worker has no parent, and quitting is about that one.     *)
Family ==
    /\ ChildrenEndFirst
    /\ \A w \in Slots : parent[w] # None => thread[parent[w]] # "none"
    /\ \A w \in Slots : parent[w] = None => w = MainSlot \/ thread[w] = "none"
    /\ mpc = "quitJoin" => target = MainSlot
    /\ mpc \in {"dispose", "disposed"} =>
          thread[MainSlot] = "done" \/ parent[MainSlot] # None

(* A worker joins only its own children.                                    *)
JoinsChild == \A w \in Slots : joins[w] # None => parent[joins[w]] = w

(* A worker that has asked for a worker waits until it has it, so it asks   *)
(* for one at a time.                                                       *)
Asks(e, w) == e.kind = "create" /\ e.owner = w /\ e.life = life[w]

Asking ==
    /\ \A i \in DOMAIN mainQueue :
          mainQueue[i].kind = "create" => mainQueue[i].life <= life[mainQueue[i].owner]
    /\ \A w \in Slots :
          \/ result[w] # None
          \/ Asks(current, w)
          \/ \E i \in DOMAIN mainQueue : Asks(mainQueue[i], w)
          => thread[w] = "blocked"
    /\ \A w \in Slots : \A i \in DOMAIN mainQueue :
          Asks(mainQueue[i], w) =>
             /\ result[w] = None /\ ~ Asks(current, w)
             /\ \A j \in DOMAIN mainQueue : Asks(mainQueue[j], w) => i = j
    /\ \A w \in Slots : Asks(current, w) => result[w] = None

(* While every handle is kept, the living workers form a forest: each has a *)
(* rank above that of its parent, which lives and has its handle or is      *)
(* about to get it, unless the main thread hangs before it hands it over.   *)
(* Whoever closes does not rank below the one the main thread joins.        *)
Ranked(f) ==
    /\ \A c \in Slots : (Alive(c) /\ parent[c] # None) =>
          /\ Alive(parent[c])
          /\ f[parent[c]] < f[c]
          /\ c \in handles[parent[c]] \/ result[parent[c]] = c
    /\ \A w \in Slots : thread[w] = "closing" => f[target] <= f[w]

Forest == (collected = 0 /\ mpc # "hung") => \E f \in [Slots -> Nat] : Ranked(f)

IInv == /\ Typed /\ Chain /\ Working /\ Slotted /\ Family
        /\ BlockedIsServed /\ AnswerReachesAsker
        /\ JoinsChild /\ Asking /\ Forest
-----------------------------------------------------------------------------
(* Queues. *)

(* A queue holds what it held, and the event that is appended.              *)
LEMMA PostRange ==
    ASSUME NEW S, NEW q \in Seq(S), NEW e \in S
    PROVE  /\ Append(q, e) \in Seq(S)
           /\ \A x \in Range(Append(q, e)) : x \in Range(q) \/ x = e
<1>1. Append(q, e) \in Seq(S)
  OBVIOUS
<1>2. \A i \in DOMAIN Append(q, e) :
         Append(q, e)[i] = e \/ (i \in DOMAIN q /\ Append(q, e)[i] = q[i])
  OBVIOUS
<1> QED BY <1>1, <1>2 DEF Range

LEMMA PostTyped ==
    ASSUME NEW q \in [Slots -> Seq(EventType \cup {Poison})], NEW pusher,
           NEW s \in Slots, NEW e \in EventType \cup {Poison}, Posts(q, pusher, s, e)
    PROVE  queue' \in [Slots -> Seq(EventType \cup {Poison})]
<1>1. Append(q[s], e) \in Seq(EventType \cup {Poison})
  BY PostRange
<1> QED BY <1>1 DEF Posts

(* postEvent wakes or deafens nobody but the owner of the queue.            *)
LEMMA PostDeaf ==
    ASSUME deaf \in SUBSET Slots, NEW q, NEW pusher, NEW s \in Slots, NEW e,
           Posts(q, pusher, s, e)
    PROVE  deaf' \in SUBSET Slots
  BY DEF Posts, Notifies

LEMMA TailRange ==
    ASSUME NEW S, NEW q \in Seq(S), q # <<>>
    PROVE  /\ Head(q) \in S /\ Head(q) \in Range(q)
           /\ Tail(q) \in Seq(S)
           /\ \A x \in Range(Tail(q)) : x \in Range(q)
<1>1. Head(q) = q[1] /\ 1 \in DOMAIN q
  OBVIOUS
<1>2. Tail(q) \in Seq(S)
  OBVIOUS
<1>3. \A i \in DOMAIN Tail(q) : i + 1 \in DOMAIN q /\ Tail(q)[i] = q[i + 1]
  OBVIOUS
<1> QED BY <1>1, <1>2, <1>3 DEF Range

LEMMA AppendEntries ==
    ASSUME NEW S, NEW q \in Seq(S), NEW e \in S
    PROVE  /\ DOMAIN Append(q, e) = DOMAIN q \cup {Len(q) + 1}
           /\ Len(q) + 1 \notin DOMAIN q
           /\ Append(q, e)[Len(q) + 1] = e
           /\ \A i \in DOMAIN q : Append(q, e)[i] = q[i]
<1>1. Len(q) \in Nat /\ DOMAIN q = 1 .. Len(q)
  OBVIOUS
<1>2. DOMAIN Append(q, e) = 1 .. Len(q) + 1
  OBVIOUS
<1>3. 1 .. Len(q) + 1 = (1 .. Len(q)) \cup {Len(q) + 1}
  BY <1>1
<1> QED BY <1>1, <1>2, <1>3

(* No event but the poison is a poison. *)
LEMMA Kinds == \A e \in EventType \cup {NoEvent} : e # Poison
  BY DEF EventType, NoEvent, Poison
-----------------------------------------------------------------------------
(* Types. *)

LEMMA EntryTyped ==
    ASSUME Typed, NEW i \in DOMAIN mainQueue
    PROVE  /\ mainQueue[i] \in EventType /\ mainQueue[i].owner \in Slots
           /\ mainQueue[i].life \in Nat /\ i \in Nat
<1>1. mainQueue[i] \in EventType /\ i \in Nat
  BY DEF Typed, TypeOK
<1> QED BY <1>1 DEF EventType

LEMMA EventTyped ==
    ASSUME Typed, NEW w \in Slots, NEW h \in Slots
    PROVE  /\ Event("create", w, None) \in Request
           /\ Event("terminate", w, h) \in Request
           /\ Event("message", w, h) \in EventType
  BY DEF Typed, TypeOK, Event, Request, EventType

LEMMA ScriptTyped ==
    ASSUME Typed, NEW w \in Slots, Script(w)
    PROVE  Typed'
<1> USE SlotsAssumption DEF Typed, TypeOK, Call, MainJoins, Running
<1>1. calls < MaxCalls => calls + 1 \in 0 .. MaxCalls
  BY BoundsAssumption
<1>2. ASSUME ScriptCreate(w) PROVE Typed'
  <2>1. Event("create", w, None) \in Request
    BY EventTyped
  <2>2. Append(mainQueue, Event("create", w, None)) \in Seq(Request)
    BY <2>1
  <2>3. Append(mainQueue, Event("create", w, None)) \in Seq(EventType)
    BY <2>1 DEF Request
  <2>4. mainQueue' \in Seq(Request) /\ mainQueue' \in Seq(EventType)
    BY <1>2, <2>2, <2>3 DEF ScriptCreate, PostsToMain
  <2>5. thread' = thread \/ thread' = [thread EXCEPT ![w] = "blocked"]
    BY <1>2 DEF ScriptCreate
  <2> QED BY <1>1, <1>2, <2>4, <2>5 DEF ScriptCreate
<1>3. ASSUME NEW h \in Slots, ScriptTerminate(w, h) PROVE Typed'
  <2> DEFINE e == Event("terminate", w, h)
  <2>3. e \in Request /\ e \in EventType
    BY EventTyped DEF Request
  <2>4. mainQueue' = mainQueue \/ mainQueue' = Append(mainQueue, e)
    BY <1>3 DEF ScriptTerminate, PostsToMain
  <2> HIDE DEF e
  <2>5. Append(mainQueue, e) \in Seq(Request) /\ Append(mainQueue, e) \in Seq(EventType)
    BY <2>3
  <2>1. mainQueue' \in Seq(Request)
    BY <2>4, <2>5
  <2>2. mainQueue' \in Seq(EventType)
    BY <2>4, <2>5
  <2> QED BY <1>1, <1>3, <2>1, <2>2 DEF ScriptTerminate
<1>4. ASSUME NEW h \in Slots, ScriptSend(w, h) PROVE Typed'
  <2>1. Posts(queue, w, h, Event("message", w, h)) /\ Event("message", w, h) \in EventType
    BY <1>4, EventTyped DEF ScriptSend
  <2>2. queue' \in [Slots -> Seq(EventType \cup {Poison})] /\ deaf' \in SUBSET Slots
    BY <2>1, PostTyped, PostDeaf
  <2> QED BY <1>1, <1>4, <2>2 DEF ScriptSend
<1>5. ASSUME NEW h \in Slots, Collect(w, h) PROVE Typed'
  BY <1>5, BoundsAssumption DEF Collect
<1> QED BY <1>2, <1>3, <1>4, <1>5 DEF Script

LEMMA LoopTyped ==
    ASSUME Typed, NEW w \in Slots, Loop(w)
    PROVE  Typed'
<1> USE SlotsAssumption DEF Typed, TypeOK, MainJoins, Running, Pops
<1>1. ASSUME queue[w] # <<>>
      PROVE  /\ Tail(queue[w]) \in Seq(EventType \cup {Poison})
             /\ Head(queue[w]) \in EventType \cup {Poison}
  BY <1>1, TailRange
<1>2. ASSUME ScriptCreated(w) PROVE Typed'
  <2>1. /\ thread' \in [Slots -> Running \cup {"none", "closing", "done"}]
        /\ refs' \in [Slots -> SUBSET Slots]
        /\ handles' \in [Slots -> SUBSET Slots]
        /\ result' \in [Slots -> Slots \cup {None}]
    BY <1>2 DEF ScriptCreated
  <2>2. UNCHANGED <<freed, life, terminated, parent, queue, deaf, joins, mainQueue,
                   mpc, current, target, calls, collected>>
    BY <1>2 DEF ScriptCreated
  <2> QED BY <2>1, <2>2
<1>3. ASSUME ScriptEnds(w) PROVE Typed'
  BY <1>3 DEF ScriptEnds
<1>4. ASSUME PopTerminate(w) PROVE Typed'
  BY <1>1, <1>4 DEF PopTerminate
<1>5. ASSUME PopAnswer(w) PROVE Typed'
  BY <1>1, <1>5 DEF PopAnswer
<1>6. ASSUME PopMessage(w) PROVE Typed'
  <2> DEFINE e == Head(queue[w])
  <2>1. e \in EventType /\ e.owner \in Slots
    BY <1>1, <1>6 DEF PopMessage, Poison, EventType
  <2>2. queue' \in [Slots -> Seq(EventType \cup {Poison})] /\ deaf' \in SUBSET Slots
    <3>1. [queue EXCEPT ![w] = Tail(@)] \in [Slots -> Seq(EventType \cup {Poison})]
      BY <1>1, <1>6 DEF PopMessage
    <3>2. Posts([queue EXCEPT ![w] = Tail(@)], w, e.owner, e)
      BY <1>6 DEF PopMessage
    <3> HIDE DEF e
    <3> QED BY <2>1, <3>1, <3>2, PostTyped, PostDeaf
  <2> QED BY <1>6, <2>2 DEF PopMessage
<1>7. ASSUME PopReceipt(w) PROVE Typed'
  BY <1>1, <1>7 DEF PopReceipt
<1>8. ASSUME NEW c \in Slots, CloseChild(w, c) PROVE Typed'
  <2>1. queue' \in [Slots -> Seq(EventType \cup {Poison})] /\ deaf' \in SUBSET Slots
    BY <1>8, PostTyped, PostDeaf DEF CloseChild
  <2> QED BY <1>8, <2>1 DEF CloseChild
<1>9. ASSUME JoinChild(w) PROVE Typed'
  BY <1>9 DEF JoinChild
<1>10. ASSUME CloseDone(w) PROVE Typed'
  BY <1>10 DEF CloseDone
<1> QED BY <1>2, <1>3, <1>4, <1>5, <1>6, <1>7, <1>8, <1>9, <1>10 DEF Loop

LEMMA MainTyped ==
    ASSUME Typed, Main \/ MainQuit
    PROVE  Typed'
<1> USE SlotsAssumption DEF Typed, TypeOK, MainJoins, Running
<1>1. ASSUME MainPop PROVE Typed'
  <2>1. /\ Head(mainQueue) \in Request /\ Head(mainQueue) \in EventType
        /\ Tail(mainQueue) \in Seq(Request) /\ Tail(mainQueue) \in Seq(EventType)
    BY <1>1, TailRange DEF MainPop
  <2> QED BY <1>1, <2>1 DEF MainPop
<1>2. ASSUME NEW s \in Slots, MainCreate(s) \/ MainHangs(s) PROVE Typed'
  <2>0. NewWorker(s)
    BY <1>2 DEF MainCreate, MainHangs
  <2>1. current \in Request /\ current.owner \in Slots
    BY <2>0 DEF NewWorker, Request, EventType
  <2>2. freed # <<>> => Front(freed) \in Seq(Slots)
    BY DEF Front
  <2>3. /\ freed' \in Seq(Slots)
        /\ life' \in [Slots -> Nat]
        /\ thread' \in [Slots -> Running \cup {"none", "closing", "done"}]
        /\ terminated' \in [Slots -> BOOLEAN]
        /\ parent' \in [Slots -> Slots \cup {None}]
        /\ handles' \in [Slots -> SUBSET Slots]
        /\ refs' \in [Slots -> SUBSET Slots]
        /\ UNCHANGED <<joins, mainQueue, target, calls, collected>>
    BY <2>0, <2>1, <2>2 DEF NewWorker
  <2>5. queue' \in [Slots -> Seq(EventType \cup {Poison})]
    <3>1. <<>> \in Seq(EventType \cup {Poison}) /\ queue' = [queue EXCEPT ![s] = <<>>]
      BY <2>0 DEF NewWorker
    <3> QED BY <3>1
  <2>4. /\ result' \in [Slots -> Slots \cup {None}] /\ deaf' \in SUBSET Slots
        /\ \/ mpc' = "loop" /\ current' = NoEvent
           \/ mpc' = "hung" /\ current' = current
    <3>1. CASE MainCreate(s)
      <4>1. result' = [result EXCEPT ![current.owner] = s]
        BY <3>1 DEF MainCreate
      <4>2. mpc' = "loop" /\ current' = NoEvent
        BY <3>1 DEF MainCreate
      <4>3. deaf' = deaf \/ deaf' = deaf \cup {current.owner}
        BY <3>1 DEF MainCreate
      <4> QED BY <2>1, <4>1, <4>2, <4>3
    <3>2. CASE MainHangs(s)
      <4>1. result' = result /\ deaf' = deaf /\ mpc' = "hung" /\ current' = current
        BY <3>2 DEF MainHangs
      <4> QED BY <4>1
    <3> QED BY <1>2, <3>1, <3>2
  <2> QED BY <2>1, <2>3, <2>4, <2>5
<1>3. ASSUME NEW s \in Slots, Posts(queue, None, s, Poison)
      PROVE  queue' \in [Slots -> Seq(EventType \cup {Poison})] /\ deaf' \in SUBSET Slots
  BY <1>3, PostTyped, PostDeaf
<1>4. ASSUME MainTerminate PROVE Typed'
  <2>1. current.about \in Slots
    BY <1>4 DEF MainTerminate, Request
  <2>2. queue' \in [Slots -> Seq(EventType \cup {Poison})] /\ deaf' \in SUBSET Slots
    BY <1>3, <1>4, <2>1 DEF MainTerminate, Terminate
  <2>3. \/ mpc' = "answer" /\ target' = target
        \/ mpc' = "join" /\ target' = current.about
    BY <1>4 DEF MainTerminate, Terminate
  <2>4. UNCHANGED <<freed, life, thread, terminated, parent, handles, refs, result,
                   joins, mainQueue, current, calls, collected>>
    BY <1>4 DEF MainTerminate
  <2>5. current \in Request /\ current.kind = "terminate"
    BY <1>4 DEF MainTerminate
  <2> QED BY <2>1, <2>2, <2>3, <2>4, <2>5
<1>5. ASSUME MainJoin PROVE Typed'
  <2>1. Append(freed, target) \in Seq(Slots)
    BY <1>5 DEF MainJoin
  <2> QED BY <1>5, <2>1 DEF MainJoin, Joined
<1>6. ASSUME MainAnswer PROVE Typed'
  <2>1. current \in EventType /\ current.owner \in Slots
    BY <1>6 DEF MainAnswer, Request, EventType
  <2>2. queue' \in [Slots -> Seq(EventType \cup {Poison})] /\ deaf' \in SUBSET Slots
    BY <1>6, <2>1, PostTyped, PostDeaf DEF MainAnswer
  <2> QED BY <1>6, <2>1, <2>2 DEF MainAnswer
<1>7. ASSUME MainQuit PROVE Typed'
  <2>1. Append(freed, MainSlot) \in Seq(Slots)
    OBVIOUS
  <2>2. (queue' = queue /\ deaf' = deaf) \/ Posts(queue, None, MainSlot, Poison)
    BY <1>7 DEF MainQuit, Terminate
  <2>3. queue' \in [Slots -> Seq(EventType \cup {Poison})] /\ deaf' \in SUBSET Slots
    BY <1>3, <2>2
  <2>4. freed' \in Seq(Slots)
    BY <1>7, <2>1 DEF MainQuit, Terminate
  <2>5. \/ mpc' = "dispose" /\ target' = target
        \/ mpc' = "quitJoin" /\ target' = MainSlot
    BY <1>7 DEF MainQuit, Terminate
  <2>6. UNCHANGED <<life, thread, terminated, parent, handles, refs, result, joins,
                   mainQueue, current, calls, collected>>
    BY <1>7 DEF MainQuit
  <2>7. current = NoEvent
    BY <1>7 DEF MainQuit
  <2> QED BY <2>3, <2>4, <2>5, <2>6, <2>7
<1>8. ASSUME MainQuitJoin PROVE Typed'
  <2>1. Append(freed, target) \in Seq(Slots)
    BY <1>8 DEF MainQuitJoin
  <2> QED BY <1>8, <2>1 DEF MainQuitJoin, Joined
<1>9. ASSUME MainDispose PROVE Typed'
  BY <1>9 DEF MainDispose
<1> QED BY <1>1, <1>2, <1>4, <1>5, <1>6, <1>7, <1>8, <1>9 DEF Main

LEMMA TypedStep == Typed /\ [Next]_vars => Typed'
<1>1. ASSUME Typed, UNCHANGED vars PROVE Typed'
  BY <1>1 DEF vars, Typed, TypeOK, MainJoins
<1>2. ASSUME Typed, NEW w \in Slots, Wake(w) PROVE Typed'
  BY <1>2 DEF Wake, Typed, TypeOK, MainJoins
<1> QED BY <1>1, <1>2, ScriptTyped, LoopTyped, MainTyped DEF Next
-----------------------------------------------------------------------------
(* What a step of a worker leaves alone. *)

(* It touches neither the slots nor the main thread's locals, and of the    *)
(* threads only its own; an ended thread stays ended.                       *)
LEMMA WorkerFrame ==
    ASSUME Typed, NEW w \in Slots, Script(w) \/ Loop(w)
    PROVE  /\ UNCHANGED <<freed, life, parent, mpc, current, target>>
           /\ \A s \in Slots : s # w => thread'[s] = thread[s]
           /\ thread[w] \in {"none", "done"} => thread'[w] = thread[w]
           /\ thread'[w] \in Running => thread[w] \in Running
           /\ thread[w] \in Running => thread'[w] \in Running \cup {"closing"}
           /\ thread'[w] = "none" => thread[w] = "none"
           /\ \A s \in Slots :
                 terminated'[s] => terminated[s] \/ thread[s] = "done"
<1> USE DEF Typed, TypeOK, Call, Running, Pops
<1>1. ASSUME NEW t \in {"script", "wait", "blocked", "closing", "done"},
             thread' = [thread EXCEPT ![w] = t], thread[w] \in Running \cup {"closing"},
             t \in Running => thread[w] \in Running,
             t = "done" => thread[w] = "closing"
      PROVE  /\ \A s \in Slots : s # w => thread'[s] = thread[s]
             /\ thread[w] \in {"none", "done"} => thread'[w] = thread[w]
             /\ thread'[w] \in Running => thread[w] \in Running
             /\ thread[w] \in Running => thread'[w] \in Running \cup {"closing"}
             /\ thread'[w] = "none" => thread[w] = "none"
  BY <1>1
<1>2. CASE ScriptCreate(w)
  BY <1>2, <1>1 DEF ScriptCreate
<1>3. CASE \E h \in Slots : ScriptTerminate(w, h) \/ ScriptSend(w, h) \/ Collect(w, h)
  BY <1>3 DEF ScriptTerminate, ScriptSend, Collect
<1>4. CASE ScriptCreated(w)
  BY <1>4, <1>1 DEF ScriptCreated
<1>5. CASE ScriptEnds(w)
  BY <1>5, <1>1 DEF ScriptEnds
<1>6. CASE PopTerminate(w) \/ PopAnswer(w) \/ PopReceipt(w)
  BY <1>6, <1>1 DEF PopTerminate, PopAnswer, PopReceipt
<1>7. CASE PopMessage(w)
  BY <1>7, <1>1 DEF PopMessage
<1>8. CASE \E c \in Slots : CloseChild(w, c)
  BY <1>8 DEF CloseChild
<1>9. CASE JoinChild(w)
  BY <1>9 DEF JoinChild
<1>10. CASE CloseDone(w)
  BY <1>10, <1>1 DEF CloseDone
<1> QED BY <1>2, <1>3, <1>4, <1>5, <1>6, <1>7, <1>8, <1>9, <1>10 DEF Script, Loop

(* It puts into queues messages, and the poison only by CloseChild.         *)
LEMMA WorkerQueues ==
    ASSUME Typed, NEW w \in Slots, Script(w) \/ Loop(w), NEW s \in Slots,
           NEW x \in Range(queue'[s])
    PROVE  \/ x \in Range(queue[s])
           \/ x.kind = "message"
           \/ x = Poison /\ CloseChild(w, s)
<1> USE DEF Typed, TypeOK, Pops
<1>1. ASSUME queue[w] # <<>>
      PROVE  /\ Tail(queue[w]) \in Seq(EventType \cup {Poison})
             /\ \A y \in Range(Tail(queue[w])) : y \in Range(queue[w])
             /\ Head(queue[w]) \in EventType \cup {Poison}
  BY <1>1, TailRange
<1>2. ASSUME NEW r \in Slots, NEW e \in EventType \cup {Poison}
      PROVE  \A y \in Range(Append(queue[r], e)) : y \in Range(queue[r]) \/ y = e
  <2>1. queue[r] \in Seq(EventType \cup {Poison})
    OBVIOUS
  <2> HIDE DEF Typed, TypeOK
  <2> QED BY <2>1, PostRange
<1>3. CASE queue' = queue
  BY <1>3
<1>4. CASE \E h \in Slots : ScriptSend(w, h)
  <2>1. PICK h \in Slots : ScriptSend(w, h)
    BY <1>4
  <2>2. Event("message", w, h) \in EventType /\ Event("message", w, h).kind = "message"
    BY EventTyped DEF Event
  <2>3. \/ queue' = queue
        \/ queue' = [queue EXCEPT ![h] = Append(@, Event("message", w, h))]
    BY <2>1 DEF ScriptSend, Posts
  <2> QED BY <1>2, <1>3, <2>2, <2>3
<1>5. CASE PopTerminate(w) \/ PopAnswer(w) \/ PopReceipt(w)
  <2>1. queue[w] # <<>> /\ queue' = [queue EXCEPT ![w] = Tail(@)]
    BY <1>5 DEF PopTerminate, PopAnswer, PopReceipt
  <2> QED BY <1>1, <2>1
<1>6. CASE PopMessage(w)
  <2> DEFINE e == Head(queue[w])
  <2>1. e \in EventType /\ e.owner \in Slots /\ e.kind = "message" /\ queue[w] # <<>>
    BY <1>1, <1>6 DEF PopMessage, Poison, EventType
  <2>2. e.owner # w
    BY <1>6 DEF PopMessage
  <2>4. PICK q : /\ q = [queue EXCEPT ![w] = Tail(@)]
                 /\ queue' = q \/ queue' = [q EXCEPT ![e.owner] = Append(@, e)]
    BY <1>6 DEF PopMessage, Posts
  <2>3. \/ queue'[s] = queue[s]
        \/ s = w /\ queue'[s] = Tail(queue[w])
        \/ s = e.owner /\ queue'[s] = Append(queue[s], e)
    BY <2>1, <2>2, <2>4
  <2> QED BY <1>1, <1>2, <2>1, <2>3
<1>7. CASE \E c \in Slots : CloseChild(w, c)
  <2>1. PICK c \in Slots : CloseChild(w, c)
    BY <1>7
  <2>2. queue' = queue \/ queue' = [queue EXCEPT ![c] = Append(@, Poison)]
    BY <2>1 DEF CloseChild, Posts
  <2> QED BY <1>2, <1>3, <2>1, <2>2
<1>8. CASE \/ ScriptCreate(w)
           \/ \E h \in Slots : ScriptTerminate(w, h) \/ Collect(w, h)
           \/ ScriptCreated(w) \/ ScriptEnds(w) \/ JoinChild(w) \/ CloseDone(w)
  <2>1. queue' = queue
    BY <1>8 DEF ScriptCreate, ScriptTerminate, Collect, ScriptCreated, ScriptEnds,
                JoinChild, CloseDone
  <2> QED BY <1>3, <2>1
<1> QED BY <1>4, <1>5, <1>6, <1>7, <1>8 DEF Script, Loop
-----------------------------------------------------------------------------
(* The chain. *)

LEMMA EmptyChain ==
    ASSUME Typed',
           \A w \in Slots : thread'[w] # "closing" /\ joins'[w] = None,
           \A w \in Slots : Told(w)' => MainJoins' /\ w = target'
    PROVE  Chain'
<1>1. <<>> \in Seq(Slots) /\ Len(<<>>) = 0
  OBVIOUS
<1>2. IsChain(<<>>)'
  BY <1>1 DEF IsChain
<1> QED BY <1>1, <1>2 DEF Chain

(* A step that starts and ends no closing, joins nobody and tells nobody    *)
(* keeps the chain.                                                         *)
LEMMA QuietChain ==
    ASSUME Typed, Typed', Chain,
           \A w \in Slots : thread'[w] = "closing" <=> thread[w] = "closing",
           joins' = joins,
           MainJoins => MainJoins' /\ target' = target,
           \A w \in Slots : Told(w)' => Told(w)
    PROVE  Chain'
<1>1. PICK p \in Seq(Slots) : IsChain(p)
  BY DEF Chain
<1>2. IsChain(p)'
  BY <1>1 DEF IsChain
<1> QED BY <1>2 DEF Chain

(* What the chain says while the main thread joins nobody, or somebody      *)
(* whose thread has ended: nobody closes and nobody is told.                *)
LEMMA NoChain ==
    ASSUME Typed, Chain, ~ MainJoins \/ thread[target] = "done"
    PROVE  \A w \in Slots : thread[w] # "closing" /\ joins[w] = None /\ ~ Told(w)
<1>1. PICK p \in Seq(Slots) : IsChain(p)
  BY DEF Chain
<1>2. Len(p) = 0
  <2>1. ASSUME Len(p) > 0 PROVE FALSE
    <3>1. 1 \in 1 .. Len(p) /\ p[1] \in Slots /\ MainJoins /\ p[1] = target
      BY <1>1, <2>1 DEF IsChain
    <3>2. thread[p[1]] = "closing"
      BY <1>1, <3>1 DEF IsChain
    <3> QED BY <3>1, <3>2
  <2> QED BY <2>1, LenProperties
<1>3. \A w \in Slots : thread[w] # "closing"
  BY <1>1, <1>2 DEF IsChain
<1>4. \A w \in Slots : joins[w] = None
  BY <1>1, <1>3 DEF IsChain
<1>5. ASSUME NEW w \in Slots, Told(w) PROVE FALSE
  <2>1. MainJoins /\ w = target
    BY <1>1, <1>2, <1>5 DEF IsChain
  <2>2. thread[w] \in Running
    BY <1>5 DEF Told
  <2> QED BY <2>1, <2>2 DEF Running
<1> QED BY <1>3, <1>4, <1>5

(* The last of the chain is the only one that joins nobody who closes.      *)
LEMMA LastOfChain ==
    ASSUME Typed, NEW p \in Seq(Slots), IsChain(p), NEW w \in Slots,
           thread[w] = "closing",
           joins[w] = None \/ thread[joins[w]] # "closing"
    PROVE  Len(p) > 0 /\ p[Len(p)] = w /\ \A i \in 1 .. Len(p) - 1 : p[i] # w
<1>1. PICK i \in 1 .. Len(p) : p[i] = w
  BY DEF IsChain
<1>2. ASSUME NEW j \in 1 .. Len(p) - 1, p[j] = w PROVE FALSE
  <2>1. j + 1 \in 1 .. Len(p) /\ p[j + 1] \in Slots
    OBVIOUS
  <2>2. thread[p[j + 1]] = "closing" /\ joins[w] = p[j + 1]
    BY <1>2, <2>1 DEF IsChain
  <2> QED BY <2>1, <2>2, SlotsAssumption
<1>3. i = Len(p)
  BY <1>1, <1>2
<1> QED BY <1>1, <1>2, <1>3
LEMMA WorkerChain ==
    ASSUME Typed, Typed', Chain, NEW w \in Slots, Script(w) \/ Loop(w)
    PROVE  Chain'
<1>1. PICK p \in Seq(Slots) : IsChain(p)
  BY DEF Chain
<1>2. /\ UNCHANGED <<mpc, target>>
      /\ \A s \in Slots : s # w => thread'[s] = thread[s]
      /\ thread'[w] \in Running => thread[w] \in Running
  BY WorkerFrame
<1>3. MainJoins' <=> MainJoins
  BY <1>2 DEF MainJoins
<1>4. ASSUME NEW s \in Slots, Told(s)'
      PROVE  Told(s) \/ CloseChild(w, s)
  <2>1. thread[s] \in Running
    BY <1>2, <1>4 DEF Told
  <2>2. Poison \in Range(queue'[s])
    BY <1>4 DEF Told
  <2>3. Poison.kind # "message"
    BY DEF Poison
  <2> QED BY <2>1, <2>2, <2>3, WorkerQueues DEF Told
<1>5. CASE PopTerminate(w)
  <2>1. /\ thread[w] = "wait" /\ queue[w] # <<>> /\ Head(queue[w]).kind = "poison"
        /\ thread' = [thread EXCEPT ![w] = "closing"]
        /\ joins' = joins
    BY <1>5 DEF PopTerminate, Pops
  <2>2. Told(w)
    <3>1. queue[w] \in Seq(EventType \cup {Poison})
      BY DEF Typed, TypeOK
    <3>2. Head(queue[w]) \in EventType \cup {Poison} /\ Head(queue[w]) \in Range(queue[w])
      BY <2>1, <3>1, TailRange
    <3>3. Head(queue[w]) = Poison
      BY <2>1, <3>2 DEF EventType
    <3> QED BY <2>1, <3>2, <3>3 DEF Told, Running
  <2>3. MainJoins /\ IF Len(p) = 0 THEN w = target ELSE w = joins[p[Len(p)]]
    BY <1>1, <2>2 DEF IsChain
  <2>4. \A i \in 1 .. Len(p) : p[i] # w
    BY <1>1, <2>1 DEF IsChain
  <2>5. joins[w] = None
    BY <1>1, <2>1 DEF IsChain
  <2> DEFINE q == Append(p, w)
  <2>6. /\ q \in Seq(Slots) /\ Len(q) = Len(p) + 1 /\ q[Len(q)] = w
        /\ \A i \in 1 .. Len(p) : q[i] = p[i]
    OBVIOUS
  <2>7. \A s \in Slots : ~ Told(s)'
    <3>1. ASSUME NEW s \in Slots, Told(s)' PROVE FALSE
      <4>1. Told(s)
        BY <1>4, <1>5, <3>1, <2>1 DEF CloseChild
      <4>2. s = w
        BY <1>1, <2>3, <4>1 DEF IsChain
      <4>3. thread'[w] = "closing"
        BY <2>1 DEF Typed, TypeOK
      <4> QED BY <3>1, <4>2, <4>3 DEF Told, Running
    <3> QED BY <3>1
  <2>8. \A s \in Slots : thread'[s] = "closing" <=> thread[s] = "closing" \/ s = w
    BY <2>1 DEF Typed, TypeOK
  <2> HIDE DEF q
  <2>9. Len(p) \in Nat
    OBVIOUS
  <2>10. IsChain(q)'
    <3>1. \A i, j \in 1 .. Len(q) : q[i] = q[j] => i = j
      <4>1. \A i, j \in 1 .. Len(p) : p[i] = p[j] => i = j
        BY <1>1 DEF IsChain
      <4>2. \A i \in 1 .. Len(q) : i \in 1 .. Len(p) \/ i = Len(q)
        BY <2>6, <2>9
      <4> QED BY <2>4, <2>6, <2>9, <4>1, <4>2
    <3>2. \A s \in Slots : thread'[s] = "closing" <=> \E i \in 1 .. Len(q) : q[i] = s
      <4>1. ASSUME NEW s \in Slots
            PROVE  (\E i \in 1 .. Len(q) : q[i] = s)
                     <=> (\E i \in 1 .. Len(p) : p[i] = s) \/ s = w
        BY <2>6, <2>9
      <4> QED BY <1>1, <2>8, <4>1 DEF IsChain
    <3>3. MainJoins' /\ q[1] = target'
      <4>1. CASE Len(p) = 0
        BY <1>2, <1>3, <2>3, <2>6, <4>1
      <4>2. CASE Len(p) > 0
        <5>1. p[1] = target /\ q[1] = p[1]
          BY <1>1, <2>6, <2>9, <4>2 DEF IsChain
        <5> QED BY <1>2, <1>3, <2>3, <5>1
      <4> QED BY <2>9, <4>1, <4>2
    <3>4. \A i \in 1 .. Len(q) - 1 : joins'[q[i]] = q[i + 1]
      <4>1. ASSUME NEW i \in 1 .. Len(p) PROVE joins[p[i]] = q[i + 1]
        <5>1. CASE i = Len(p)
          BY <2>3, <2>6, <5>1
        <5>2. CASE i # Len(p)
          <6>1. i \in 1 .. Len(p) - 1 /\ i + 1 \in 1 .. Len(p)
            BY <2>9, <5>2
          <6> QED BY <1>1, <2>6, <6>1 DEF IsChain
        <5> QED BY <5>1, <5>2
      <4> QED BY <2>1, <2>6, <2>9, <4>1
    <3>5. \A s \in Slots : joins'[s] # None => thread'[s] = "closing"
      BY <1>1, <2>1, <2>8 DEF IsChain
    <3> QED BY <2>7, <3>1, <3>2, <3>3, <3>4, <3>5 DEF IsChain
  <2> QED BY <2>6, <2>10 DEF Chain
<1>6. CASE \E c \in Slots : CloseChild(w, c)
  <2>1. PICK c \in Slots : CloseChild(w, c)
    BY <1>6
  <2>2. /\ thread[w] = "closing" /\ joins[w] = None /\ thread' = thread
        /\ joins' = [joins EXCEPT ![w] = c] /\ c \in Slots
    BY <2>1 DEF CloseChild
  <2>3. Len(p) > 0 /\ p[Len(p)] = w /\ \A i \in 1 .. Len(p) - 1 : p[i] # w
    BY <1>1, <2>2, LastOfChain
  <2>4. \A s \in Slots : joins'[s] = IF s = w THEN c ELSE joins[s]
    BY <2>2 DEF Typed, TypeOK
  <2>5. ASSUME NEW s \in Slots, Told(s)' PROVE MainJoins' /\ s = joins'[p[Len(p)]]
    <3>1. Told(s) \/ s = c
      <4>1. CASE CloseChild(w, s)
        <5>1. s # c => joins'[w] = s /\ joins'[w] = c
          BY <2>2, <4>1 DEF CloseChild, Typed, TypeOK
        <5> QED BY <5>1
      <4> QED BY <1>4, <2>5, <4>1
    <3>2. Told(s) => s = None
      BY <1>1, <2>2, <2>3 DEF IsChain
    <3>3. s = c
      BY <3>1, <3>2, SlotsAssumption
    <3> QED BY <1>1, <1>3, <2>3, <2>4, <3>3 DEF IsChain
  <2>6. Len(p) \in Nat /\ \A i \in 1 .. Len(p) : p[i] \in Slots
    OBVIOUS
  <2>7. IsChain(p)'
    <3>1. \A i \in 1 .. Len(p) - 1 : joins'[p[i]] = p[i + 1]
      <4>1. ASSUME NEW i \in 1 .. Len(p) - 1 PROVE joins'[p[i]] = p[i + 1]
        <5>1. joins[p[i]] = p[i + 1]
          BY <1>1 DEF IsChain
        <5>2. p[i] \in Slots /\ p[i] # w
          BY <2>3, <2>6
        <5> QED BY <2>4, <5>1, <5>2
      <4> QED BY <4>1
    <3>2. \A s \in Slots : joins'[s] # None => thread'[s] = "closing"
      BY <1>1, <2>2, <2>4 DEF IsChain
    <3> QED BY <1>1, <1>2, <1>3, <2>2, <2>3, <2>5, <3>1, <3>2 DEF IsChain
  <2> QED BY <2>7 DEF Chain
<1>7. CASE JoinChild(w)
  <2>1. /\ joins[w] # None /\ thread[joins[w]] = "done" /\ thread' = thread
        /\ joins' = [joins EXCEPT ![w] = None] /\ queue' = queue
    BY <1>7 DEF JoinChild
  <2>2. thread[w] = "closing"
    BY <1>1, <2>1 DEF IsChain
  <2>3. Len(p) > 0 /\ p[Len(p)] = w /\ \A i \in 1 .. Len(p) - 1 : p[i] # w
    BY <1>1, <2>1, <2>2, LastOfChain
  <2>4. \A s \in Slots : joins'[s] = IF s = w THEN None ELSE joins[s]
    BY <2>1 DEF Typed, TypeOK
  <2>5. ASSUME NEW s \in Slots, Told(s)' PROVE FALSE
    <3>1. Told(s)
      BY <2>1, <2>5 DEF Told
    <3>2. s = joins[w]
      BY <1>1, <2>3, <3>1 DEF IsChain
    <3> QED BY <2>1, <3>1, <3>2 DEF Told, Running
  <2>6. Len(p) \in Nat /\ \A i \in 1 .. Len(p) : p[i] \in Slots
    OBVIOUS
  <2>7. IsChain(p)'
    <3>1. \A i \in 1 .. Len(p) - 1 : joins'[p[i]] = p[i + 1]
      <4>1. ASSUME NEW i \in 1 .. Len(p) - 1 PROVE joins'[p[i]] = p[i + 1]
        <5>1. joins[p[i]] = p[i + 1]
          BY <1>1 DEF IsChain
        <5>2. p[i] \in Slots /\ p[i] # w
          BY <2>3, <2>6
        <5> QED BY <2>4, <5>1, <5>2
      <4> QED BY <4>1
    <3>2. \A s \in Slots : joins'[s] # None => thread'[s] = "closing"
      BY <1>1, <2>1, <2>4 DEF IsChain
    <3> QED BY <1>1, <1>2, <1>3, <2>1, <2>5, <3>1, <3>2 DEF IsChain
  <2> QED BY <2>7 DEF Chain
<1>8. CASE CloseDone(w)
  <2>1. /\ thread[w] = "closing" /\ joins[w] = None /\ joins' = joins
        /\ thread' = [thread EXCEPT ![w] = "done"] /\ queue' = queue
    BY <1>8 DEF CloseDone
  <2>2. Len(p) > 0 /\ p[Len(p)] = w /\ \A i \in 1 .. Len(p) - 1 : p[i] # w
    BY <1>1, <2>1, LastOfChain
  <2> DEFINE q == SubSeq(p, 1, Len(p) - 1)
  <2>3. /\ q \in Seq(Slots) /\ Len(q) = Len(p) - 1
        /\ \A i \in 1 .. Len(q) : q[i] = p[i]
    <3> DEFINE n == Len(p) - 1
    <3>1. n \in Nat /\ 1 \in Int /\ n \in Int /\ n = Len(p) - 1
      BY <2>2
    <3>2. \A i \in 1 .. n : p[i] \in Slots
      BY <3>1
    <3> HIDE DEF n
    <3>3. /\ SubSeq(p, 1, n) \in Seq(Slots)
          /\ Len(SubSeq(p, 1, n)) = IF 1 <= n THEN n - 1 + 1 ELSE 0
          /\ \A i \in 1 .. n - 1 + 1 : SubSeq(p, 1, n)[i] = p[1 + i - 1]
      BY <3>1, <3>2, SubSeqProperties
    <3>4. \A i \in 1 .. n : SubSeq(p, 1, n)[i] = p[i]
      BY <3>1, <3>3
    <3> QED BY <3>1, <3>3, <3>4
  <2>4. \A s \in Slots : thread'[s] = IF s = w THEN "done" ELSE thread[s]
    BY <2>1 DEF Typed, TypeOK
  <2>5. ASSUME NEW s \in Slots, Told(s)' PROVE FALSE
    <3>1. Told(s)
      BY <1>2, <2>1, <2>5 DEF Told
    <3>2. s = None
      BY <1>1, <2>1, <2>2, <3>1 DEF IsChain
    <3> QED BY <3>2, SlotsAssumption
  <2> HIDE DEF q
  <2>6. Len(p) \in Nat
    OBVIOUS
  <2>7. IsChain(q)'
    <3>1. \A i, j \in 1 .. Len(q) : q[i] = q[j] => i = j
      BY <1>1, <2>3, <2>6 DEF IsChain
    <3>2. \A s \in Slots : thread'[s] = "closing" <=> \E i \in 1 .. Len(q) : q[i] = s
      <4>1. ASSUME NEW s \in Slots
            PROVE  (\E i \in 1 .. Len(q) : q[i] = s)
                     <=> (\E i \in 1 .. Len(p) : p[i] = s) /\ s # w
        BY <2>2, <2>3, <2>6
      <4>2. \A s \in Slots : thread'[s] = "closing" <=> thread[s] = "closing" /\ s # w
        BY <2>4
      <4> QED BY <1>1, <4>1, <4>2 DEF IsChain
    <3>3. Len(q) > 0 => MainJoins' /\ q[1] = target'
      BY <1>1, <1>2, <1>3, <2>3, <2>6 DEF IsChain
    <3>4. \A i \in 1 .. Len(q) - 1 : joins'[q[i]] = q[i + 1]
      BY <1>1, <2>1, <2>3, <2>6 DEF IsChain
    <3>5. \A s \in Slots : joins'[s] # None => thread'[s] = "closing"
      BY <1>1, <2>1, <2>4 DEF IsChain
    <3> QED BY <2>5, <3>1, <3>2, <3>3, <3>4, <3>5 DEF IsChain
  <2> QED BY <2>3, <2>7 DEF Chain
<1>9. CASE ~ PopTerminate(w) /\ ~ (\E c \in Slots : CloseChild(w, c))
           /\ ~ JoinChild(w) /\ ~ CloseDone(w)
  <2>1. joins' = joins /\ (thread'[w] = "closing" <=> thread[w] = "closing")
    BY <1>9 DEF Script, Loop, ScriptCreate, ScriptTerminate, ScriptSend, Collect, Call,
                ScriptCreated, ScriptEnds, PopAnswer, PopMessage, PopReceipt, Pops,
                Typed, TypeOK
  <2>2. \A s \in Slots : Told(s)' => Told(s)
    BY <1>4, <1>9
  <2> QED BY <1>2, <1>3, <2>1, <2>2, QuietChain
<1> QED BY <1>5, <1>6, <1>7, <1>8, <1>9
(* Worker::terminate on the main thread: it joins s, or changes nothing.    *)
LEMMA TerminateCases ==
    ASSUME Typed, NEW s \in Slots, NEW joining, NEW otherwise,
           Terminate(s, joining, otherwise)
    PROVE  \/ terminated[s] /\ mpc' = otherwise /\ queue' = queue /\ target' = target
           \/ /\ ~ terminated[s] /\ mpc' = joining /\ target' = s
              /\ \A w \in Slots : w # s => queue'[w] = queue[w]
              /\ \A x \in Range(queue'[s]) : x \in Range(queue[s]) \/ x = Poison
<1>1. queue[s] \in Seq(EventType \cup {Poison})
  BY DEF Typed, TypeOK
<1>2. \A x \in Range(Append(queue[s], Poison)) : x \in Range(queue[s]) \/ x = Poison
  BY <1>1, PostRange
<1>3. CASE terminated[s]
  BY <1>3 DEF Terminate
<1>4. CASE ~ terminated[s]
  <2>1. /\ mpc' = joining /\ target' = s
        /\ queue' = queue \/ queue' = [queue EXCEPT ![s] = Append(@, Poison)]
    BY <1>4 DEF Terminate, Posts
  <2> QED BY <1>2, <1>4, <2>1 DEF Typed, TypeOK
<1> QED BY <1>3, <1>4

LEMMA MainChain ==
    ASSUME Typed, Typed', Chain, Main \/ MainQuit
    PROVE  Chain'
<1>1. ASSUME NEW s \in Slots, thread' = thread, joins' = joins, ~ MainJoins,
             Terminate(s, "join", "answer") \/ Terminate(s, "quitJoin", "dispose")
      PROVE  Chain'
  <2>1. \A w \in Slots : thread[w] # "closing" /\ joins[w] = None /\ ~ Told(w)
    BY <1>1, NoChain
  <2>2. ASSUME NEW w \in Slots, Told(w)' PROVE MainJoins' /\ w = target'
    <3>1. w = s /\ target' = s /\ mpc' \in {"join", "quitJoin"}
      BY <1>1, <2>1, <2>2, TerminateCases DEF Told
    <3> QED BY <3>1 DEF MainJoins
  <2> QED BY <1>1, <2>1, <2>2, EmptyChain
<1>2. ASSUME thread' = thread, joins' = joins, queue' = queue,
             ~ MainJoins \/ thread[target] = "done"
      PROVE  Chain'
  <2>1. \A w \in Slots : thread[w] # "closing" /\ joins[w] = None /\ ~ Told(w)
    BY <1>2, NoChain
  <2>2. \A w \in Slots : ~ Told(w)'
    BY <1>2, <2>1 DEF Told
  <2> QED BY <1>2, <2>1, <2>2, EmptyChain
<1>3. CASE MainPop \/ MainDispose
  BY <1>2, <1>3 DEF MainPop, MainDispose, MainJoins
<1>4. CASE \E s \in Slots : NewWorker(s)
  <2>1. PICK s \in Slots : NewWorker(s)
    BY <1>4
  <2>2. /\ mpc = "work" /\ joins' = joins
        /\ thread' = [thread EXCEPT ![s] = "script"]
        /\ queue' = [queue EXCEPT ![s] = <<>>]
    BY <2>1 DEF NewWorker
  <2>3. \A w \in Slots : thread[w] # "closing" /\ joins[w] = None /\ ~ Told(w)
    BY <2>2, NoChain DEF MainJoins
  <2>4. \A w \in Slots : thread'[w] = IF w = s THEN "script" ELSE thread[w]
    BY <2>2 DEF Typed, TypeOK
  <2>5. \A w \in Slots : queue'[w] = IF w = s THEN <<>> ELSE queue[w]
    BY <2>2 DEF Typed, TypeOK
  <2>6. Poison \notin Range(<<>>)
    BY DEF Range
  <2>7. ASSUME NEW w \in Slots PROVE ~ Told(w)'
    BY <2>3, <2>4, <2>5, <2>6 DEF Told
  <2> QED BY <2>2, <2>3, <2>4, <2>7, EmptyChain
<1>5. CASE MainTerminate
  <2>1. current.about \in Slots
    BY <1>5 DEF MainTerminate, Typed, Request
  <2> QED BY <1>1, <1>5, <2>1 DEF MainTerminate, MainJoins
<1>6. CASE MainQuit
  <2>1. thread' = thread /\ joins' = joins /\ mpc = "loop"
    BY <1>6 DEF MainQuit
  <2>2. queue' = queue \/ Terminate(MainSlot, "quitJoin", "dispose")
    BY <1>6 DEF MainQuit
  <2> QED BY <1>1, <1>2, <2>1, <2>2, SlotsAssumption DEF MainJoins
<1>7. CASE MainJoin \/ MainQuitJoin
  BY <1>2, <1>7 DEF MainJoin, MainQuitJoin, Joined
<1>8. CASE MainAnswer
  <2>1. /\ mpc = "answer" /\ thread' = thread /\ joins' = joins
        /\ \/ queue' = queue
           \/ queue' = [queue EXCEPT ![current.owner] = Append(@, current)]
    BY <1>8 DEF MainAnswer, Posts
  <2>2. current \in EventType /\ current.owner \in Slots /\ current # Poison
    BY <2>1, Kinds DEF Typed, Request, EventType
  <2>3. \A w \in Slots : thread[w] # "closing" /\ joins[w] = None /\ ~ Told(w)
    BY <2>1, NoChain DEF MainJoins
  <2>4. \A x \in Range(Append(queue[current.owner], current)) :
           x \in Range(queue[current.owner]) \/ x = current
    <3>1. queue[current.owner] \in Seq(EventType \cup {Poison})
      BY <2>2 DEF Typed, TypeOK
    <3> QED BY <2>2, <3>1, PostRange
  <2>5. \A w \in Slots :
           \/ queue'[w] = queue[w]
           \/ w = current.owner /\ queue'[w] = Append(queue[w], current)
    <3>1. CASE queue' = queue
      BY <3>1
    <3>2. CASE queue' = [queue EXCEPT ![current.owner] = Append(@, current)]
      BY <3>2 DEF Typed, TypeOK
    <3> QED BY <2>1, <3>1, <3>2
  <2>6. \A w \in Slots : ~ Told(w)'
    BY <2>1, <2>2, <2>3, <2>4, <2>5 DEF Told
  <2> QED BY <2>1, <2>3, <2>6, EmptyChain
<1> QED BY <1>3, <1>4, <1>5, <1>6, <1>7, <1>8 DEF Main, MainCreate, MainHangs

(* Nobody closes unless the main thread joins.                              *)
LEMMA ChainCloses == Typed /\ Chain => ClosesOnlyInsideJoin
  BY NoChain DEF ClosesOnlyInsideJoin
-----------------------------------------------------------------------------
(* The slots. *)

LEMMA WorkerSlotted ==
    ASSUME Typed, Typed', Slotted, NEW w \in Slots, Script(w) \/ Loop(w)
    PROVE  Slotted'
<1>1. /\ UNCHANGED <<freed, life, mpc, target>>
      /\ \A s \in Slots : thread[s] \in {"none", "done"} => thread'[s] = thread[s]
      /\ \A s \in Slots : terminated'[s] => terminated[s] \/ thread[s] = "done"
  BY WorkerFrame
<1>2. MainJoins' <=> MainJoins
  BY <1>1 DEF MainJoins
<1>3. \A i \in DOMAIN freed : freed[i] \in Slots
  BY DEF Typed, TypeOK
<1>4. \A s \in Slots : terminated[s] => terminated'[s]
  <2>1. terminated' = terminated \/ JoinChild(w)
    BY DEF Script, Loop, ScriptCreate, ScriptTerminate, ScriptSend, Collect,
           ScriptCreated, ScriptEnds, PopTerminate, PopAnswer, PopMessage, PopReceipt,
           CloseChild, CloseDone
  <2> QED BY <2>1 DEF JoinChild, Typed, TypeOK
<1> QED BY <1>1, <1>2, <1>3, <1>4 DEF Slotted, FreedAreDone
LEMMA MainSlotted ==
    ASSUME Typed, Typed', Working, Slotted, Main \/ MainQuit
    PROVE  Slotted'
<1> USE DEF MainJoins
<1>1. /\ Len(freed) \in Nat
      /\ \A i \in 1 .. Len(freed) : freed[i] \in Slots
      /\ DOMAIN freed = 1 .. Len(freed)
  <2>1. freed \in Seq(Slots)
    BY DEF Typed, TypeOK
  <2> QED BY <2>1
<1>2. ASSUME UNCHANGED <<freed, thread, terminated, life>>,
             MainJoins' => MainJoins /\ target' = target
      PROVE  Slotted'
  BY <1>1, <1>2 DEF Slotted, FreedAreDone
<1>3. ASSUME NEW s \in Slots, thread[s] = "done", freed' = Append(freed, s),
             \A i \in DOMAIN freed : freed[i] # s,
             thread' = thread, life' = life, ~ MainJoins',
             terminated' = [terminated EXCEPT ![s] = TRUE]
      PROVE  Slotted'
  <2>1. /\ DOMAIN freed' = 1 .. Len(freed) + 1
        /\ \A i \in 1 .. Len(freed) : freed'[i] = freed[i]
        /\ freed'[Len(freed) + 1] = s
    BY <1>1, <1>3
  <2>2. \A r \in Slots : terminated'[r] <=> terminated[r] \/ r = s
    BY <1>3 DEF Typed, TypeOK
  <2>3. \A i \in 1 .. Len(freed) + 1 : thread[freed'[i]] = "done" /\ terminated'[freed'[i]]
    <3>1. \A i \in 1 .. Len(freed) : thread[freed[i]] = "done" /\ terminated[freed[i]]
      BY <1>1 DEF Slotted, FreedAreDone
    <3> QED BY <1>1, <1>3, <2>1, <2>2, <3>1
  <2>4. \A i, j \in 1 .. Len(freed) + 1 : freed'[i] = freed'[j] => i = j
    <3>1. \A i, j \in 1 .. Len(freed) : freed[i] = freed[j] => i = j
      BY <1>1 DEF Slotted, FreedAreDone
    <3> QED BY <1>1, <1>3, <2>1, <3>1
  <2> QED BY <1>3, <2>1, <2>2, <2>3, <2>4 DEF Slotted, FreedAreDone
<1>4. ASSUME NEW s \in Slots, ~ terminated[s], target' = s,
             UNCHANGED <<freed, thread, terminated, life>>
      PROVE  Slotted'
  BY <1>1, <1>4 DEF Slotted, FreedAreDone
<1>5. CASE MainPop \/ MainAnswer \/ MainDispose
  BY <1>2, <1>5 DEF MainPop, MainAnswer, MainDispose
<1>6. CASE \E s \in Slots : MainCreate(s) \/ MainHangs(s)
  <2>1. PICK s \in Slots : MainCreate(s) \/ MainHangs(s)
    BY <1>6
  <2>2. /\ s \in NextSlot /\ mpc' \in {"loop", "hung"}
        /\ freed' = IF freed = <<>> THEN freed ELSE Front(freed)
        /\ life' = [life EXCEPT ![s] = @ + 1]
        /\ thread' = [thread EXCEPT ![s] = "script"]
        /\ terminated' = [terminated EXCEPT ![s] = FALSE]
    BY <2>1 DEF MainCreate, MainHangs, NewWorker
  <2>3. \A i \in DOMAIN freed' :
           i \in DOMAIN freed /\ freed'[i] = freed[i] /\ freed[i] # s
    <3>1. CASE freed = <<>>
      BY <2>2, <3>1
    <3>2. CASE freed # <<>>
      <4>1. s = freed[Len(freed)] /\ Len(freed) \in 1 .. Len(freed)
        BY <1>1, <2>2, <3>2 DEF NextSlot, Last
      <4>2. /\ DOMAIN freed' = 1 .. Len(freed) - 1
            /\ \A i \in 1 .. Len(freed) - 1 : freed'[i] = freed[i]
        BY <1>1, <2>2, <3>2 DEF Front
      <4>3. \A i, j \in 1 .. Len(freed) : freed[i] = freed[j] => i = j
        BY <1>1 DEF Slotted, FreedAreDone
      <4> QED BY <1>1, <4>1, <4>2, <4>3
    <3> QED BY <3>1, <3>2
  <2>4. /\ \A r \in Slots : thread'[r] = IF r = s THEN "script" ELSE thread[r]
        /\ \A r \in Slots : terminated'[r] = IF r = s THEN FALSE ELSE terminated[r]
        /\ \A r \in Slots : r # s => life'[r] = life[r]
        /\ life'[s] # 0
    BY <2>2 DEF Typed, TypeOK
  <2>5. \A i \in DOMAIN freed' : thread'[freed'[i]] = "done" /\ terminated'[freed'[i]]
    <3>1. \A i \in DOMAIN freed : thread[freed[i]] = "done" /\ terminated[freed[i]]
      BY DEF Slotted, FreedAreDone
    <3>2. ASSUME NEW i \in DOMAIN freed'
          PROVE  thread'[freed'[i]] = "done" /\ terminated'[freed'[i]]
      <4>1. i \in DOMAIN freed /\ freed'[i] = freed[i] /\ freed[i] # s
        BY <2>3
      <4>2. freed[i] \in Slots /\ thread[freed[i]] = "done" /\ terminated[freed[i]]
        BY <1>1, <3>1, <4>1
      <4> QED BY <2>4, <4>1, <4>2
    <3> QED BY <3>2
  <2>6. \A i, j \in DOMAIN freed' : freed'[i] = freed'[j] => i = j
    <3>1. \A i, j \in DOMAIN freed : freed[i] = freed[j] => i = j
      BY DEF Slotted, FreedAreDone
    <3> QED BY <2>3, <3>1
  <2>7. \A r \in Slots : terminated'[r] => thread'[r] = "done"
    BY <2>4 DEF Slotted
  <2>8. \A r \in Slots : life'[r] = 0 => thread'[r] = "none"
    BY <2>4 DEF Slotted
  <2>9. ~ MainJoins'
    BY <2>2
  <2> QED BY <2>5, <2>6, <2>7, <2>8, <2>9 DEF Slotted, FreedAreDone
<1>7. CASE MainTerminate
  <2>1. current.about \in Slots
    BY <1>7 DEF MainTerminate, Typed, Request
  <2>2. UNCHANGED <<freed, thread, terminated, life>>
        /\ Terminate(current.about, "join", "answer")
    BY <1>7 DEF MainTerminate
  <2> QED BY <1>2, <1>4, <2>1, <2>2, TerminateCases
<1>8. CASE MainQuit
  <2>1. UNCHANGED <<thread, terminated, life>>
    BY <1>8 DEF MainQuit
  <2>2. CASE MainSlot \in Range(freed)
    BY <1>2, <1>8, <2>1, <2>2 DEF MainQuit
  <2>3. CASE MainSlot \notin Range(freed)
    <3>1. /\ Terminate(MainSlot, "quitJoin", "dispose")
          /\ freed' = IF terminated[MainSlot] THEN Append(freed, MainSlot) ELSE freed
      BY <1>8, <2>3 DEF MainQuit
    <3>2. CASE terminated[MainSlot]
      <4>1. mpc' = "dispose" /\ freed' = Append(freed, MainSlot)
        BY <3>1, <3>2 DEF Terminate
      <4>2. terminated' = [terminated EXCEPT ![MainSlot] = TRUE]
        BY <2>1, <3>2 DEF Typed, TypeOK
      <4>3. thread[MainSlot] = "done"
        BY <3>2, SlotsAssumption DEF Slotted
      <4>4. \A i \in DOMAIN freed : freed[i] # MainSlot
        BY <2>3 DEF Range
      <4> QED BY <1>3, <2>1, <4>1, <4>2, <4>3, <4>4, SlotsAssumption
    <3>3. CASE ~ terminated[MainSlot]
      BY <1>4, <2>1, <3>1, <3>3, SlotsAssumption DEF Terminate
    <3> QED BY <3>2, <3>3
  <2> QED BY <2>2, <2>3
<1>9. CASE MainJoin \/ MainQuitJoin
  <2>1. /\ MainJoins /\ thread[target] = "done" /\ freed' = Append(freed, target)
        /\ thread' = thread /\ life' = life /\ ~ MainJoins'
        /\ terminated' = [terminated EXCEPT ![target] = TRUE]
    BY <1>9 DEF MainJoin, MainQuitJoin, Joined
  <2>2. target \in Slots
    BY <2>1 DEF Typed
  <2>3. \A i \in DOMAIN freed : freed[i] # target
    BY <2>1 DEF Slotted
  <2> QED BY <1>3, <2>1, <2>2, <2>3
<1> QED BY <1>5, <1>6, <1>7, <1>8, <1>9 DEF Main
-----------------------------------------------------------------------------
(* The worker that asked. *)
LEMMA WorkerWorking ==
    ASSUME Typed, Typed', Chain', Working, NEW w \in Slots, Script(w) \/ Loop(w)
    PROVE  Working'
<1>1. /\ UNCHANGED <<life, mpc, current>>
      /\ \A s \in Slots : s # w => thread'[s] = thread[s]
      /\ thread[w] \in Running => thread'[w] \in Running \cup {"closing"}
  BY WorkerFrame
<1>2. ASSUME mpc' = "work" PROVE OwnerLives(current)'
  <2>1. current.owner \in Slots
    BY <1>1, <1>2 DEF Typed, Request, EventType
  <2>2. thread[current.owner] \in Running /\ current.life = life[current.owner]
    BY <1>1, <1>2 DEF Working, WorksForLiveOwner, OwnerLives
  <2>3. ClosesOnlyInsideJoin'
    BY ChainCloses, PTL
  <2>4. \A s \in Slots : thread'[s] # "closing"
    BY <1>2, <2>3 DEF MainJoins, ClosesOnlyInsideJoin
  <2> QED BY <1>1, <2>1, <2>2, <2>4 DEF OwnerLives
<1> QED BY <1>1, <1>2 DEF Working, WorksForLiveOwner

LEMMA MainWorking ==
    ASSUME Typed, Typed', Working, Main \/ MainQuit
    PROVE  Working'
<1>1. CASE MainPop
  <2>1. /\ mpc = "loop" /\ life' = life /\ thread' = thread
        /\ \/ mpc' = mpc
           \/ mpc' = "work" /\ current' = Head(mainQueue) /\ OwnerLives(current')
    BY <1>1 DEF MainPop, Canceled
  <2> QED BY <2>1 DEF Working, WorksForLiveOwner, OwnerLives
<1>2. CASE MainTerminate
  <2>1. /\ mpc = "work" /\ life' = life /\ thread' = thread /\ current' = current
        /\ mpc' \in {"join", "answer"}
    BY <1>2 DEF MainTerminate, Terminate
  <2> QED BY <2>1 DEF Working, WorksForLiveOwner
<1>3. CASE MainJoin
  <2>1. mpc = "join" /\ mpc' = "answer" /\ life' = life /\ current' = current
    BY <1>3 DEF MainJoin, Joined
  <2> QED BY <2>1 DEF Working, WorksForLiveOwner
<1>4. CASE (\E s \in Slots : MainCreate(s) \/ MainHangs(s)) \/ MainAnswer \/ MainQuit
           \/ MainQuitJoin \/ MainDispose
  <2>1. mpc' \in {"loop", "hung", "quitJoin", "dispose", "disposed"}
    BY <1>4 DEF MainCreate, MainHangs, MainAnswer, MainQuit, MainQuitJoin, MainDispose, Terminate,
                Joined
  <2> QED BY <2>1 DEF Working, WorksForLiveOwner
<1> QED BY <1>1, <1>2, <1>3, <1>4 DEF Main
-----------------------------------------------------------------------------
(* Parents and children. *)

LEMMA WorkerFamily ==
    ASSUME Typed, Typed', Slotted, Family, NEW w \in Slots, Script(w) \/ Loop(w)
    PROVE  Family'
<1>1. /\ UNCHANGED <<parent, mpc, target>>
      /\ \A s \in Slots : s # w => thread'[s] = thread[s]
      /\ thread[w] \in {"none", "done"} => thread'[w] = thread[w]
      /\ thread'[w] \in Running => thread[w] \in Running
      /\ thread'[w] = "none" => thread[w] = "none"
  BY WorkerFrame
<1>2. ASSUME NEW c \in Slots, thread'[c] \in Running, parent[c] # None,
             c \in handles'[parent[c]]
      PROVE  thread'[parent[c]] # "done"
  <2>1. parent[c] \in Slots /\ thread[c] \in Running
    BY <1>1, <1>2 DEF Typed, TypeOK
  <2>2. CASE CloseDone(w)
    <3>1. /\ handles' = handles /\ Children(w) = {}
          /\ thread' = [thread EXCEPT ![w] = "done"]
      BY <2>2 DEF CloseDone
    <3>2. CASE parent[c] = w
      <4>1. terminated[c]
        BY <1>2, <3>1, <3>2 DEF Children
      <4> QED BY <2>1, <4>1 DEF Slotted, Running
    <3>3. CASE parent[c] # w
      BY <1>1, <1>2, <2>1, <3>1, <3>3 DEF Family, ChildrenEndFirst
    <3> QED BY <3>2, <3>3
  <2>3. CASE ScriptCreated(w)
    <3>1. /\ handles' = [handles EXCEPT ![w] = @ \cup {result[w]}]
          /\ thread' = [thread EXCEPT ![w] = "script"]
      BY <2>3 DEF ScriptCreated
    <3>2. CASE parent[c] = w
      BY <3>1, <3>2 DEF Typed, TypeOK
    <3>3. CASE parent[c] # w
      <4>1. handles'[parent[c]] = handles[parent[c]]
        BY <2>1, <3>1, <3>3 DEF Typed, TypeOK
      <4> QED BY <1>1, <1>2, <2>1, <3>3, <4>1 DEF Family, ChildrenEndFirst
    <3> QED BY <3>2, <3>3
  <2>4. CASE ~ CloseDone(w) /\ ~ ScriptCreated(w)
    <3>1. handles' = handles \/ \E h \in Slots : Collect(w, h)
      BY <2>4 DEF Script, Loop, ScriptCreate, ScriptTerminate, ScriptSend, ScriptEnds,
                  PopTerminate, PopAnswer, PopMessage, PopReceipt, CloseChild, JoinChild
    <3>2. c \in handles[parent[c]]
      <4>1. CASE handles' = handles
        BY <1>2, <4>1
      <4>2. CASE \E h \in Slots : Collect(w, h)
        <5>1. PICK h \in Slots : handles' = [handles EXCEPT ![w] = @ \ {h}]
          BY <4>2 DEF Collect
        <5> QED BY <1>2, <2>1, <5>1 DEF Typed, TypeOK
      <4> QED BY <3>1, <4>1, <4>2
    <3>3. thread[parent[c]] # "done"
      BY <1>2, <2>1, <3>2 DEF Family, ChildrenEndFirst
    <3>4. thread'[w] = "done" => thread[w] = "done"
      BY <2>4 DEF Script, Loop, ScriptCreate, ScriptTerminate, ScriptSend, Collect, Call,
                  ScriptEnds, PopTerminate, PopAnswer, PopMessage, PopReceipt, Pops,
                  CloseChild, JoinChild, Typed, TypeOK
    <3> QED BY <1>1, <2>1, <3>3, <3>4
  <2> QED BY <2>2, <2>3, <2>4
<1>3. ChildrenEndFirst'
  BY <1>1, <1>2 DEF ChildrenEndFirst
<1>4. \A s \in Slots : parent[s] # None => parent[s] \in Slots
  BY DEF Typed, TypeOK
<1>5. \A s \in Slots : /\ thread[s] = "none" <=> thread'[s] = "none"
                       /\ thread[s] = "done" => thread'[s] = "done"
  BY <1>1
<1> QED BY <1>1, <1>3, <1>4, <1>5, SlotsAssumption DEF Family

LEMMA MainFamily ==
    ASSUME Typed, Typed', Working, Slotted, Family, Main \/ MainQuit
    PROVE  Family'
<1>1. ASSUME UNCHANGED <<thread, parent, handles>>,
             mpc' = "quitJoin" => target' = MainSlot,
             mpc' \in {"dispose", "disposed"} =>
                thread[MainSlot] = "done" \/ mpc \in {"dispose", "disposed"}
      PROVE  Family'
  BY <1>1 DEF Family, ChildrenEndFirst
<1>2. CASE MainPop \/ MainJoin \/ MainAnswer
  BY <1>1, <1>2 DEF MainPop, MainJoin, Joined, MainAnswer
<1>3. CASE MainTerminate
  <2>1. UNCHANGED <<thread, parent, handles>> /\ mpc' \in {"join", "answer"}
    BY <1>3 DEF MainTerminate, Terminate
  <2> QED BY <1>1, <2>1
<1>4. CASE MainDispose
  BY <1>1, <1>4 DEF MainDispose
<1>5. CASE MainQuitJoin
  BY <1>1, <1>5 DEF MainQuitJoin, Joined, Family
<1>6. CASE MainQuit
  <2>1. UNCHANGED <<thread, parent, handles>>
    BY <1>6 DEF MainQuit
  <2>2. mpc' = "quitJoin" => target' = MainSlot
    BY <1>6 DEF MainQuit, Terminate
  <2>3. mpc' \in {"dispose", "disposed"} => MainSlot \in Range(freed) \/ terminated[MainSlot]
    BY <1>6 DEF MainQuit, Terminate
  <2>4. MainSlot \in Range(freed) \/ terminated[MainSlot] => thread[MainSlot] = "done"
    BY SlotsAssumption DEF Slotted, FreedAreDone, Range
  <2> QED BY <1>1, <2>1, <2>2, <2>3, <2>4
<1>7. CASE \E s \in Slots : MainCreate(s) \/ MainHangs(s)
  <2>1. PICK s \in Slots : MainCreate(s) \/ MainHangs(s)
    BY <1>7
  <2> DEFINE o == current.owner
  <2>2. /\ thread' = [thread EXCEPT ![s] = "script"]
        /\ parent' = [parent EXCEPT ![s] = o]
        /\ handles' = [handles EXCEPT ![s] = {o}]
        /\ mpc = "work" /\ mpc' \in {"loop", "hung"}
    BY <2>1 DEF MainCreate, MainHangs, NewWorker
  <2>3. o \in Slots /\ thread[o] \in Running
    BY <2>2 DEF Typed, Request, EventType, Working, WorksForLiveOwner, OwnerLives
  <2> HIDE DEF o
  <2>4. /\ \A r \in Slots : thread'[r] = IF r = s THEN "script" ELSE thread[r]
        /\ \A r \in Slots : parent'[r] = IF r = s THEN o ELSE parent[r]
        /\ \A r \in Slots : handles'[r] = IF r = s THEN {o} ELSE handles[r]
    BY <2>2 DEF Typed, TypeOK
  <2>5. \A r \in Slots : parent[r] # None => parent[r] \in Slots
    BY DEF Typed, TypeOK
  <2>6. ChildrenEndFirst'
    <3>1. ASSUME NEW c \in Slots, thread'[c] \in Running, parent'[c] # None,
                 c \in handles'[parent'[c]]
          PROVE  thread'[parent'[c]] # "done"
      <4>1. CASE c = s
        BY <2>3, <2>4, <4>1 DEF Running
      <4>2. CASE c # s
        BY <2>4, <2>5, <3>1, <4>2 DEF Family, ChildrenEndFirst
      <4> QED BY <4>1, <4>2
    <3> QED BY <3>1 DEF ChildrenEndFirst
  <2>7. \A r \in Slots : parent'[r] # None => thread'[parent'[r]] # "none"
    BY <2>3, <2>4, <2>5 DEF Family, Running
  <2>8. \A r \in Slots : parent'[r] = None => r = MainSlot \/ thread'[r] = "none"
    BY <2>3, <2>4, SlotsAssumption DEF Family
  <2> QED BY <2>2, <2>6, <2>7, <2>8 DEF Family
<1> QED BY <1>2, <1>3, <1>4, <1>5, <1>6, <1>7 DEF Main
-----------------------------------------------------------------------------
(* Whoever waits for a new worker, and whoever waits for an answer. *)

LEMMA WorkerBlocked ==
    ASSUME Typed, Typed', BlockedIsServed, NEW w \in Slots, Script(w) \/ Loop(w)
    PROVE  BlockedIsServed'
<1>1. UNCHANGED <<life, current>>
  BY WorkerFrame
<1>2. ASSUME NEW v \in Slots PROVE Event("create", v, None)' = Event("create", v, None)
  BY <1>1 DEF Event
<1>3. CASE ScriptCreate(w) /\ mainQueue' # mainQueue
  <2> DEFINE e == Event("create", w, None)
  <2>1. /\ mainQueue' = Append(mainQueue, e)
        /\ thread' = [thread EXCEPT ![w] = "blocked"] /\ result' = result
    BY <1>3 DEF ScriptCreate, PostsToMain
  <2> HIDE DEF e
  <2>2. /\ \A i \in DOMAIN mainQueue : i \in DOMAIN mainQueue' /\ mainQueue'[i] = mainQueue[i]
        /\ Len(mainQueue) + 1 \in DOMAIN mainQueue' /\ mainQueue'[Len(mainQueue) + 1] = e
    BY <2>1 DEF Typed, TypeOK
  <2>3. \A v \in Slots : v # w => thread'[v] = thread[v]
    BY <2>1
  <2> QED BY <1>1, <1>2, <2>1, <2>2, <2>3 DEF BlockedIsServed, e
<1>4. CASE ~ (ScriptCreate(w) /\ mainQueue' # mainQueue)
  <2>1. \A v \in Slots : thread'[v] = "blocked" =>
           thread[v] = "blocked" /\ result'[v] = result[v]
    <3>1. CASE ScriptCreated(w)
      BY <3>1 DEF ScriptCreated, Typed, TypeOK
    <3>2. ASSUME NEW t, t # "blocked", thread' = [thread EXCEPT ![w] = t],
                 result' = result
          PROVE  \A v \in Slots : thread'[v] = "blocked" =>
                    thread[v] = "blocked" /\ result'[v] = result[v]
      BY <3>2 DEF Typed, TypeOK
    <3>3. CASE ScriptEnds(w) \/ PopTerminate(w) \/ PopAnswer(w) \/ PopReceipt(w)
               \/ CloseDone(w)
      BY <3>2, <3>3 DEF ScriptEnds, PopTerminate, PopAnswer, PopReceipt, CloseDone
    <3>4. CASE PopMessage(w)
      <4>1. /\ result' = result /\ thread[w] = "wait"
            /\ \/ thread' = [thread EXCEPT ![w] = "script"]
               \/ thread' = [thread EXCEPT ![w] = @]
        BY <3>4 DEF PopMessage, Pops
      <4> QED BY <4>1 DEF Typed, TypeOK
    <3>5. CASE ScriptCreate(w) \/ JoinChild(w)
               \/ \E h \in Slots : \/ ScriptTerminate(w, h) \/ ScriptSend(w, h)
                                   \/ Collect(w, h) \/ CloseChild(w, h)
      <4>1. thread' = thread /\ result' = result
        BY <1>4, <3>5 DEF ScriptCreate, JoinChild, ScriptTerminate, ScriptSend, Collect,
                          CloseChild
      <4> QED BY <4>1
    <3> QED BY <3>1, <3>3, <3>4, <3>5 DEF Script, Loop
  <2>2. \A i \in DOMAIN mainQueue : i \in DOMAIN mainQueue' /\ mainQueue'[i] = mainQueue[i]
    <3>1. CASE mainQueue' = mainQueue
      BY <3>1
    <3>2. CASE \E h \in Slots : ScriptTerminate(w, h)
      <4>1. PICK h \in Slots : \/ mainQueue' = mainQueue
                               \/ mainQueue' = Append(mainQueue, Event("terminate", w, h))
        BY <3>2 DEF ScriptTerminate, PostsToMain
      <4>2. Event("terminate", w, h) \in EventType /\ mainQueue \in Seq(EventType)
        BY EventTyped DEF Request, Typed, TypeOK
      <4> QED BY <4>1, <4>2, AppendEntries
    <3> QED
      BY <1>4, <3>1, <3>2
         DEF Script, Loop, ScriptSend, Collect, ScriptCreated, ScriptEnds, PopTerminate,
             PopAnswer, PopMessage, PopReceipt, CloseChild, JoinChild, CloseDone
  <2> QED BY <1>1, <1>2, <2>1, <2>2 DEF BlockedIsServed
<1> QED BY <1>3, <1>4

LEMMA MainBlocked ==
    ASSUME Typed, Typed', BlockedIsServed, Main \/ MainQuit
    PROVE  BlockedIsServed'
<1>1. CASE MainPop
  <2>1. /\ UNCHANGED <<thread, result, life>> /\ current = NoEvent /\ mainQueue # <<>>
        /\ mainQueue' = Tail(mainQueue)
        /\ ~ Canceled(Head(mainQueue)) => current' = Head(mainQueue)
        /\ Canceled(Head(mainQueue)) => current' = current
    BY <1>1 DEF MainPop, Typed
  <2>2. ASSUME NEW v \in Slots, thread'[v] = "blocked"
        PROVE  \/ result'[v] # None
               \/ current' = Event("create", v, None)'
               \/ \E i \in DOMAIN mainQueue' : mainQueue'[i] = Event("create", v, None)'
    <3> DEFINE e == Event("create", v, None)
    <3>1. e' = e /\ e # NoEvent /\ ~ Canceled(e)
      BY <2>1, <2>2 DEF Event, NoEvent, Canceled, OwnerLives, Running
    <3> HIDE DEF e
    <3>2. result[v] # None \/ \E i \in DOMAIN mainQueue : mainQueue[i] = e
      BY <2>1, <2>2, <3>1 DEF BlockedIsServed, e
    <3>3. ASSUME NEW i \in DOMAIN mainQueue, mainQueue[i] = e, i # 1
          PROVE  \E j \in DOMAIN mainQueue' : mainQueue'[j] = e
      <4>1. i - 1 \in DOMAIN mainQueue' /\ mainQueue'[i - 1] = mainQueue[i]
        <5>1. mainQueue \in Seq(EventType) /\ mainQueue' = Tail(mainQueue)
          BY <2>1 DEF Typed, TypeOK
        <5>2. i \in 1 .. Len(mainQueue) /\ i # 1
          BY <3>3, <5>1
        <5> HIDE DEF Typed
        <5> QED BY <5>1, <5>2
      <4> QED BY <3>3, <4>1
    <3>4. Head(mainQueue) = mainQueue[1]
      BY <2>1 DEF Typed, TypeOK
    <3>5. \/ result'[v] # None \/ current' = e
          \/ \E i \in DOMAIN mainQueue' : mainQueue'[i] = e
      BY <2>1, <3>1, <3>2, <3>3, <3>4
    <3> QED BY <3>1, <3>5 DEF e
  <2> QED BY <2>2 DEF BlockedIsServed
<1>2. CASE \E s \in Slots : MainCreate(s) \/ MainHangs(s)
  <2>1. PICK s \in Slots : MainCreate(s) \/ MainHangs(s)
    BY <1>2
  <2>2. /\ thread' = [thread EXCEPT ![s] = "script"]
        /\ life' = [life EXCEPT ![s] = @ + 1]
        /\ \/ result' = [result EXCEPT ![current.owner] = s]
           \/ result' = result /\ current' = current
        /\ mainQueue' = mainQueue
    BY <2>1 DEF MainCreate, MainHangs, NewWorker
  <2>3. ASSUME NEW v \in Slots, thread'[v] = "blocked"
        PROVE  \/ result'[v] # None
               \/ current' = Event("create", v, None)'
               \/ \E i \in DOMAIN mainQueue' : mainQueue'[i] = Event("create", v, None)'
    <3>1. v # s /\ thread[v] = "blocked"
      BY <2>2, <2>3 DEF Typed, TypeOK
    <3>2. life'[v] = life[v]
      BY <2>2, <3>1 DEF Typed, TypeOK
    <3>3. Event("create", v, None)' = Event("create", v, None)
      BY <3>2 DEF Event
    <3>4. result[v] # None \/ current = Event("create", v, None) =>
             result'[v] # None \/ current' = Event("create", v, None)
      <4>1. current = Event("create", v, None) => current.owner = v
        BY DEF Event
      <4>2. CASE result' = [result EXCEPT ![current.owner] = s]
        <5>1. /\ \A r \in Slots : result'[r] = result[r] \/ result'[r] = s
              /\ current.owner = v => result'[v] = s
          BY <4>2 DEF Typed, TypeOK
        <5> QED BY <4>1, <5>1, SlotsAssumption
      <4>3. CASE result' = result /\ current' = current
        BY <4>3
      <4> QED BY <2>2, <4>2, <4>3
    <3> QED BY <2>2, <3>1, <3>3, <3>4 DEF BlockedIsServed
  <2> QED BY <2>3 DEF BlockedIsServed
<1>3. ASSUME UNCHANGED <<thread, life, result, mainQueue>>,
             current' = current \/ current.kind = "terminate"
      PROVE  BlockedIsServed'
  <2>1. \A v \in Slots : /\ Event("create", v, None)' = Event("create", v, None)
                         /\ Event("create", v, None).kind = "create"
    BY <1>3 DEF Event
  <2> QED BY <1>3, <2>1 DEF BlockedIsServed
<1>4. CASE MainAnswer
  BY <1>3, <1>4 DEF MainAnswer, Typed
<1>5. CASE MainTerminate \/ MainJoin \/ MainQuit \/ MainQuitJoin \/ MainDispose
  BY <1>3, <1>5 DEF MainTerminate, MainJoin, MainQuit, MainQuitJoin, MainDispose
<1> QED BY <1>1, <1>2, <1>4, <1>5 DEF Main

LEMMA AnswersByRange ==
    AnswerReachesAsker <=>
        \A w \in Slots : \A x \in Range(queue[w]) :
            x.kind = "terminate" => x.owner = w /\ x.life = life[w]
  BY DEF AnswerReachesAsker, Range

LEMMA WorkerAnswers ==
    ASSUME Typed, AnswerReachesAsker, NEW w \in Slots, Script(w) \/ Loop(w)
    PROVE  AnswerReachesAsker'
<1>1. life' = life
  BY WorkerFrame
<1>2. ASSUME NEW s \in Slots, NEW x \in Range(queue'[s]), x.kind = "terminate"
      PROVE  x.owner = s /\ x.life = life'[s]
  <2>1. x \in Range(queue[s])
    BY <1>2, WorkerQueues DEF Poison
  <2> QED BY <1>1, <1>2, <2>1, AnswersByRange
<1> QED BY <1>2 DEF AnswerReachesAsker, Range

LEMMA MainAnswers ==
    ASSUME Typed, Working, AnswerReachesAsker, Main \/ MainQuit
    PROVE  AnswerReachesAsker'
<1>1. ASSUME NEW s \in Slots, NEW x \in Range(queue'[s]), x.kind = "terminate"
      PROVE  x.owner = s /\ x.life = life'[s]
  <2>1. ASSUME life' = life, x \in Range(queue[s]) PROVE x.owner = s /\ x.life = life'[s]
    BY <1>1, <2>1, AnswersByRange
  <2>2. CASE \E r \in Slots : NewWorker(r)
    <3>1. PICK r \in Slots : NewWorker(r)
      BY <2>2
    <3>2. queue' = [queue EXCEPT ![r] = <<>>] /\ life' = [life EXCEPT ![r] = @ + 1]
      BY <3>1 DEF NewWorker
    <3>3. s # r
      <4>1. Range(<<>>) = {}
        BY DEF Range
      <4> QED BY <1>1, <3>2, <4>1 DEF Typed, TypeOK
    <3>4. queue'[s] = queue[s] /\ life'[s] = life[s]
      BY <3>2, <3>3 DEF Typed, TypeOK
    <3> QED BY <1>1, <3>4, AnswersByRange
  <2>3. CASE MainAnswer
    <3>1. /\ \/ queue' = queue
             \/ queue' = [queue EXCEPT ![current.owner] = Append(@, current)]
          /\ mpc = "answer" /\ life' = life
      BY <2>3 DEF MainAnswer, Posts
    <3>2. current \in EventType /\ current.owner \in Slots
          /\ current.life = life[current.owner]
      BY <3>1 DEF Typed, Request, EventType, Working
    <3>3. CASE queue'[s] = queue[s]
      BY <1>1, <2>1, <3>1, <3>3
    <3>4. CASE s = current.owner /\ queue'[s] = Append(queue[s], current)
      <4>1. queue[s] \in Seq(EventType \cup {Poison})
        BY DEF Typed, TypeOK
      <4>2. x \in Range(queue[s]) \/ x = current
        BY <1>1, <3>2, <3>4, <4>1, PostRange
      <4> QED BY <2>1, <3>1, <3>2, <3>4, <4>2
    <3> QED BY <3>1, <3>3, <3>4 DEF Typed, TypeOK
  <2>4. ASSUME NEW r \in Slots, life' = life,
               Terminate(r, "join", "answer") \/ Terminate(r, "quitJoin", "dispose")
        PROVE  x.owner = s /\ x.life = life'[s]
    <3>1. x \in Range(queue[s]) \/ x = Poison
      BY <1>1, <2>4, TerminateCases
    <3> QED BY <1>1, <2>1, <2>4, <3>1 DEF Poison
  <2>5. CASE MainTerminate
    <3>1. current.about \in Slots
      BY <2>5 DEF MainTerminate, Typed, Request
    <3> QED BY <2>4, <2>5, <3>1 DEF MainTerminate
  <2>6. CASE MainQuit
    <3>1. life' = life /\ (queue' = queue \/ Terminate(MainSlot, "quitJoin", "dispose"))
      BY <2>6 DEF MainQuit
    <3> QED BY <1>1, <2>1, <2>4, <3>1, SlotsAssumption
  <2>7. CASE MainPop \/ MainJoin \/ MainQuitJoin \/ MainDispose
    BY <1>1, <2>1, <2>7 DEF MainPop, MainJoin, MainQuitJoin, MainDispose
  <2> QED BY <2>2, <2>3, <2>5, <2>6, <2>7 DEF Main, MainCreate, MainHangs
<1> QED BY <1>1 DEF AnswerReachesAsker, Range
-----------------------------------------------------------------------------
(* Who asks for a worker. *)

LEMMA WorkerAsking ==
    ASSUME Typed, Typed', Asking, NEW w \in Slots, Script(w) \/ Loop(w)
    PROVE  Asking'
<1>1. UNCHANGED <<life, current>>
  BY WorkerFrame
<1>2. ASSUME NEW e, NEW v PROVE Asks(e, v)' <=> Asks(e, v)
  BY <1>1 DEF Asks
<1>3. mainQueue \in Seq(EventType)
  BY DEF Typed, TypeOK
<1>4. CASE ScriptCreate(w) /\ mainQueue' # mainQueue
  <2> DEFINE e == Event("create", w, None)
             n == Len(mainQueue) + 1
  <2>1. /\ thread[w] = "script" /\ mainQueue' = Append(mainQueue, e)
        /\ thread' = [thread EXCEPT ![w] = "blocked"] /\ result' = result
    BY <1>4 DEF ScriptCreate, PostsToMain, Call
  <2>2. Asks(e, w) /\ (\A v \in Slots : Asks(e, v) => v = w)
        /\ e.owner = w /\ e.life = life[w] /\ life[w] \in Nat /\ e \in EventType
    BY EventTyped DEF Asks, Event, Request, Typed, TypeOK
  <2> HIDE DEF e
  <2>3. /\ DOMAIN mainQueue' = DOMAIN mainQueue \cup {n} /\ n \notin DOMAIN mainQueue
        /\ mainQueue'[n] = e
        /\ \A i \in DOMAIN mainQueue : mainQueue'[i] = mainQueue[i]
    BY <1>3, <2>1, <2>2, AppendEntries
  <2> HIDE DEF n
  <2>4. /\ thread'[w] = "blocked"
        /\ \A v \in Slots : v # w => thread'[v] = thread[v]
    BY <2>1 DEF Typed, TypeOK
  <2>5. /\ result[w] = None /\ ~ Asks(current, w)
        /\ \A i \in DOMAIN mainQueue : ~ Asks(mainQueue[i], w)
    BY <2>1 DEF Asking
  <2>6. \A i \in DOMAIN mainQueue' : mainQueue'[i].kind = "create" =>
           mainQueue'[i].life <= life'[mainQueue'[i].owner]
    BY <1>1, <2>2, <2>3 DEF Asking
  <2>7. ASSUME NEW v \in Slots,
               \/ result'[v] # None \/ Asks(current', v)
               \/ \E i \in DOMAIN mainQueue' : Asks(mainQueue'[i], v)
        PROVE  thread'[v] = "blocked"
    BY <1>1, <2>1, <2>2, <2>3, <2>4, <2>7 DEF Asking
  <2>8. ASSUME NEW v \in Slots, NEW i \in DOMAIN mainQueue', Asks(mainQueue'[i], v)
        PROVE  /\ result'[v] = None /\ ~ Asks(current', v)
               /\ \A j \in DOMAIN mainQueue' : Asks(mainQueue'[j], v) => i = j
    BY <1>1, <2>1, <2>2, <2>3, <2>5, <2>8 DEF Asking
  <2>9. \A v \in Slots : Asks(current', v) => result'[v] = None
    BY <1>1, <2>1 DEF Asking
  <2> QED BY <1>2, <2>6, <2>7, <2>8, <2>9 DEF Asking
<1>5. CASE ScriptCreated(w)
  <2>1. /\ mainQueue' = mainQueue /\ result[w] # None
        /\ thread' = [thread EXCEPT ![w] = "script"]
        /\ result' = [result EXCEPT ![w] = None]
    BY <1>5 DEF ScriptCreated
  <2>2. /\ \A v \in Slots : v # w => thread'[v] = thread[v] /\ result'[v] = result[v]
        /\ result'[w] = None
    BY <2>1 DEF Typed, TypeOK
  <2>3. ~ Asks(current, w) /\ \A i \in DOMAIN mainQueue : ~ Asks(mainQueue[i], w)
    BY <2>1 DEF Asking
  <2> QED BY <1>1, <1>2, <2>1, <2>2, <2>3 DEF Asking
<1>6. CASE ~ (ScriptCreate(w) /\ mainQueue' # mainQueue) /\ ~ ScriptCreated(w)
  <2>1. result' = result
    BY <1>6 DEF Script, Loop, ScriptCreate, ScriptTerminate, ScriptSend, Collect,
                ScriptEnds, PopTerminate, PopAnswer, PopMessage, PopReceipt, CloseChild,
                JoinChild, CloseDone
  <2>2. \A v \in Slots : thread[v] = "blocked" => thread'[v] = "blocked"
    <3>1. ASSUME NEW t, thread' = [thread EXCEPT ![w] = t], thread[w] # "blocked"
          PROVE  \A v \in Slots : thread[v] = "blocked" => thread'[v] = "blocked"
      BY <3>1 DEF Typed, TypeOK
    <3>2. CASE thread' = thread
      BY <3>2
    <3>3. CASE \/ ScriptEnds(w) \/ PopTerminate(w) \/ PopAnswer(w) \/ PopMessage(w)
               \/ PopReceipt(w) \/ CloseDone(w)
      BY <3>1, <3>3 DEF ScriptEnds, PopTerminate, PopAnswer, PopMessage, PopReceipt, Pops,
                        CloseDone
    <3> QED BY <1>6, <3>2, <3>3
            DEF Script, Loop, ScriptCreate, ScriptTerminate, ScriptSend, Collect,
                CloseChild, JoinChild
  <2>3. CASE mainQueue' = mainQueue
    BY <1>1, <1>2, <2>1, <2>2, <2>3 DEF Asking
  <2>4. CASE mainQueue' # mainQueue
    <3>1. PICK h \in Slots : ScriptTerminate(w, h)
      BY <1>6, <2>4 DEF Script, Loop, ScriptCreate, ScriptSend, Collect,
            ScriptEnds, PopTerminate, PopAnswer, PopMessage, PopReceipt, CloseChild,
            JoinChild, CloseDone
    <3> DEFINE e == Event("terminate", w, h)
               n == Len(mainQueue) + 1
    <3>2. mainQueue' = Append(mainQueue, e)
      BY <2>4, <3>1 DEF ScriptTerminate, PostsToMain
    <3>3. e.kind # "create" /\ e \in EventType /\ \A v \in Slots : ~ Asks(e, v)
      BY EventTyped DEF Asks, Event, Request
    <3> HIDE DEF e
    <3>4. /\ DOMAIN mainQueue' = DOMAIN mainQueue \cup {n} /\ n \notin DOMAIN mainQueue
          /\ mainQueue'[n] = e
          /\ \A i \in DOMAIN mainQueue : mainQueue'[i] = mainQueue[i]
      BY <1>3, <3>2, <3>3, AppendEntries
    <3> HIDE DEF n
    <3>5. \A v \in Slots : \A i \in DOMAIN mainQueue' :
             Asks(mainQueue'[i], v) => i \in DOMAIN mainQueue /\ Asks(mainQueue[i], v)
      BY <3>3, <3>4
    <3>6. \A i \in DOMAIN mainQueue' : mainQueue'[i].kind = "create" =>
             mainQueue'[i].life <= life'[mainQueue'[i].owner]
      BY <1>1, <3>3, <3>4 DEF Asking
    <3> QED BY <1>1, <1>2, <2>1, <2>2, <3>5, <3>6, <3>4 DEF Asking
  <2> QED BY <2>3, <2>4
<1> QED BY <1>4, <1>5, <1>6

(* The slot for a new worker has no thread that runs.                       *)
LEMMA NextSlotIdle ==
    ASSUME Typed, Slotted, NEW s \in NextSlot, s \in Slots
    PROVE  thread[s] \in {"done", "none"}
<1>1. CASE freed # <<>>
  <2>1. Len(freed) \in DOMAIN freed /\ s = freed[Len(freed)]
    BY <1>1 DEF NextSlot, Last, Typed, TypeOK
  <2> QED BY <2>1 DEF Slotted, FreedAreDone
<1>2. CASE freed = <<>>
  BY <1>2 DEF NextSlot, Slotted
<1> QED BY <1>1, <1>2

LEMMA MainAsking ==
    ASSUME Typed, Typed', Working, Slotted, Asking, Main \/ MainQuit
    PROVE  Asking'
<1>1. CASE MainPop
  <2> DEFINE h == Head(mainQueue)
  <2>1. /\ UNCHANGED <<life, thread, result>> /\ mainQueue # <<>>
        /\ mainQueue' = Tail(mainQueue) /\ current = NoEvent
        /\ \/ Canceled(h) /\ current' = current
           \/ current' = h
    BY <1>1 DEF MainPop, Typed
  <2>2. /\ h = mainQueue[1] /\ 1 \in DOMAIN mainQueue
        /\ \A i \in DOMAIN mainQueue' :
              /\ i + 1 \in DOMAIN mainQueue /\ i + 1 # 1
              /\ mainQueue'[i] = mainQueue[i + 1]
    <3>1. PICK q : q = mainQueue
      OBVIOUS
    <3>2. q \in Seq(EventType) /\ q # <<>>
      BY <2>1, <3>1 DEF Typed, TypeOK
    <3>3. /\ Head(q) = q[1] /\ 1 \in DOMAIN q
          /\ \A i \in DOMAIN Tail(q) : i + 1 \in DOMAIN q /\ i + 1 # 1 /\ Tail(q)[i] = q[i + 1]
      BY <3>2
    <3> QED BY <2>1, <3>1, <3>3
  <2> HIDE DEF h
  <2>3. ASSUME NEW e, NEW v PROVE Asks(e, v)' <=> Asks(e, v)
    BY <2>1 DEF Asks
  <2>4. \A v \in Slots : ~ Asks(NoEvent, v)
    BY DEF Asks, NoEvent
  <2>5. ASSUME NEW v \in Slots, Asks(current', v) PROVE current' = mainQueue[1]
    BY <2>1, <2>2, <2>4, <2>5
  <2>6. \A i \in DOMAIN mainQueue' : mainQueue'[i].kind = "create" =>
           mainQueue'[i].life <= life'[mainQueue'[i].owner]
    BY <2>1, <2>2 DEF Asking
  <2>7. \A v \in Slots : result'[v] # None \/ Asks(current', v)
                           \/ (\E i \in DOMAIN mainQueue' : Asks(mainQueue'[i], v))
                         => thread'[v] = "blocked"
    BY <2>1, <2>2, <2>5 DEF Asking
  <2>8. ASSUME NEW v \in Slots, NEW i \in DOMAIN mainQueue', Asks(mainQueue'[i], v)
        PROVE  /\ result'[v] = None /\ ~ Asks(current', v)
               /\ \A j \in DOMAIN mainQueue' : Asks(mainQueue'[j], v) => i = j
    <3>1. i + 1 \in DOMAIN mainQueue /\ Asks(mainQueue[i + 1], v)
      BY <2>2, <2>8
    <3>2. result[v] = None /\ \A j \in DOMAIN mainQueue : Asks(mainQueue[j], v) => i + 1 = j
      BY <3>1 DEF Asking
    <3>3. ~ Asks(current', v)
      BY <2>2, <2>5, <3>2
    <3>4. ASSUME NEW j \in DOMAIN mainQueue', Asks(mainQueue'[j], v) PROVE i = j
      <4>1. i + 1 = j + 1
        BY <2>2, <3>2, <3>4
      <4>2. i \in Nat /\ j \in Nat
        <5>1. mainQueue' \in Seq(EventType)
          BY DEF Typed, TypeOK
        <5>2. DOMAIN mainQueue' \subseteq Nat
          BY <5>1
        <5> QED BY <2>8, <3>4, <5>2
      <4> QED BY <4>1, <4>2
    <3> QED BY <2>1, <3>2, <3>3, <3>4
  <2>9. \A v \in Slots : Asks(current', v) => result'[v] = None
    BY <2>1, <2>2, <2>5 DEF Asking
  <2> QED BY <2>3, <2>6, <2>7, <2>8, <2>9 DEF Asking
<1>2. CASE \E s \in Slots : MainCreate(s)
  <2>1. PICK s \in Slots : MainCreate(s)
    BY <1>2
  <2> DEFINE o == current.owner
  <2>2. /\ mpc = "work" /\ current.kind = "create" /\ s \in NextSlot
        /\ thread' = [thread EXCEPT ![s] = "script"]
        /\ life' = [life EXCEPT ![s] = @ + 1]
        /\ result' = [result EXCEPT ![o] = s]
        /\ mainQueue' = mainQueue /\ current' = NoEvent
    BY <2>1 DEF MainCreate, NewWorker
  <2>3. o \in Slots /\ current.life = life[o]
    BY <2>2 DEF Typed, Request, EventType, Working
  <2>4. Asks(current, o)
    BY <2>2, <2>3 DEF Asks
  <2> HIDE DEF o
  <2>5. thread[s] \in {"done", "none"}
    BY <2>2, NextSlotIdle
  <2>6. /\ result[s] = None /\ ~ Asks(current, s)
        /\ \A i \in DOMAIN mainQueue : ~ Asks(mainQueue[i], s)
    BY <2>5 DEF Asking
  <2>7. thread[o] = "blocked" /\ o # s
    BY <2>3, <2>4, <2>6 DEF Asking
  <2>8. \A i \in DOMAIN mainQueue :
           /\ mainQueue[i].owner \in Slots /\ mainQueue[i].life \in Nat
    BY EntryTyped
  <2>9. /\ life'[s] = life[s] + 1 /\ life[s] \in Nat
        /\ \A v \in Slots : v # s => life'[v] = life[v]
    BY <2>2 DEF Typed, TypeOK
  <2>10. \A i \in DOMAIN mainQueue : mainQueue[i].kind = "create" =>
            /\ mainQueue[i].life <= life[mainQueue[i].owner]
            /\ mainQueue[i].life <= life'[mainQueue[i].owner]
            /\ mainQueue[i].owner = s => mainQueue[i].life # life'[s]
    BY <2>8, <2>9 DEF Asking
  <2>11. ASSUME NEW v \in Slots
         PROVE  /\ ~ Asks(current, v)'
                /\ \A i \in DOMAIN mainQueue :
                      Asks(mainQueue[i], v)' => v # s /\ Asks(mainQueue[i], v)
    BY <2>2, <2>9, <2>10 DEF Asks, NoEvent
  <2>12. \A v \in Slots : /\ thread'[v] = IF v = s THEN "script" ELSE thread[v]
                          /\ result'[v] = IF v = o THEN s ELSE result[v]
    BY <2>2 DEF Typed, TypeOK
  <2>13. \A i \in DOMAIN mainQueue : ~ Asks(mainQueue[i], o)
    BY <2>3, <2>4 DEF Asking
  <2>14. ASSUME NEW v \in Slots, \/ result'[v] # None
                                 \/ \E i \in DOMAIN mainQueue : Asks(mainQueue[i], v)'
         PROVE  thread'[v] = "blocked"
    BY <2>6, <2>7, <2>11, <2>12, <2>14 DEF Asking
  <2>15. ASSUME NEW v \in Slots, NEW i \in DOMAIN mainQueue, Asks(mainQueue[i], v)'
         PROVE  /\ result'[v] = None
                /\ \A j \in DOMAIN mainQueue : Asks(mainQueue[j], v)' => i = j
    BY <2>11, <2>12, <2>13, <2>15 DEF Asking
  <2> QED BY <2>2, <2>10, <2>11, <2>14, <2>15 DEF Asking
<1>5. CASE \E s \in Slots : MainHangs(s)
  <2>1. PICK s \in Slots : MainHangs(s)
    BY <1>5
  <2>2. /\ mpc = "work" /\ s \in NextSlot
        /\ thread' = [thread EXCEPT ![s] = "script"]
        /\ life' = [life EXCEPT ![s] = @ + 1]
        /\ UNCHANGED <<result, mainQueue, current>>
    BY <2>1 DEF MainHangs, NewWorker
  <2>3. /\ result[s] = None /\ ~ Asks(current, s)
        /\ \A i \in DOMAIN mainQueue : ~ Asks(mainQueue[i], s)
    BY <2>2, NextSlotIdle DEF Asking
  <2>4. /\ life'[s] = life[s] + 1 /\ life[s] \in Nat
        /\ \A v \in Slots : v # s => life'[v] = life[v]
        /\ \A v \in Slots : thread'[v] = IF v = s THEN "script" ELSE thread[v]
    BY <2>2 DEF Typed, TypeOK
  <2>5. \A i \in DOMAIN mainQueue :
           /\ mainQueue[i].owner \in Slots /\ mainQueue[i].life \in Nat
    BY EntryTyped
  <2>6. current.owner \in Slots /\ current.life = life[current.owner]
    BY <2>2 DEF Typed, Request, EventType, Working
  <2>7. \A i \in DOMAIN mainQueue : mainQueue[i].kind = "create" =>
           /\ mainQueue[i].life <= life'[mainQueue[i].owner]
           /\ mainQueue[i].owner = s => mainQueue[i].life # life'[s]
    BY <2>4, <2>5 DEF Asking
  <2>8. ASSUME NEW v \in Slots
        PROVE  /\ Asks(current, v)' => v # s /\ Asks(current, v)
               /\ \A i \in DOMAIN mainQueue :
                     Asks(mainQueue[i], v)' => v # s /\ Asks(mainQueue[i], v)
    BY <2>2, <2>4, <2>6, <2>7 DEF Asks
  <2> QED BY <2>2, <2>3, <2>4, <2>7, <2>8 DEF Asking
<1>3. ASSUME UNCHANGED <<life, thread, result, mainQueue>>,
             current' = current \/ current' = NoEvent
      PROVE  Asking'
  <2>1. ASSUME NEW e, NEW v PROVE Asks(e, v)' <=> Asks(e, v)
    BY <1>3 DEF Asks
  <2>2. \A v \in Slots : Asks(current', v) => Asks(current, v)
    BY <1>3 DEF Asks, NoEvent
  <2> QED BY <1>3, <2>1, <2>2 DEF Asking
<1>4. CASE MainTerminate \/ MainJoin \/ MainAnswer \/ MainQuit \/ MainQuitJoin
           \/ MainDispose
  BY <1>3, <1>4
     DEF MainTerminate, MainJoin, MainAnswer, MainQuit, MainQuitJoin, MainDispose
<1> QED BY <1>1, <1>2, <1>4, <1>5 DEF Main
-----------------------------------------------------------------------------
(* Who joins whom. *)

LEMMA JoinsStep ==
    ASSUME Typed, Typed', Chain, JoinsChild,
           (\E w \in Slots : Script(w) \/ Loop(w)) \/ Main \/ MainQuit
    PROVE  JoinsChild'
<1>1. CASE \E w \in Slots : Script(w) \/ Loop(w)
  <2>1. PICK w \in Slots : Script(w) \/ Loop(w)
    BY <1>1
  <2>2. parent' = parent
    BY <2>1, WorkerFrame
  <2>3. CASE \E c \in Slots : CloseChild(w, c)
    <3>1. PICK c \in Slots : c \in Children(w) /\ joins' = [joins EXCEPT ![w] = c]
      BY <2>3 DEF CloseChild
    <3>2. parent[c] = w
      BY <3>1 DEF Children
    <3> QED BY <2>2, <3>1, <3>2 DEF JoinsChild, Typed, TypeOK
  <2>4. CASE JoinChild(w)
    <3>1. joins' = [joins EXCEPT ![w] = None]
      BY <2>4 DEF JoinChild
    <3> QED BY <2>2, <3>1 DEF JoinsChild, Typed, TypeOK
  <2>5. CASE joins' = joins
    BY <2>2, <2>5 DEF JoinsChild
  <2> QED BY <2>1, <2>3, <2>4, <2>5
          DEF Script, Loop, ScriptCreate, ScriptTerminate, ScriptSend, Collect,
              ScriptCreated, ScriptEnds, PopTerminate, PopAnswer, PopMessage, PopReceipt,
              CloseDone
<1>2. CASE \E s \in Slots : MainCreate(s) \/ MainHangs(s)
  <2>1. mpc = "work" /\ joins' = joins
    BY <1>2 DEF MainCreate, MainHangs, NewWorker
  <2>2. \A w \in Slots : joins[w] = None
    BY <2>1, NoChain DEF MainJoins
  <2> QED BY <2>1, <2>2 DEF JoinsChild
<1>3. CASE MainPop \/ MainTerminate \/ MainJoin \/ MainAnswer \/ MainQuit
           \/ MainQuitJoin \/ MainDispose
  <2>1. joins' = joins /\ parent' = parent
    BY <1>3 DEF MainPop, MainTerminate, MainJoin, MainAnswer, MainQuit, MainQuitJoin,
                MainDispose
  <2> QED BY <2>1 DEF JoinsChild
<1> QED BY <1>1, <1>2, <1>3 DEF Main

(* Who begins to close does not rank below the worker the main thread joins. *)
LEMMA ClosingRank ==
    ASSUME Typed, Chain, JoinsChild, NEW f \in [Slots -> Nat], Ranked(f),
           NEW w \in Slots, PopTerminate(w)
    PROVE  f[target] <= f[w]
<1>1. PICK p \in Seq(Slots) : IsChain(p)
  BY DEF Chain
<1>2. thread[w] = "wait" /\ queue[w] # <<>> /\ Head(queue[w]).kind = "poison"
  BY DEF PopTerminate, Pops
<1>3. Told(w)
  <2>1. queue[w] \in Seq(EventType \cup {Poison})
    BY DEF Typed, TypeOK
  <2>2. Head(queue[w]) \in EventType \cup {Poison} /\ Head(queue[w]) \in Range(queue[w])
    BY <1>2, <2>1, TailRange
  <2>3. Head(queue[w]) = Poison
    BY <1>2, <2>2 DEF EventType
  <2> QED BY <1>2, <2>2, <2>3 DEF Told, Running
<1>4. CASE Len(p) = 0
  BY <1>1, <1>3, <1>4 DEF IsChain
<1>5. CASE Len(p) # 0
  <2> DEFINE v == p[Len(p)]
  <2>1. v \in Slots /\ w = joins[v] /\ thread[v] = "closing" /\ target \in Slots
    <3>1. Len(p) \in 1 .. Len(p) /\ v \in Slots
      BY <1>5
    <3> QED BY <1>1, <1>3, <1>5, <3>1 DEF IsChain, Typed
  <2> HIDE DEF v
  <2>2. parent[w] = v /\ w # None /\ v # None
    BY <2>1, SlotsAssumption DEF JoinsChild
  <2>3. f[v] < f[w] /\ f[target] <= f[v]
    BY <1>2, <2>1, <2>2 DEF Ranked, Alive
  <2> QED BY <2>1, <2>3
<1> QED BY <1>4, <1>5

LEMMA WorkerForest ==
    ASSUME Typed, Typed', Chain, Slotted, JoinsChild, Asking, Forest,
           NEW w \in Slots, Script(w) \/ Loop(w)
    PROVE  Forest'
<1> SUFFICES ASSUME collected' = 0, mpc' # "hung"
             PROVE  \E f \in [Slots -> Nat] : Ranked(f)'
  BY DEF Forest
<1>1. collected = 0 /\ \A h \in Slots : ~ Collect(w, h)
  <2>1. collected \in Nat
    BY DEF Typed, TypeOK
  <2>2. ASSUME NEW h \in Slots, Collect(w, h) PROVE FALSE
    BY <2>1, <2>2 DEF Collect
  <2>3. CASE Script(w)
    BY <2>2, <2>3 DEF Script, ScriptCreate, ScriptTerminate, ScriptSend
  <2>4. CASE Loop(w)
    BY <2>2, <2>4 DEF Loop, ScriptCreated, ScriptEnds, PopTerminate, PopAnswer, PopMessage,
                      PopReceipt, CloseChild, JoinChild, CloseDone
  <2> QED BY <2>3, <2>4
<1>2. PICK f \in [Slots -> Nat] : Ranked(f)
  BY <1>1, WorkerFrame DEF Forest
<1>3. /\ UNCHANGED <<parent, target, mpc>>
      /\ \A s \in Slots : s # w => thread'[s] = thread[s]
      /\ thread[w] \in {"none", "done"} => thread'[w] = thread[w]
      /\ thread[w] \in Running => thread'[w] \in Running \cup {"closing"}
  BY WorkerFrame
<1>4. \A s \in Slots : Alive(s)' => Alive(s)
  BY <1>3 DEF Alive
<1>5. ASSUME NEW c \in Slots, Alive(c)', parent'[c] # None
      PROVE  /\ Alive(parent[c])' /\ f[parent[c]] < f[c]
             /\ c \in handles'[parent[c]] \/ result'[parent[c]] = c
  <2>1. /\ Alive(c) /\ parent[c] \in Slots /\ Alive(parent[c]) /\ f[parent[c]] < f[c]
        /\ c \in handles[parent[c]] \/ result[parent[c]] = c
    BY <1>2, <1>3, <1>4, <1>5 DEF Ranked, Typed, TypeOK
  <2>2. c \in handles'[parent[c]] \/ result'[parent[c]] = c
    <3>1. CASE ScriptCreated(w)
      <4>1. /\ handles' = [handles EXCEPT ![w] = @ \cup {result[w]}]
            /\ result' = [result EXCEPT ![w] = None]
        BY <3>1 DEF ScriptCreated
      <4> QED BY <2>1, <4>1 DEF Typed, TypeOK
    <3>2. CASE ~ ScriptCreated(w)
      <4>1. handles' = handles /\ result' = result
        BY <1>1, <3>2
           DEF Script, Loop, ScriptCreate, ScriptTerminate, ScriptSend,
               ScriptEnds, PopTerminate, PopAnswer, PopMessage, PopReceipt,
               CloseChild, JoinChild, CloseDone
      <4> QED BY <2>1, <4>1
    <3> QED BY <3>1, <3>2
  <2>3. Alive(parent[c])'
    <3>1. CASE CloseDone(w)
      <4>1. thread[w] = "closing" /\ Children(w) = {}
        BY <3>1 DEF CloseDone
      <4>2. parent[c] # w
        <5>1. ASSUME parent[c] = w PROVE FALSE
          <6>1. result[w] = None
            BY <4>1 DEF Asking
          <6>2. c \in handles[w]
            BY <2>1, <5>1, <6>1, SlotsAssumption
          <6>3. terminated[c]
            BY <4>1, <5>1, <6>2 DEF Children
          <6> QED BY <2>1, <6>3 DEF Slotted, Alive
        <5> QED BY <5>1
      <4> QED BY <1>3, <2>1, <4>2 DEF Alive
    <3>2. CASE ~ CloseDone(w)
      <4>1. thread'[w] = "done" => thread[w] = "done"
        BY <3>2 DEF Script, Loop, ScriptCreate, ScriptTerminate, ScriptSend, Collect,
              Call, ScriptCreated, ScriptEnds, PopTerminate, PopAnswer, PopMessage,
              PopReceipt, Pops, CloseChild, JoinChild, Typed, TypeOK
      <4>2. thread'[w] = "none" => thread[w] = "none"
        BY WorkerFrame
      <4> QED BY <1>3, <2>1, <4>1, <4>2 DEF Alive
    <3> QED BY <3>1, <3>2
  <2> QED BY <2>1, <2>2, <2>3
<1>6. ASSUME NEW s \in Slots, thread'[s] = "closing" PROVE f[target] <= f[s]
  <2>1. CASE thread[s] = "closing"
    BY <1>2, <2>1 DEF Ranked
  <2>2. CASE thread[s] # "closing"
    <3>1. s = w
      BY <1>3, <1>6, <2>2
    <3>2. PopTerminate(w)
      BY <1>6, <2>2, <3>1 DEF Script, Loop, ScriptCreate, ScriptTerminate, ScriptSend,
            Collect, Call, ScriptCreated, ScriptEnds, PopAnswer, PopMessage, PopReceipt,
            Pops, CloseChild, JoinChild, CloseDone, Typed, TypeOK
    <3> QED BY <1>2, <3>1, <3>2, ClosingRank
  <2> QED BY <2>1, <2>2
<1>7. Ranked(f)'
  BY <1>3, <1>5, <1>6 DEF Ranked
<1> QED BY <1>7

LEMMA MainForest ==
    ASSUME Typed, Typed', Chain, Chain', Working, Slotted, Asking, Forest,
           Main \/ MainQuit
    PROVE  Forest'
<1>1. CASE \E s \in Slots : MainCreate(s)
  <2> SUFFICES ASSUME collected' = 0, mpc' # "hung"
               PROVE  \E f \in [Slots -> Nat] : Ranked(f)'
    BY DEF Forest
  <2>1. PICK s \in Slots : MainCreate(s)
    BY <1>1
  <2>2. PICK o : o = current.owner
    OBVIOUS
  <2>3. /\ mpc = "work" /\ mpc' = "loop" /\ current.kind = "create" /\ s \in NextSlot
        /\ thread' = [thread EXCEPT ![s] = "script"]
        /\ parent' = [parent EXCEPT ![s] = o]
        /\ handles' = [handles EXCEPT ![s] = {o}]
        /\ result' = [result EXCEPT ![o] = s]
        /\ collected = 0
    BY <2>1, <2>2 DEF MainCreate, NewWorker
  <2>4. PICK f \in [Slots -> Nat] : Ranked(f)
    BY <2>3 DEF Forest
  <2>5. o \in Slots /\ Asks(current, o) /\ thread[o] = "blocked" /\ result[o] = None
    <3>1. o \in Slots /\ Asks(current, o)
      BY <2>2, <2>3 DEF Typed, Request, EventType, Working, Asks
    <3> QED BY <3>1 DEF Asking
  <2>6. thread[s] \in {"done", "none"}
    BY <2>3, NextSlotIdle
  <2>7. o # s
    BY <2>5, <2>6
  <2>8. /\ \A r \in Slots : thread'[r] = IF r = s THEN "script" ELSE thread[r]
        /\ \A r \in Slots : parent'[r] = IF r = s THEN o ELSE parent[r]
        /\ \A r \in Slots : handles'[r] = IF r = s THEN {o} ELSE handles[r]
        /\ \A r \in Slots : result'[r] = IF r = o THEN s ELSE result[r]
    BY <2>3, <2>5 DEF Typed, TypeOK
  <2> DEFINE g == [f EXCEPT ![s] = f[o] + 1]
  <2>9. /\ g \in [Slots -> Nat] /\ g[s] = f[o] + 1
        /\ \A r \in Slots : r # s => g[r] = f[r]
    BY <2>5
  <2> HIDE DEF g
  <2>10. ASSUME NEW c \in Slots, Alive(c)', parent'[c] # None
        PROVE  /\ Alive(parent[c])' /\ g[parent'[c]] < g[c]
               /\ c \in handles'[parent'[c]] \/ result'[parent'[c]] = c
    <3>1. CASE c = s
      <4>1. parent'[c] = o /\ result'[o] = c /\ thread'[o] = "blocked"
        BY <2>5, <2>7, <2>8, <3>1
      <4> QED BY <2>5, <2>7, <2>9, <3>1, <4>1 DEF Alive
    <3>2. CASE c # s
      <4>1. Alive(c) /\ parent'[c] = parent[c] /\ parent[c] \in Slots
        BY <2>8, <2>10, <3>2 DEF Alive, Typed, TypeOK
      <4>2. /\ Alive(parent[c]) /\ f[parent[c]] < f[c]
            /\ c \in handles[parent[c]] \/ result[parent[c]] = c
        BY <2>4, <2>10, <4>1 DEF Ranked
      <4>3. parent[c] # s
        BY <2>6, <4>2 DEF Alive
      <4>4. Alive(parent[c])'
        BY <2>8, <4>1, <4>2, <4>3 DEF Alive
      <4>5. c \in handles'[parent[c]] \/ result'[parent[c]] = c
        BY <2>5, <2>8, <4>1, <4>2, <4>3, SlotsAssumption
      <4> QED BY <2>9, <3>2, <4>1, <4>2, <4>3, <4>4, <4>5
    <3> QED BY <3>1, <3>2
  <2>11. \A r \in Slots : thread'[r] # "closing"
    BY <2>3, NoChain, <2>8 DEF MainJoins
  <2>12. Ranked(g)'
    BY <2>10, <2>11 DEF Ranked
  <2> QED BY <2>9, <2>12
<1>5. CASE \E s \in Slots : MainHangs(s)
  BY <1>5 DEF MainHangs, Forest
<1>2. ASSUME UNCHANGED <<thread, parent, handles, result, collected>>, mpc # "hung",
             \A w \in Slots : thread[w] # "closing"
      PROVE  Forest'
  <2>1. ASSUME NEW f, Ranked(f) PROVE Ranked(f)'
    BY <1>2, <2>1 DEF Ranked, Alive
  <2> QED BY <1>2, <2>1 DEF Forest
<1>3. CASE MainPop \/ MainTerminate \/ MainAnswer \/ MainQuit \/ MainDispose
  <2>1. /\ UNCHANGED <<thread, parent, handles, result, collected>>
        /\ mpc \in {"loop", "work", "answer", "dispose"}
    BY <1>3 DEF MainPop, MainTerminate, MainAnswer, MainQuit, MainDispose
  <2> QED BY <1>2, <2>1, NoChain DEF MainJoins
<1>4. CASE MainJoin \/ MainQuitJoin
  <2>1. /\ UNCHANGED <<thread, parent, handles, result, collected>>
        /\ thread[target] = "done" /\ mpc # "hung"
    BY <1>4 DEF MainJoin, MainQuitJoin, Joined
  <2> QED BY <1>2, <2>1, NoChain
<1> QED BY <1>1, <1>3, <1>4, <1>5 DEF Main
-----------------------------------------------------------------------------
(* IInv is inductive. *)

LEMMA InitInv == Init => IInv
<1> SUFFICES ASSUME Init PROVE IInv
  OBVIOUS
<1> USE SlotsAssumption DEF Init
<1>1. Typed
  BY BoundsAssumption
     DEF Typed, TypeOK, Running, EventType, Request, NoEvent, MainJoins
<1>2. \A w \in Slots : thread[w] \in {"none", "script"} /\ joins[w] = None
  OBVIOUS
<1>3. Chain
  <2>1. <<>> \in Seq(Slots) /\ Len(<<>>) = 0 /\ Range(<<>>) = {}
    BY DEF Range
  <2>2. \A w \in Slots : ~ Told(w)
    BY <2>1 DEF Told
  <2>3. IsChain(<<>>)
    BY <1>2, <2>1, <2>2 DEF IsChain
  <2> QED BY <2>1, <2>3 DEF Chain
<1>4. Working
  BY DEF Working, WorksForLiveOwner
<1>5. Slotted
  BY DEF Slotted, FreedAreDone, MainJoins
<1>6. Family
  BY DEF Family, ChildrenEndFirst
<1>7. BlockedIsServed /\ AnswerReachesAsker /\ JoinsChild
  BY <1>2 DEF BlockedIsServed, AnswerReachesAsker, JoinsChild
<1>8. Asking
  BY DEF Asking, Asks, NoEvent
<1>9. Forest
  <2>1. [s \in Slots |-> 0] \in [Slots -> Nat]
    OBVIOUS
  <2>2. Ranked([s \in Slots |-> 0])
    BY <1>2 DEF Ranked
  <2> QED BY <2>1, <2>2 DEF Forest
<1> QED BY <1>1, <1>3, <1>4, <1>5, <1>6, <1>7, <1>8, <1>9 DEF IInv

LEMMA NextInv == IInv /\ [Next]_vars => IInv'
<1> SUFFICES ASSUME IInv, [Next]_vars PROVE IInv'
  OBVIOUS
<1> USE DEF IInv
<1>1. Typed'
  BY TypedStep
<1>2. ASSUME NEW w \in Slots, Script(w) \/ Loop(w) PROVE IInv'
  <2>1. Chain'
    BY <1>1, <1>2, WorkerChain
  <2>2. Working' /\ Slotted' /\ Family'
    BY <1>1, <1>2, <2>1, WorkerWorking, WorkerSlotted, WorkerFamily
  <2>3. BlockedIsServed' /\ AnswerReachesAsker' /\ Asking'
    BY <1>1, <1>2, WorkerBlocked, WorkerAnswers, WorkerAsking
  <2>4. JoinsChild' /\ Forest'
    BY <1>1, <1>2, JoinsStep, WorkerForest
  <2> QED BY <1>1, <2>1, <2>2, <2>3, <2>4
<1>3. ASSUME Main \/ MainQuit PROVE IInv'
  <2>1. Chain'
    BY <1>1, <1>3, MainChain
  <2>2. Working' /\ Slotted' /\ Family'
    BY <1>1, <1>3, MainWorking, MainSlotted, MainFamily
  <2>3. BlockedIsServed' /\ AnswerReachesAsker' /\ Asking'
    BY <1>1, <1>3, MainBlocked, MainAnswers, MainAsking
  <2>4. JoinsChild' /\ Forest'
    BY <1>1, <1>3, <2>1, JoinsStep, MainForest
  <2> QED BY <1>1, <2>1, <2>2, <2>3, <2>4
<1>4. ASSUME UNCHANGED vars \/ \E w \in Slots : Wake(w) PROVE IInv'
  <2>0. UNCHANGED <<freed, life, thread, terminated, parent, queue, handles, refs, result,
                    joins, mainQueue, mpc, current, target, calls, collected>>
    BY <1>4 DEF vars, Wake
  <2> USE <2>0
  <2>1. Chain'
    BY DEF Chain, IsChain, Told, MainJoins
  <2>2. Working' /\ Slotted' /\ Family'
    BY DEF Working, WorksForLiveOwner, OwnerLives, Slotted, FreedAreDone, MainJoins,
           Family, ChildrenEndFirst
  <2>3. BlockedIsServed' /\ AnswerReachesAsker' /\ Asking'
    BY DEF BlockedIsServed, AnswerReachesAsker, Asking, Asks, Event
  <2>4. JoinsChild' /\ Forest'
    BY DEF JoinsChild, Forest, Ranked, Alive
  <2> QED BY <1>1, <2>1, <2>2, <2>3, <2>4
<1> QED BY <1>2, <1>3, <1>4 DEF Next

LEMMA Invariance == Spec => []IInv
  BY InitInv, NextInv, PTL DEF Spec
-----------------------------------------------------------------------------
(* What follows from it. *)

(* Every reachable state has the types of TypeOK.                           *)
THEOREM TypeCorrect == Spec => []TypeOK
<1>1. IInv => TypeOK
  BY DEF IInv, Typed
<1> QED BY <1>1, Invariance, PTL

(* A worker leaves its loop only while the main thread joins a worker: the  *)
(* lock-free test for a canceled event in App::run is safe.                 *)
THEOREM ClosingIsCovered == Spec => []ClosesOnlyInsideJoin
<1>1. IInv => ClosesOnlyInsideJoin
  BY ChainCloses DEF IInv
<1> QED BY <1>1, Invariance, PTL

(* The owner of the event App::run works on lives until the work is done.   *)
THEOREM OwnerOutlivesWork == Spec => []WorksForLiveOwner
<1>1. IInv => WorksForLiveOwner
  BY DEF IInv, Working
<1> QED BY <1>1, Invariance, PTL

(* No thread is joined by two threads at once: not by two workers ever, and *)
(* not by a worker and the main thread while no handle is collected.        *)
THEOREM JoinedOnce == Spec => []SingleJoiner
<1>1. IInv => SingleJoiner
  <2> SUFFICES ASSUME IInv PROVE SingleJoiner
    OBVIOUS
  <2> USE DEF IInv
  <2>1. ASSUME NEW v \in Slots, NEW w \in Slots, joins[v] # None, joins[v] = joins[w]
        PROVE  v = w
    BY <2>1 DEF JoinsChild
  <2>2. ASSUME MainJoins, collected = 0, NEW w \in Slots, joins[w] = target
        PROVE  FALSE
    <3>1. target \in Slots /\ target # None
      BY <2>2, SlotsAssumption DEF Typed
    <3>2. parent[target] = w /\ w # None
      BY <2>2, <3>1, SlotsAssumption DEF JoinsChild
    <3>3. PICK p \in Seq(Slots) : IsChain(p)
      BY DEF Chain
    <3>4. thread[w] = "closing"
      BY <2>2, <3>1, <3>3 DEF IsChain
    <3>5. thread[target] = "closing"
      <4>1. PICK i \in 1 .. Len(p) : p[i] = w
        BY <3>3, <3>4 DEF IsChain
      <4>2. 1 \in 1 .. Len(p) /\ p[1] = target
        BY <3>3, <4>1 DEF IsChain
      <4> QED BY <3>1, <3>3, <4>2 DEF IsChain
    <3>6. PICK f \in [Slots -> Nat] : Ranked(f)
      BY <2>2 DEF Forest, MainJoins
    <3>7. f[target] <= f[w] /\ f[w] < f[target]
      BY <3>1, <3>2, <3>4, <3>5, <3>6 DEF Ranked, Alive
    <3> QED BY <3>1, <3>7
  <2> QED BY <2>1, <2>2 DEF SingleJoiner
<1> QED BY <1>1, Invariance, PTL

(* A slot of App::workers_ is up for reuse only when its thread has ended,  *)
(* and once.                                                                *)
THEOREM ReuseAfterEnd == Spec => []FreedAreDone
<1>1. IInv => FreedAreDone
  BY DEF IInv, Slotted
<1> QED BY <1>1, Invariance, PTL

(* A worker that waits in createWorker is not forgotten.                    *)
THEOREM BlockedServed == Spec => []BlockedIsServed
<1>1. IInv => BlockedIsServed
  BY DEF IInv
<1> QED BY <1>1, Invariance, PTL

(* The answer to terminate() reaches the life of the slot that asked.       *)
THEOREM AnswersReach == Spec => []AnswerReachesAsker
<1>1. IInv => AnswerReachesAsker
  BY DEF IInv
<1> QED BY <1>1, Invariance, PTL

(* ~Env leaves no running child whose handle the parent still has.          *)
THEOREM ParentsEndLast == Spec => []ChildrenEndFirst
<1>1. IInv => ChildrenEndFirst
  BY DEF IInv, Family
<1> QED BY <1>1, Invariance, PTL

(* ~App finds no detached worker to terminate.                              *)
THEOREM NoneDetached == Spec => []NoDetachedLeft
<1>1. IInv => NoDetachedLeft
  BY DEF IInv, Family, NoDetachedLeft, Alive
<1> QED BY <1>1, Invariance, PTL

(* When V8 is disposed of, whatever still runs hangs below a lost handle.   *)
THEOREM AllEndedAtDispose == Spec => []DisposedWhenAllEnded
<1>1. IInv => DisposedWhenAllEnded
  <2> SUFFICES ASSUME IInv, mpc = "disposed", NEW w \in Slots, Alive(w)
               PROVE  parent[w] # None /\ (Kept(w) => Alive(parent[w]))
    BY DEF DisposedWhenAllEnded
  <2> USE DEF IInv
  <2>1. parent[w] # None
    BY DEF Family, Alive
  <2>2. parent[w] \in Slots
    BY <2>1 DEF Typed, TypeOK
  <2>3. thread[w] \in Running
    BY NoChain DEF MainJoins, Alive, Typed, TypeOK
  <2>4. Kept(w) => Alive(parent[w])
    BY <2>1, <2>2, <2>3 DEF Family, ChildrenEndFirst, Kept, Alive
  <2> QED BY <2>1, <2>4
<1> QED BY <1>1, Invariance, PTL

(* Slots, queues and threads agree, for any number of workers, windows and  *)
(* events, and although slots are reused.                                   *)
THEOREM SlotsAreSound == Spec => []SlotsSound
<1>1. TypeOK /\ FreedAreDone /\ BlockedIsServed => SlotsSound
  BY DEF SlotsSound
<1> QED BY <1>1, TypeCorrect, ReuseAfterEnd, BlockedServed, PTL

(* The workers end from the leaves of their tree to its root, and V8 last.  *)
THEOREM TreeEndsInOrder == Spec => []EndsInOrder
<1>1. ChildrenEndFirst /\ NoDetachedLeft /\ DisposedWhenAllEnded => EndsInOrder
  BY DEF EndsInOrder
<1> QED BY <1>1, ParentsEndLast, NoneDetached, AllEndedAtDispose, PTL
=============================================================================
