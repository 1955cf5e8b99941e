-------------------------------- MODULE Runtime --------------------------------
(***************************************************************************)
(* The workers of the runtime and its main thread (src/App.cpp,            *)
(* src/Worker.cpp, src/js/Env.cpp, src/js/JSWorker.cpp): a worker is       *)
(* created and destroyed by the main thread on behalf of another worker,   *)
(* waits for events, sends messages, and on its way out terminates its own *)
(* children; the main thread serves one queue and, on quitting, frees the  *)
(* main worker and disposes of V8.                                         *)
(*                                                                         *)
(* A Worker lives in a node of App::workers_, a PersistentList: a slot     *)
(* here.  A slot that is freed is reused by the next worker, so a pointer  *)
(* to a worker names a slot and not one life of it.  life[s] counts the    *)
(* lives of slot s and lives is the ghost that tells them apart; the code  *)
(* has only the pointer.                                                   *)
(*                                                                         *)
(* Event queues are FIFOs of bounded length whose pop waits.  What         *)
(* LockFreeQueue and EventQueue show of them in detail is here a choice of *)
(* each call: a push may be refused although there is room, and a thread   *)
(* may miss the notification it is about to sleep for.  An event carries   *)
(* its owner, the worker whose EventAllocator it is in.  Cancelling        *)
(* happens to all events of a worker at once when its loop ends, so an     *)
(* event is canceled exactly when its owner's life is past its loop.       *)
(***************************************************************************)
EXTENDS Naturals, Sequences, FiniteSets, SequencesExt

CONSTANTS Slots,       \* the nodes of App::workers_ the model has
          MainSlot,    \* the node of the first worker, App::mainWorker_
          None,        \* no slot; among threads, the main thread
          QueueSize,   \* MAX_QUEUE_SIZE, of each queue
          Astray,      \* bound: whether pushes are overtaken and
                       \* notifications missed
          MaxCalls,    \* bound: calls of the API by all scripts together
          MaxCollects  \* bound: worker handles the garbage collector takes

ASSUME SlotsAssumption == MainSlot \in Slots /\ None \notin Slots
ASSUME QueueAssumption == QueueSize \in Nat \ {0}
ASSUME BoundsAssumption ==
    Astray \in BOOLEAN /\ MaxCalls \in Nat /\ MaxCollects \in Nat

VARIABLES
    freed,       \* workers_.free_: the slots to reuse, a stack
    life,        \* life[s]: how many workers slot s has held
    thread,      \* thread[s]: where the thread of the worker in s is
    terminated,  \* isTerminated_
    parent,      \* parentWorker_
    queue,       \* eventQueue_ of each worker
    deaf,        \* the workers asleep over a notification they missed
    handles,     \* the keys of its Env::jsWorkers_
    refs,        \* the workers its script can still name
    result,      \* Info::worker, where createWorker leaves the new worker
    joins,       \* the child ~Env is joining
    mainQueue,   \* App::eventQueue_
    mpc,         \* where the main thread is
    current,     \* the event the main thread works on
    target,      \* the worker it is joining
    calls,       \* how many API calls have been made
    collected    \* how many handles have been collected

vars == <<freed, life, thread, terminated, parent, queue, deaf, handles, refs,
          result, joins, mainQueue, mpc, current, target, calls, collected>>

(* What an event is to the workers: its kind, its owner, the life of the    *)
(* owner, and the worker it is about.                                       *)
Event(kind, owner, about) ==
    [kind |-> kind, owner |-> owner, life |-> life[owner], about |-> about]

Poison == [kind |-> "poison", owner |-> None, life |-> 0, about |-> None]
NoEvent == [kind |-> "none", owner |-> None, life |-> 0, about |-> None]

Running == {"script", "wait", "blocked"}

(* The worker that owns the event is the one now in its slot, and its loop  *)
(* has not ended.                                                           *)
OwnerLives(e) == e.life = life[e.owner] /\ thread[e.owner] \in Running
Canceled(e) == ~ OwnerLives(e)

(* PersistentList::alloc hands out the slot freed last, or a new one.       *)
NextSlot == IF freed # <<>> THEN {Last(freed)}
            ELSE {s \in Slots : life[s] = 0}

(* LockFree::Queue::push also refuses an event when another thread took the *)
(* place it had loaded, and the owner of the queue emptied it since: there  *)
(* are three threads, the one that pushes, that other, and the owner.       *)
Overtaken(pusher, owner) ==
    /\ Astray
    /\ \E v \in (Slots \cup {None}) \ {pusher, owner} :
          v # None => thread[v] # "none"

Refused(q, pusher, owner) == Len(q) >= QueueSize \/ Overtaken(pusher, owner)

(* EventQueue::postEvent notifies without the mutex: a worker that has seen *)
(* its queue empty and does not sleep yet misses it, and so does one that   *)
(* has missed one before and still does not.                                *)
Notifies(s) ==
    IF thread[s] = "wait"
    THEN \/ deaf' = deaf \ {s}
         \/ Astray /\ (queue[s] = <<>> \/ s \in deaf) /\ deaf' = deaf \cup {s}
    ELSE UNCHANGED deaf

(* EventQueue::postEvent of a worker s, on the queues q; nobody looks at    *)
(* its result.                                                              *)
Posts(q, pusher, s, e) ==
    \/ Len(q[s]) < QueueSize /\ queue' = [q EXCEPT ![s] = Append(@, e)] /\ Notifies(s)
    \/ Refused(q[s], pusher, s) /\ queue' = q /\ UNCHANGED deaf

(* App::postEvent by worker w.  The main thread misses no notification.     *)
PostsToMain(w, e) == \/ Len(mainQueue) < QueueSize /\ mainQueue' = Append(mainQueue, e)
                     \/ Refused(mainQueue, w, None) /\ UNCHANGED mainQueue

Init == /\ freed = <<>>
        /\ life = [s \in Slots |-> IF s = MainSlot THEN 1 ELSE 0]
        /\ thread = [s \in Slots |-> IF s = MainSlot THEN "script" ELSE "none"]
        /\ terminated = [s \in Slots |-> FALSE]
        /\ parent = [s \in Slots |-> None]
        /\ queue = [s \in Slots |-> <<>>]
        /\ deaf = {}
        /\ handles = [s \in Slots |-> {}]
        /\ refs = [s \in Slots |-> {}]
        /\ result = [s \in Slots |-> None]
        /\ joins = [s \in Slots |-> None]
        /\ mainQueue = <<>>
        /\ mpc = "loop"
        /\ current = NoEvent
        /\ target = None
        /\ calls = 0
        /\ collected = 0
-----------------------------------------------------------------------------
(* What a script does while it runs: the entry module, or the callback of an *)
(* event (thread "script").                                                  *)

Call(w) == /\ thread[w] = "script"
           /\ calls < MaxCalls
           /\ calls' = calls + 1

(* Bound: no worker is asked for beyond the slots of the model. *)
CreateEvents == {i \in DOMAIN mainQueue : mainQueue[i].kind = "create"}
RoomForWorker ==
    Cardinality({s \in Slots : life[s] = 0}) + Len(freed) >
        Cardinality(CreateEvents) + (IF current.kind = "create" THEN 1 ELSE 0)

(* new Worker(entry): blocks until the main thread has created the worker. *)
ScriptCreate(w) ==
    /\ Call(w)
    /\ RoomForWorker
    /\ PostsToMain(w, Event("create", w, None))
    /\ thread' = IF mainQueue' = mainQueue THEN thread      \* it throws
                 ELSE [thread EXCEPT ![w] = "blocked"]
    /\ UNCHANGED <<freed, life, terminated, parent, queue, deaf, handles, refs,
                   result, joins, mpc, current, target, collected>>

(* ... after which the script has the new worker and Env::addJsWorker its   *)
(* handle.                                                                  *)
ScriptCreated(w) ==
    /\ thread[w] = "blocked"
    /\ result[w] # None
    /\ w \notin deaf
    /\ thread' = [thread EXCEPT ![w] = "script"]
    /\ refs' = [refs EXCEPT ![w] = @ \cup {result[w]}]
    /\ handles' = [handles EXCEPT ![w] = @ \cup {result[w]}]
    /\ result' = [result EXCEPT ![w] = None]
    /\ UNCHANGED <<freed, life, terminated, parent, queue, deaf, joins, mainQueue,
                   mpc, current, target, calls, collected>>

(* h.terminate(): asks the main thread to destroy the worker. *)
ScriptTerminate(w, h) ==
    /\ Call(w)
    /\ h \in refs[w] \ {w}
    /\ PostsToMain(w, Event("terminate", w, h))
    /\ UNCHANGED <<freed, life, thread, terminated, parent, queue, deaf, handles, refs,
                   result, joins, mpc, current, target, collected>>

(* h.send(message) *)
ScriptSend(w, h) ==
    /\ Call(w)
    /\ h \in refs[w]
    /\ Posts(queue, w, h, Event("message", w, h))
    /\ UNCHANGED <<freed, life, thread, terminated, parent, handles, refs, result,
                   joins, mainQueue, mpc, current, target, collected>>

(* The wrapper object behind a handle is weak and nothing else holds it.    *)
Collect(w, h) ==
    /\ collected < MaxCollects
    /\ collected' = collected + 1
    /\ thread[w] = "script"
    /\ h \in handles[w]
    /\ handles' = [handles EXCEPT ![w] = @ \ {h}]
    /\ UNCHANGED <<freed, life, thread, terminated, parent, queue, deaf, refs,
                   result, joins, mainQueue, mpc, current, target, calls>>

ScriptEnds(w) ==
    /\ thread[w] = "script"
    /\ thread' = [thread EXCEPT ![w] = "wait"]
    /\ UNCHANGED <<freed, life, terminated, parent, queue, deaf, handles, refs,
                   result, joins, mainQueue, mpc, current, target, calls,
                   collected>>
-----------------------------------------------------------------------------
(* The loop of a worker (Worker::entry). *)

Pops(w, kind) == /\ thread[w] = "wait"
                 /\ w \notin deaf
                 /\ queue[w] # <<>>
                 /\ Head(queue[w]).kind = kind

PopTerminate(w) ==
    /\ Pops(w, "poison")
    /\ queue' = [queue EXCEPT ![w] = Tail(@)]
    /\ thread' = [thread EXCEPT ![w] = "closing"]
    /\ UNCHANGED <<freed, life, terminated, parent, deaf, handles, refs, result, joins,
                   mainQueue, mpc, current, target, calls, collected>>

(* The answer to terminate(): its promise is resolved, the event removed. *)
PopAnswer(w) ==
    /\ Pops(w, "terminate")
    /\ queue' = [queue EXCEPT ![w] = Tail(@)]
    /\ thread' = [thread EXCEPT ![w] = "script"]
    /\ UNCHANGED <<freed, life, terminated, parent, deaf, handles, refs, result,
                   joins, mainQueue, mpc, current, target, calls, collected>>

(* A message of another worker: its listeners run if the sender has a       *)
(* handle here, and the event goes back to the sender.                      *)
PopMessage(w) ==
    /\ Pops(w, "message")
    /\ LET e == Head(queue[w])
       IN  /\ e.owner # w
           /\ Posts([queue EXCEPT ![w] = Tail(@)], w, e.owner, e)
           /\ thread' = [thread EXCEPT
                            ![w] = IF e.owner \in handles[w] THEN "script" ELSE @]
    /\ UNCHANGED <<freed, life, terminated, parent, handles, refs, result, joins,
                   mainQueue, mpc, current, target, calls, collected>>

(* A message that came back: its promise is resolved, the event removed. *)
PopReceipt(w) ==
    /\ Pops(w, "message")
    /\ Head(queue[w]).owner = w
    /\ queue' = [queue EXCEPT ![w] = Tail(@)]
    /\ thread' = [thread EXCEPT ![w] = "script"]
    /\ UNCHANGED <<freed, life, terminated, parent, deaf, handles, refs, result,
                   joins, mainQueue, mpc, current, target, calls, collected>>

(* Fault: every worker with a handle is taken for a child. *)
Children_AllHandles(w) == {c \in handles[w] : ~ terminated[c]}

(* ~Env: the children that still have a handle, in any order. *)
Children(w) == {c \in handles[w] : parent[c] = w /\ ~ terminated[c]}

CloseChild(w, c) ==
    /\ thread[w] = "closing"
    /\ joins[w] = None
    /\ c \in Children(w)
    /\ Posts(queue, w, c, Poison)
    /\ joins' = [joins EXCEPT ![w] = c]
    /\ UNCHANGED <<freed, life, thread, terminated, parent, handles, refs, result,
                   mainQueue, mpc, current, target, calls, collected>>

JoinChild(w) ==
    /\ joins[w] # None
    /\ thread[joins[w]] = "done"
    /\ terminated' = [terminated EXCEPT ![joins[w]] = TRUE]
    /\ joins' = [joins EXCEPT ![w] = None]
    /\ UNCHANGED <<freed, life, thread, parent, queue, deaf, handles, refs,
                   result, mainQueue, mpc, current, target, calls, collected>>

(* Fault: the thread ends before its children have. *)
CloseDone_LeavesChildren(w) ==
    /\ thread[w] = "closing"
    /\ thread' = [thread EXCEPT ![w] = "done"]
    /\ UNCHANGED <<freed, life, terminated, parent, queue, deaf, handles, refs,
                   result, joins, mainQueue, mpc, current, target, calls,
                   collected>>

(* The thread ends; events_ is empty, so the loop that would drain the      *)
(* queue has nothing to do.                                                 *)
CloseDone(w) ==
    /\ thread[w] = "closing"
    /\ joins[w] = None
    /\ Children(w) = {}
    /\ thread' = [thread EXCEPT ![w] = "done"]
    /\ UNCHANGED <<freed, life, terminated, parent, queue, deaf, handles, refs,
                   result, joins, mainQueue, mpc, current, target, calls,
                   collected>>
-----------------------------------------------------------------------------
(* The main thread (App::run, App::destroyWorker, ~App). *)

(* Fault: the status of the event is not looked at. *)
MainPop_IgnoresStatus ==
    /\ mpc = "loop"
    /\ mainQueue # <<>>
    /\ mainQueue' = Tail(mainQueue)
    /\ mpc' = "work" /\ current' = Head(mainQueue)
    /\ UNCHANGED <<freed, life, thread, terminated, parent, queue, deaf, handles,
                   refs, result, joins, target, calls, collected>>

MainPop ==
    /\ mpc = "loop"
    /\ mainQueue # <<>>
    /\ mainQueue' = Tail(mainQueue)
    /\ IF Canceled(Head(mainQueue))
       THEN UNCHANGED <<mpc, current>>
       ELSE mpc' = "work" /\ current' = Head(mainQueue)
    /\ UNCHANGED <<freed, life, thread, terminated, parent, queue, deaf, handles,
                   refs, result, joins, target, calls, collected>>

(* createWorker: a node of workers_ and the thread of a new worker in it.   *)
NewWorker(s) ==
    /\ mpc = "work"
    /\ current.kind = "create"
    /\ s \in NextSlot
    /\ freed' = IF freed = <<>> THEN freed ELSE Front(freed)
    /\ life' = [life EXCEPT ![s] = @ + 1]
    /\ thread' = [thread EXCEPT ![s] = "script"]
    /\ terminated' = [terminated EXCEPT ![s] = FALSE]
    /\ parent' = [parent EXCEPT ![s] = current.owner]
    /\ queue' = [queue EXCEPT ![s] = <<>>]
    /\ handles' = [handles EXCEPT ![s] = {current.owner}]
    /\ refs' = [refs EXCEPT ![s] = {current.owner}]
    /\ UNCHANGED <<joins, mainQueue, target, calls, collected>>

(* The constructor of Worker returns when its thread runs, and the worker   *)
(* that asked is told; it misses that between its test and its sleep.       *)
MainCreate(s) ==
    /\ NewWorker(s)
    /\ result' = [result EXCEPT ![current.owner] = s]
    /\ deaf' = deaf \/ (Astray /\ deaf' = deaf \cup {current.owner})
    /\ mpc' = "loop"
    /\ current' = NoEvent

(* The thread announces that it runs without the mutex, and perhaps before  *)
(* the constructor clears isRunning_: the main thread never hears of it.    *)
MainHangs(s) ==
    /\ Astray
    /\ NewWorker(s)
    /\ mpc' = "hung"
    /\ UNCHANGED <<deaf, result, current>>

(* Fault: isTerminated_ is not looked at. *)
Terminate_Again(s, joining, otherwise) ==
    /\ Posts(queue, None, s, Poison)
    /\ target' = s
    /\ mpc' = joining

(* Worker::terminate, on the main thread: nothing for a worker that has     *)
(* been terminated; otherwise it posts the terminate event and joins.       *)
Terminate(s, joining, otherwise) ==
    IF terminated[s]
    THEN mpc' = otherwise /\ UNCHANGED <<queue, deaf, target>>
    ELSE /\ Posts(queue, None, s, Poison)
         /\ target' = s
         /\ mpc' = joining

Joined(next) ==
    /\ thread[target] = "done"
    /\ terminated' = [terminated EXCEPT ![target] = TRUE]
    /\ freed' = Append(freed, target)
    /\ target' = None
    /\ mpc' = next

(* destroyWorker *)
MainTerminate ==
    /\ mpc = "work"
    /\ current.kind = "terminate"
    /\ Terminate(current.about, "join", "answer")
    /\ UNCHANGED <<freed, life, thread, terminated, parent, handles, refs, result,
                   joins, mainQueue, current, calls, collected>>

MainJoin ==
    /\ mpc = "join"
    /\ Joined("answer")
    /\ UNCHANGED <<life, thread, parent, queue, deaf, handles, refs, result,
                   joins, mainQueue, current, calls, collected>>

(* Fault: the answer goes to the terminated worker. *)
MainAnswer_ToTarget ==
    /\ mpc = "answer"
    /\ Posts(queue, None, current.about, current)
    /\ mpc' = "loop"
    /\ current' = NoEvent
    /\ UNCHANGED <<freed, life, thread, terminated, parent, handles, refs, result,
                   joins, mainQueue, target, calls, collected>>

(* The finished work goes back to the worker that asked for it. *)
MainAnswer ==
    /\ mpc = "answer"
    /\ Posts(queue, None, current.owner, current)
    /\ mpc' = "loop"
    /\ current' = NoEvent
    /\ UNCHANGED <<freed, life, thread, terminated, parent, handles, refs, result,
                   joins, mainQueue, target, calls, collected>>

(* The last WM_QUIT ends the loop, whatever is still queued, and ~App frees *)
(* the main worker by its address.                                          *)
MainQuit ==
    /\ mpc = "loop"
    /\ IF MainSlot \in Range(freed)
       THEN mpc' = "dispose" /\ UNCHANGED <<freed, queue, deaf, target>>
       ELSE /\ Terminate(MainSlot, "quitJoin", "dispose")
            /\ freed' = IF terminated[MainSlot] THEN Append(freed, MainSlot) ELSE freed
    /\ UNCHANGED <<life, thread, terminated, parent, handles, refs, result, joins,
                   mainQueue, current, calls, collected>>

MainQuitJoin ==
    /\ mpc = "quitJoin"
    /\ Joined("dispose")
    /\ UNCHANGED <<life, thread, parent, queue, deaf, handles, refs, result,
                   joins, mainQueue, current, calls, collected>>

(* Detached workers would be terminated here, but only the main worker is   *)
(* detached (NoDetachedLeft); V8 is disposed of.                            *)
MainDispose ==
    /\ mpc = "dispose"
    /\ mpc' = "disposed"
    /\ UNCHANGED <<freed, life, thread, terminated, parent, queue, deaf, handles,
                   refs, result, joins, mainQueue, current, target, calls,
                   collected>>
-----------------------------------------------------------------------------
(* A spurious wakeup; nothing makes it happen. *)
Wake(w) ==
    /\ w \in deaf
    /\ deaf' = deaf \ {w}
    /\ UNCHANGED <<freed, life, thread, terminated, parent, queue, handles, refs,
                   result, joins, mainQueue, mpc, current, target, calls, collected>>

Script(w) == \/ ScriptCreate(w)
             \/ \E h \in Slots : ScriptTerminate(w, h) \/ ScriptSend(w, h) \/ Collect(w, h)

Loop(w) == \/ ScriptCreated(w) \/ ScriptEnds(w)
           \/ PopTerminate(w) \/ PopAnswer(w) \/ PopMessage(w) \/ PopReceipt(w)
           \/ (\E c \in Slots : CloseChild(w, c)) \/ JoinChild(w) \/ CloseDone(w)

Main == \/ MainPop \/ (\E s \in Slots : MainCreate(s) \/ MainHangs(s))
        \/ MainTerminate \/ MainJoin \/ MainAnswer
        \/ MainQuitJoin \/ MainDispose

Next == (\E w \in Slots : Script(w) \/ Loop(w) \/ Wake(w)) \/ Main \/ MainQuit

(* Every thread that does not sleep runs, and a script ends its turn; nobody *)
(* has to quit, and nothing wakes a thread that missed its notification.     *)
Fairness == WF_vars(Main) /\ \A w \in Slots : WF_vars(Loop(w))

Spec == Init /\ [][Next]_vars /\ Fairness
-----------------------------------------------------------------------------
EventType == [kind : {"create", "terminate", "message"}, owner : Slots,
              life : Nat, about : Slots \cup {None}]

(* Slots, threads, queues and the main thread's locals have their types. *)
TypeOK == /\ freed \in Seq(Slots)
          /\ life \in [Slots -> Nat]
          /\ thread \in [Slots -> Running \cup {"none", "closing", "done"}]
          /\ terminated \in [Slots -> BOOLEAN]
          /\ parent \in [Slots -> Slots \cup {None}]
          /\ queue \in [Slots -> Seq(EventType \cup {Poison})]
          /\ deaf \in SUBSET Slots
          /\ handles \in [Slots -> SUBSET Slots]
          /\ refs \in [Slots -> SUBSET Slots]
          /\ result \in [Slots -> Slots \cup {None}]
          /\ joins \in [Slots -> Slots \cup {None}]
          /\ mainQueue \in Seq(EventType)
          /\ mpc \in {"loop", "work", "hung", "join", "answer", "quitJoin",
                      "dispose", "disposed"}
          /\ current \in EventType \cup {NoEvent}
          /\ target \in Slots \cup {None}
          /\ calls \in 0 .. MaxCalls /\ collected \in 0 .. MaxCollects

MainJoins == mpc \in {"join", "quitJoin"}

(* A worker leaves its loop only while the main thread is inside a join:    *)
(* this is what makes the test for a canceled event in App::run, and the    *)
(* cancelling in Worker::entry, safe without a lock between them.           *)
ClosesOnlyInsideJoin ==
    \A w \in Slots : thread[w] = "closing" => MainJoins

(* The main thread never works for a worker that is gone: from the test of  *)
(* the status to the work itself the owner stays in its loop.               *)
WorksForLiveOwner == mpc = "work" => OwnerLives(current)

(* No worker is joined by two threads at once, which std::thread forbids:   *)
(* not by two workers, nor, as long as no handle is collected, by a worker  *)
(* and the main thread.  (With collected handles that happens: a worker     *)
(* outlives its parent, asks for a child, gets it in the slot of the        *)
(* parent, and each is now the other's parent.)                             *)
SingleJoiner ==
    /\ \A v, w \in Slots : (v # w /\ joins[v] # None) => joins[v] # joins[w]
    /\ (MainJoins /\ collected = 0) => \A w \in Slots : joins[w] # target

(* A slot is up for reuse only when the thread of its worker has ended, and *)
(* at most once.                                                            *)
FreedAreDone ==
    /\ \A i \in DOMAIN freed : thread[freed[i]] = "done" /\ terminated[freed[i]]
    /\ \A i, j \in DOMAIN freed : freed[i] = freed[j] => i = j

(* A worker that waits for its new worker is not forgotten: its event is in *)
(* the queue, or being worked on, or its result is there.                   *)
BlockedIsServed ==
    \A w \in Slots : thread[w] = "blocked" =>
        \/ result[w] # None
        \/ current = Event("create", w, None)
        \/ \E i \in DOMAIN mainQueue : mainQueue[i] = Event("create", w, None)

(* Slots, queues and threads agree: what is listed as free has ended, and    *)
(* whoever waits is waited for.                                              *)
SlotsSound == TypeOK /\ FreedAreDone /\ BlockedIsServed

(* The answer to terminate() never reaches another worker than the one that *)
(* asked, although the slot of the asker may be reused.                     *)
AnswerReachesAsker ==
    \A w \in Slots : \A i \in DOMAIN queue[w] :
        queue[w][i].kind = "terminate" =>
            queue[w][i].owner = w /\ queue[w][i].life = life[w]

(* A worker whose parent has ended has ended too, unless the parent had     *)
(* lost its handle: ~Env joins its children before the thread ends.         *)
ChildrenEndFirst ==
    \A c \in Slots :
        (thread[c] \in Running /\ parent[c] # None /\ c \in handles[parent[c]]) =>
            thread[parent[c]] # "done"

(* When V8 is disposed of no worker runs, except below a worker whose       *)
(* parent had lost the handle.                                              *)
Alive(w) == thread[w] \notin {"none", "done"}
Kept(w) == parent[w] # None /\ w \in handles[parent[w]]
DisposedWhenAllEnded ==
    mpc = "disposed" =>
        \A w \in Slots : Alive(w) =>
            parent[w] # None /\ (Kept(w) => Alive(parent[w]))

(* The loop over the detached workers in ~App finds none. *)
NoDetachedLeft ==
    mpc = "dispose" => \A w \in Slots : Alive(w) => parent[w] # None

(* The workers end from the leaves of their tree to its root, and V8 last.   *)
EndsInOrder == ChildrenEndFirst /\ NoDetachedLeft /\ DisposedWhenAllEnded
-----------------------------------------------------------------------------
(* A terminate() that a script has asked for. *)
Asked(w) == \/ \E i \in DOMAIN mainQueue :
                  mainQueue[i].kind = "terminate" /\ mainQueue[i].owner = w
            \/ current.kind = "terminate" /\ current.owner = w

Quitting == mpc \in {"quitJoin", "dispose", "disposed"}

(* terminate() returns a promise that settles: the main thread answers the  *)
(* worker that asked, unless the application quits first.                   *)
TerminateSettles == \A w \in Slots : Asked(w) ~> (~ Asked(w) \/ Quitting)

(* A worker that is being joined does not end while it waits for the main   *)
(* thread, or has not been told to because its queue refused to, or sleeps  *)
(* over a notification.  The main thread hangs in such a join or in the     *)
(* constructor of a worker.                                                 *)
IsJoined(w) == w = target \/ \E v \in Slots : joins[v] = w
WaitsForMain(w) == thread[w] = "blocked" /\ result[w] = None
NotTold(w) == thread[w] \in Running /\ Poison \notin Range(queue[w])
Hangs ==
    \/ mpc = "hung"
    \/ \E w \in Slots : IsJoined(w) /\ (WaitsForMain(w) \/ NotTold(w) \/ w \in deaf)

(* A terminate() is answered unless the main thread hangs for ever ...      *)
AnsweredOrHangs ==
    \A w \in Slots : Asked(w) ~> (~ Asked(w) \/ Quitting \/ []Hangs)

(* ... and so does the application end once it has begun to quit.           *)
QuitsOrHangs == mpc = "quitJoin" ~> (mpc = "disposed" \/ []Hangs)

(* Terminating a worker and quitting come to their end, or the main thread  *)
(* hangs for ever in one of the four ways of Hangs.                         *)
NothingElseHangs == AnsweredOrHangs /\ QuitsOrHangs
=============================================================================
