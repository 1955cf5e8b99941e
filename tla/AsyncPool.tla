------------------------------- MODULE AsyncPool -------------------------------
(***************************************************************************)
(* The threads of the program and the work they do for a worker: how a     *)
(* thread is started by a constructor that waits for it (AsyncWorker.cpp,  *)
(* Worker.cpp), how the pool takes asynchronous work and work a worker     *)
(* blocks for, how the main thread does the same work in its own loop      *)
(* (App.cpp), and how ~App ends the workers and the pool.                  *)
(*                                                                         *)
(* What is kept is where each thread is between two accesses to shared     *)
(* state.  No notification is made under the mutex of its wait, so the     *)
(* mutexes order nothing: a thread that has found its predicate false and  *)
(* is not asleep yet ("blocks") misses a notification.                     *)
(*                                                                         *)
(* In src/ every call asks for the main thread; the pool is what the       *)
(* default arguments of doAsyncWork and doBlockingWork ask for.            *)
(***************************************************************************)
EXTENDS Naturals, Sequences, FiniteSets, SequencesExt

CONSTANTS Pool,      \* App::asyncWorkers_
          Workers,   \* the workers the main thread may create
          Main,      \* the main thread
          None,      \* no thread, no event
          Capacity,  \* MAX_QUEUE_SIZE, of each queue
          MaxPosts   \* bound: how much work each worker asks for

ASSUME ThreadsAssumption == /\ Pool \cap Workers = {}
                            /\ Main \notin Pool \cup Workers
                            /\ None \notin Pool \cup Workers
ASSUME BoundsAssumption == Capacity \in Nat \ {0} /\ MaxPosts \in Nat

VARIABLES
    pc,             \* where each thread is
    starting,       \* the thread whose constructor the main thread is in
    isRunning,      \* AsyncWorker::isRunning_, Worker::isRunning_
    hasQueue,       \* Worker::eventQueue_ is set
    isTerminating,  \* App::isTerminating_
    joining,        \* the worker that the main thread has told to end and joins
    asyncQueue,     \* App::asyncEventQueue_: [event, ready], oldest first
    mainQueue,      \* App::eventQueue_
    inbox,          \* Worker::eventQueue_: the events that come back
    holding,        \* the event a thread of the pool or the main thread has
    posted,         \* how often each worker has asked
    live,           \* the events that have not been deleted (Worker::events_)
    done,           \* the events whose done_ is set
    worked,         \* ghost: the events whose work has been done
    robbed,         \* ghost: threads in a pop that another has got ahead of
    raced,          \* ghost: threads whose constructor undid what they had set
    missed          \* ghost: threads that were about to sleep when notified

startVars == <<starting, isRunning, hasQueue, raced>>
eventVars == <<inbox, posted, live, done, worked>>
queueVars == <<asyncQueue, mainQueue, holding>>
endVars == <<isTerminating, joining>>
work == <<eventVars, queueVars, endVars, robbed, missed>>
calm == <<startVars, endVars, robbed, missed>>
data == <<startVars, eventVars, queueVars, endVars, robbed>>
vars == <<pc, startVars, work>>

Threads == Pool \cup Workers \cup {Main}
Servers == Pool \cup {Main}
Events == [owner : Workers, nr : 1 .. MaxPosts, kind : {"async", "blocking"}]

ASSUME NoneAssumption == None \notin Events

Ended(w) == pc[w] = "ended"
Ready == asyncQueue # <<>> /\ Head(asyncQueue).ready
LoopOf(t) == IF t = Main THEN "loop" ELSE "ask"

Go(t, l) == pc' = [pc EXCEPT ![t] = l]

(* t goes from one place to another and changes nothing. *)
Step(t, from, to) == pc[t] = from /\ Go(t, to) /\ UNCHANGED <<startVars, work>>

Init == /\ pc = [t \in Threads |-> IF t = Main THEN "spawn" ELSE "none"]
        /\ starting = None
        /\ isRunning = [t \in Pool \cup Workers |-> FALSE]
        /\ hasQueue = [w \in Workers |-> FALSE]
        /\ isTerminating = FALSE /\ joining = None
        /\ asyncQueue = <<>> /\ mainQueue = <<>>
        /\ inbox = [w \in Workers |-> <<>>]
        /\ holding = [t \in Servers |-> None]
        /\ posted = [w \in Workers |-> 0]
        /\ live = {} /\ done = {} /\ worked = {}
        /\ robbed = {} /\ raced = {} /\ missed = {}

(* Condition variables: t is asleep in "sleeps", and was about to be in     *)
(* "blocks"; either way it tests its predicate again when it wakes up.      *)
Wakes(S) == {t \in S : pc[t] = "sleeps"}
Misses(S) == {t \in S : pc[t] = "blocks"}

(* notify_all: every sleeper wakes up; t goes on at l. *)
NotifyAll(t, S, l) ==
    /\ pc' = [x \in Threads |-> IF x = t THEN l
                                ELSE IF x \in Wakes(S) THEN "test" ELSE pc[x]]
    /\ missed' = (missed \ Wakes(S)) \cup Misses(S)

(* Such a step that notifies S as well. *)
Tells(t, from, S, to) == pc[t] = from /\ NotifyAll(t, S, to) /\ UNCHANGED data

(* notify_one: some sleeper wakes up, if there is one. *)
NotifyOne(t, S, l) ==
    IF Wakes(S) = {} THEN NotifyAll(t, S, l)
    ELSE \E x \in Wakes(S) : /\ pc' = [pc EXCEPT ![t] = l, ![x] = "test"]
                             /\ missed' = missed \ {x}
-----------------------------------------------------------------------------
(* A constructor starts the thread and waits until it has announced itself;  *)
(* the members declared after the thread are initialised while it may be     *)
(* running already.                                                          *)

Start(t, l) ==
    /\ pc[Main] = l /\ pc[t] = "none" /\ raced = {}
    /\ starting' = t
    /\ pc' = [pc EXCEPT ![Main] = "init", ![t] = "born"]
    /\ UNCHANGED <<isRunning, hasQueue, raced, work>>

(* App() creates the pool; App::run and the work of new Worker() a worker.  *)
StartPoolThread(t) == t \in Pool /\ Start(t, "spawn")
StartWorker(w) == w \in Workers /\ Start(w, "loop")

(* isRunning_(false) *)
InitRunning ==
    /\ pc[Main] = "init"
    /\ isRunning' = [isRunning EXCEPT ![starting] = FALSE]
    /\ raced' = IF isRunning[starting] THEN raced \cup {starting} ELSE raced
    /\ Go(Main, IF starting \in Workers THEN "initQueue" ELSE "test")
    /\ UNCHANGED <<starting, hasQueue, work>>

(* eventQueue_(nullptr), of a Worker only *)
InitQueue ==
    /\ pc[Main] = "initQueue"
    /\ hasQueue' = [hasQueue EXCEPT ![starting] = FALSE]
    /\ raced' = IF hasQueue[starting] THEN raced \cup {starting} ELSE raced
    /\ Go(Main, "test")
    /\ UNCHANGED <<starting, isRunning, work>>

(* Fault: a wakeup is taken for the announcement. *)
TestStarted_Trusts ==
    /\ pc[Main] = "test"
    /\ Go(Main, IF \E t \in Pool : pc[t] = "none" THEN "spawn" ELSE "loop")
    /\ starting' = None
    /\ UNCHANGED <<isRunning, hasQueue, raced, work>>

(* The predicate of the constructor's wait. *)
TestStarted ==
    /\ pc[Main] = "test"
    /\ IF ~ isRunning[starting]
       THEN Go(Main, "blocks") /\ starting' = starting
       ELSE /\ Go(Main, IF \E t \in Pool : pc[t] = "none" THEN "spawn" ELSE "loop")
            /\ starting' = None
    /\ UNCHANGED <<isRunning, hasQueue, raced, work>>

(* entry(): a worker's thread makes its queue ... *)
Enter(t) ==
    /\ pc[t] = "born"
    /\ Go(t, "enter")
    /\ hasQueue' = IF t \in Workers THEN [hasQueue EXCEPT ![t] = TRUE] ELSE hasQueue
    /\ UNCHANGED <<starting, isRunning, raced, work>>

(* ... isRunning_.store(true) ... *)
SetRunning(t) ==
    /\ pc[t] = "enter"
    /\ Go(t, "announce")
    /\ isRunning' = [isRunning EXCEPT ![t] = TRUE]
    /\ UNCHANGED <<starting, hasQueue, raced, work>>

BodyOf(t) == IF t \in Pool THEN "ask" ELSE "free"

(* Fault: the constructor is not told. *)
Announce_Silent(t) == Step(t, "announce", BodyOf(t))

(* ... and cv_.notify_all(). *)
Announce(t) == Tells(t, "announce", IF starting = t THEN {Main} ELSE {}, BodyOf(t))
-----------------------------------------------------------------------------
(* A thread that waits; a wait may end by itself. *)
Block(t) == Step(t, "blocks", "sleeps")

SpuriousWakeup(t) ==
    /\ pc[t] = "sleeps"
    /\ Go(t, "test")
    /\ missed' = missed \ {t}
    /\ UNCHANGED data
-----------------------------------------------------------------------------
(* A worker: "free" is its script and its loop.  A worker whose constructor *)
(* has taken its queue away crashes; the model stops there.                 *)

Current(w) == CHOOSE e \in live : e.owner = w /\ e.nr = posted[w]
Free(w) == w \in Workers /\ pc[w] = "free" /\ raced = {}

NewEvent(w, kind) == [owner |-> w, nr |-> posted[w] + 1, kind |-> kind]
Creates(e) == posted' = [posted EXCEPT ![e.owner] = @ + 1] /\ live' = live \cup {e}

(* doBlockingWork on the main thread, which a message wakes up.  (Runtime   *)
(* has asynchronous work on the main thread.)                               *)
PostToMain(w) ==
    /\ Free(w) /\ posted[w] < MaxPosts /\ Len(mainQueue) < Capacity
    /\ Creates(NewEvent(w, "blocking"))
    /\ mainQueue' = Append(mainQueue, NewEvent(w, "blocking"))
    /\ Go(w, "test")
    /\ UNCHANGED <<calm, inbox, done, worked, asyncQueue, holding>>

(* Work for the pool: a push claims a place ... *)
PostToPool(w, kind) ==
    /\ Free(w) /\ posted[w] < MaxPosts /\ Len(asyncQueue) < Capacity
    /\ Creates(NewEvent(w, kind))
    /\ asyncQueue' = Append(asyncQueue, [event |-> NewEvent(w, kind), ready |-> FALSE])
    /\ Go(w, "publish")
    /\ UNCHANGED <<calm, inbox, done, worked, mainQueue, holding>>

(* ... publishes it ... *)
Publish(w) ==
    /\ pc[w] = "publish"
    /\ asyncQueue' = [i \in DOMAIN asyncQueue |->
                        IF asyncQueue[i].event = Current(w)
                        THEN [asyncQueue[i] EXCEPT !.ready = TRUE] ELSE asyncQueue[i]]
    /\ Go(w, "notify")
    /\ UNCHANGED <<calm, eventVars, mainQueue, holding>>

AfterPost(w) == IF Current(w).kind = "blocking" THEN "test" ELSE "free"

(* Fault: no thread of the pool is told. *)
Notify_Silent(w) == Step(w, "notify", AfterPost(w))

(* ... and notifies one thread of the pool. *)
Notify(w) ==
    pc[w] = "notify" /\ NotifyOne(w, Pool, AfterPost(w)) /\ UNCHANGED data

(* A push fails when the queue is full, when a pop has not yet released the  *)
(* place it needs, and when another worker has taken the place it had loaded *)
(* and a pop has emptied that since (LockFreeQueue).                         *)
Overtaken(w) == \E v \in Workers \ {w} : pc[v] # "none"
Unreleased == \E t \in Pool : pc[t] = "check" /\ holding[t] # None
PoolRefuses(w) == Len(asyncQueue) = Capacity \/ Unreleased \/ Overtaken(w)
MainRefuses(w) == Len(mainQueue) = Capacity \/ Overtaken(w)

(* A worker does not block for what nobody will do, and the promise of      *)
(* asynchronous work stays open.                                            *)
Refused(w, kind) ==
    /\ Free(w) /\ posted[w] < MaxPosts
    /\ PoolRefuses(w) \/ (kind = "blocking" /\ MainRefuses(w))
    /\ posted' = [posted EXCEPT ![w] = @ + 1]
    /\ live' = IF kind = "async" THEN live \cup {NewEvent(w, kind)} ELSE live
    /\ UNCHANGED <<calm, pc, inbox, done, worked, queueVars>>

(* The predicate of doBlockingWork's wait; on the way out the event goes.   *)
TestDone(w) ==
    /\ w \in Workers /\ pc[w] = "test"
    /\ IF Current(w) \in done
       THEN Go(w, "free") /\ live' = live \ {Current(w)}
       ELSE Go(w, "blocks") /\ live' = live
    /\ UNCHANGED <<calm, inbox, posted, done, worked, queueVars>>

(* The loop of Worker::entry pops an answer and resolves its promise. *)
Resolve(w) ==
    /\ Free(w) /\ inbox[w] # <<>>
    /\ inbox' = [inbox EXCEPT ![w] = Tail(@)]
    /\ live' = live \ {Head(inbox[w])}
    /\ UNCHANGED <<calm, pc, posted, done, worked, queueVars>>

(* destroyWorker: the main thread tells a worker to end and joins it ...    *)
JoinWorker(w) ==
    /\ pc[Main] \in {"loop", "endWorkers"}
    /\ w \in Workers /\ pc[w] \notin {"none", "ended"}
    /\ joining' = w
    /\ Go(Main, "joinWorker")
    /\ UNCHANGED <<startVars, eventVars, queueVars, isTerminating, robbed, missed>>

(* ... which ends if it gets as far as that in its loop: it deletes all its *)
(* events, wherever they are, and says that it does not run any more.       *)
EndWorker(w) ==
    /\ Free(w) /\ pc[Main] = "joinWorker" /\ joining = w
    /\ pc' = [pc EXCEPT ![w] = "ended",
                       ![Main] = IF isTerminating THEN "endWorkers" ELSE "loop"]
    /\ isRunning' = [isRunning EXCEPT ![w] = FALSE]
    /\ live' = {e \in live : e.owner # w}
    /\ joining' = None
    /\ UNCHANGED <<starting, hasQueue, raced, inbox, posted, done, worked, queueVars,
                   isTerminating, robbed, missed>>
-----------------------------------------------------------------------------
(* getAsyncWork *)

Ask(t) == Step(t, "ask", IF isTerminating THEN "check" ELSE "pop")

(* The threads that may find, in a pop, that another has got ahead of them. *)
Popping(t) == {u \in Pool \ {t} : pc[u] \in {"pop", "popAgain"}}

(* Fault: the event is looked at and stays in the queue. *)
Take_Peeks(t, l, otherwise) ==
    /\ pc[t] = l
    /\ \/ /\ Ready
          /\ holding' = [holding EXCEPT ![t] = Head(asyncQueue).event]
          /\ Go(t, "check")
       \/ /\ ~ Ready
          /\ Go(t, otherwise) /\ holding' = holding
    /\ UNCHANGED <<calm, eventVars, mainQueue, asyncQueue>>

(* asyncEventQueue_.pop(event), at l, and where it leads when it fails: the *)
(* oldest event is not there yet, or another thread has taken the one it    *)
(* had loaded the place of and there is a later one in that place.          *)
Take(t, l, otherwise) ==
    /\ pc[t] = l
    /\ \/ /\ Ready
          /\ asyncQueue' = Tail(asyncQueue)
          /\ holding' = [holding EXCEPT ![t] = Head(asyncQueue).event]
          /\ robbed' = Popping(t)
          /\ Go(t, "check")
       \/ /\ ~ Ready \/ t \in robbed
          /\ Go(t, otherwise) /\ robbed' = robbed \ {t}
          /\ UNCHANGED <<asyncQueue, holding>>
    /\ UNCHANGED <<startVars, endVars, missed, eventVars, mainQueue>>

Pop(t) == Take(t, "pop", "test")

(* The predicate isTerminating_ || asyncEventQueue_.size() > 0. *)
TestWork(t) ==
    Step(t, "test", IF isTerminating \/ asyncQueue # <<>> THEN "popAgain" ELSE "blocks")

(* When the pop after the wait fails, getAsyncWork returns false and the    *)
(* thread's loop ends.                                                      *)
PopAgain(t) == Take(t, "popAgain", "ended")

(* AsyncWorker::entry tests isRunning_ first; the terminate event, which    *)
(* getAsyncWork returns from then on, is no work.                           *)
Check(t) ==
    /\ pc[t] = "check"
    /\ Go(t, IF ~ isRunning[t] THEN "ended"
             ELSE IF holding[t] = None THEN "ask" ELSE "work")
    /\ holding' = [holding EXCEPT ![t] = IF isRunning[t] THEN @ ELSE None]
    /\ UNCHANGED <<calm, eventVars, asyncQueue, mainQueue>>
-----------------------------------------------------------------------------
(* What the pool and the main thread do with an event. *)

(* The main thread drops an event that was canceled. *)
MainPop ==
    /\ pc[Main] = "loop" /\ mainQueue # <<>>
    /\ mainQueue' = Tail(mainQueue)
    /\ IF Ended(Head(mainQueue).owner)
       THEN UNCHANGED <<pc, holding>>
       ELSE /\ holding' = [holding EXCEPT ![Main] = Head(mainQueue)]
            /\ Go(Main, "work")
    /\ UNCHANGED <<calm, eventVars, asyncQueue>>

(* e.work_(e) *)
Perform(t) ==
    /\ t \in Servers /\ pc[t] = "work"
    /\ worked' = worked \cup {holding[t]}
    /\ Go(t, IF holding[t].kind = "async" THEN "answer" ELSE "setDone")
    /\ UNCHANGED <<calm, inbox, posted, live, done, queueVars>>

(* e.worker_.postEvent(event), whose result nobody looks at: it may be       *)
(* refused, by a queue with room when another thread answers as well.  An    *)
(* ended worker's queue is read by nobody.                                   *)
Answer(t) ==
    /\ pc[t] = "answer"
    /\ LET w == holding[t].owner
       IN  \/ /\ Len(inbox[w]) < Capacity
              /\ inbox' = [inbox EXCEPT ![w] = Append(@, holding[t])]
           \/ /\ Len(inbox[w]) = Capacity \/ Servers # {t}
              /\ UNCHANGED inbox
    /\ holding' = [holding EXCEPT ![t] = None]
    /\ Go(t, LoopOf(t))
    /\ UNCHANGED <<calm, posted, live, done, worked, asyncQueue, mainQueue>>

(* done_.store(true), after which the worker may go on and delete the event *)
SetDone(t) ==
    /\ pc[t] = "setDone"
    /\ done' = done \cup {holding[t]}
    /\ Go(t, "tell")
    /\ UNCHANGED <<calm, inbox, posted, live, worked, queueVars>>

(* Fault: the worker is not told. *)
Tell_Silent(t) ==
    /\ pc[t] = "tell"
    /\ Go(t, LoopOf(t))
    /\ holding' = [holding EXCEPT ![t] = None]
    /\ UNCHANGED <<calm, eventVars, asyncQueue, mainQueue>>

(* blockingWorkCv_.notify_all() *)
Tell(t) ==
    /\ pc[t] = "tell"
    /\ NotifyAll(t, {holding[t].owner}, LoopOf(t))
    /\ holding' = [holding EXCEPT ![t] = None]
    /\ UNCHANGED <<startVars, eventVars, asyncQueue, mainQueue, endVars, robbed>>
-----------------------------------------------------------------------------
(* ~App *)

Quit == /\ pc[Main] = "loop"
        /\ isTerminating' = TRUE
        /\ Go(Main, "endWorkers")
        /\ UNCHANGED <<startVars, eventVars, queueVars, joining, robbed, missed>>

WorkersEnded == /\ \A w \in Workers : pc[w] \in {"none", "ended"}
                /\ Step(Main, "endWorkers", "stop")

StopThread(t) == /\ pc[Main] = "stop"
                 /\ t \in Pool /\ isRunning[t]
                 /\ isRunning' = [isRunning EXCEPT ![t] = FALSE]
                 /\ UNCHANGED <<pc, starting, hasQueue, raced, work>>

(* Fault: only one thread of the pool is told. *)
NotifyPool_One == /\ pc[Main] = "stop" /\ \A t \in Pool : ~ isRunning[t]
                  /\ NotifyOne(Main, Pool, "join") /\ UNCHANGED data

NotifyPool == (\A t \in Pool : ~ isRunning[t]) /\ Tells(Main, "stop", Pool, "join")

JoinPool == (\A t \in Pool : pc[t] = "ended") /\ Step(Main, "join", "over")
-----------------------------------------------------------------------------
Serve(t) == Perform(t) \/ Answer(t) \/ SetDone(t) \/ Tell(t)

PoolStep(t) == \/ Enter(t) \/ SetRunning(t) \/ Announce(t)
               \/ Ask(t) \/ Pop(t) \/ TestWork(t) \/ Block(t) \/ PopAgain(t)
               \/ Check(t) \/ Serve(t)

(* What a worker does whether or not its script asks for anything. *)
WorkerStep(w) == \/ Enter(w) \/ SetRunning(w) \/ Announce(w)
                 \/ Publish(w) \/ Notify(w) \/ TestDone(w) \/ Block(w)

WorkerAsks(w) == \E kind \in {"async", "blocking"} :
                    PostToPool(w, kind) \/ Refused(w, kind)

MainStep == \/ \E t \in Pool : StartPoolThread(t) \/ StopThread(t)
            \/ InitRunning \/ InitQueue \/ TestStarted \/ Block(Main)
            \/ MainPop \/ Serve(Main)
            \/ WorkersEnded \/ NotifyPool \/ JoinPool

Next == \/ MainStep \/ Quit
        \/ \E t \in Pool : PoolStep(t)
        \/ \E w \in Workers : \/ WorkerStep(w) \/ WorkerAsks(w) \/ PostToMain(w)
                             \/ Resolve(w) \/ StartWorker(w) \/ JoinWorker(w) \/ EndWorker(w)
        \/ \E t \in Threads : SpuriousWakeup(t)

(* Every thread runs; ~App tells the workers to end.  Nobody has to ask for *)
(* work, to create or end a worker before that, or to quit; and a worker    *)
(* need not get its answers, or end when it has been told to, since it may  *)
(* sleep over the notification of either (EventQueue, Runtime).             *)
Fairness == /\ WF_vars(MainStep)
            /\ WF_vars(pc[Main] = "endWorkers" /\ \E w \in Workers : JoinWorker(w))
            /\ \A t \in Pool : WF_vars(PoolStep(t))
            /\ \A w \in Workers : WF_vars(WorkerStep(w))

Spec == Init /\ [][Next]_vars /\ Fairness
-----------------------------------------------------------------------------
(* Every variable has its type. *)
TypeOK ==
    /\ pc \in [Threads -> {"none", "spawn", "init", "initQueue", "test", "blocks", "sleeps",
                           "loop", "joinWorker", "endWorkers", "stop", "join", "over",
                           "born", "enter", "announce", "ask", "pop", "popAgain", "check",
                           "work", "answer", "setDone", "tell",
                           "free", "publish", "notify", "ended"}]
    /\ starting \in Pool \cup Workers \cup {None}
    /\ isRunning \in [Pool \cup Workers -> BOOLEAN]
    /\ hasQueue \in [Workers -> BOOLEAN]
    /\ isTerminating \in BOOLEAN /\ joining \in Workers \cup {None}
    /\ asyncQueue \in Seq([event : Events, ready : BOOLEAN]) /\ Len(asyncQueue) <= Capacity
    /\ mainQueue \in Seq(Events) /\ Len(mainQueue) <= Capacity
    /\ inbox \in [Workers -> Seq(Events)]
    /\ holding \in [Servers -> Events \cup {None}]
    /\ posted \in [Workers -> 0 .. MaxPosts]
    /\ live \subseteq Events /\ done \subseteq Events /\ worked \subseteq Events
    /\ raced \subseteq Pool \cup Workers /\ missed \subseteq Threads /\ robbed \subseteq Pool

(* From when its constructor has returned until it ends, a thread has its   *)
(* queue and says that it runs, unless the constructor's own initialisation *)
(* came after what the thread had set.                                      *)
ReadyWhenStarted ==
    \A t \in (Pool \cup Workers) \ raced :
        (pc[t] \notin {"none", "ended"} /\ starting # t /\ ~ isTerminating) =>
            isRunning[t] /\ (t \in Workers => hasQueue[t])

(* The threads, their flags and the queues agree. *)
StartsSound == TypeOK /\ ReadyWhenStarted

(* The work of an event is done at most once, whoever does it: when a       *)
(* thread is about to do it, nobody has done it or is about to.             *)
WorkedOnce ==
    \A t \in Servers : pc[t] = "work" =>
        /\ holding[t] \notin worked
        /\ \A u \in Servers \ {t} : holding[u] # holding[t]

(* A thread works on, answers or completes an event that exists; only the   *)
(* end of its owner can take it away.                                       *)
HeldIsLive ==
    \A t \in Servers : pc[t] \in {"work", "answer", "setDone"} =>
        holding[t] \in live \/ Ended(holding[t].owner)

(* A worker is told that its work is done, by done_ or by an answer in its  *)
(* queue, only after it has been done.                                      *)
ToldIsWorked ==
    \A e \in Events :
        (e \in done \/ \E w \in Workers : e \in Range(inbox[w])) => e \in worked

(* Of the work of an event: done once, on an event that exists, and before   *)
(* its worker is told.                                                       *)
WorkIsSound == WorkedOnce /\ HeldIsLive /\ ToldIsWorked

PoolGone == \A t \in Pool : pc[t] = "ended"
PoolMissedIt == \E t \in Pool : pc[t] = "sleeps" /\ t \in missed
Queued(w, n) == \E i \in DOMAIN asyncQueue : LET e == asyncQueue[i].event
                                            IN  e.owner = w /\ e.nr = n

(* A constructor waits for ever, or has left its object broken. *)
StartFails == raced # {} \/ (pc[Main] = "sleeps" /\ Main \in missed)

(* Work given to the pool is done as long as one thread of it is left,      *)
(* unless the application ends or a thread went to sleep over the           *)
(* notification.                                                            *)
PoolWorks ==
    \A w \in Workers, n \in 1 .. MaxPosts :
        Queued(w, n) ~> \/ \E e \in worked : e.owner = w /\ e.nr = n
                        \/ PoolGone \/ PoolMissedIt \/ isTerminating

(* A worker that blocks goes on, unless it went to sleep over the           *)
(* notification, or its work is the pool's and the pool fails, or it is the *)
(* main thread's and that joins a worker for ever, perhaps this one, or the *)
(* application ends.                                                        *)
OnMain(w) == \E e \in Range(mainQueue) : e.owner = w /\ e.nr = posted[w]
BlockedGoesOn ==
    \A w \in Workers :
        (pc[w] = "sleeps") ~> \/ pc[w] # "sleeps"
                             \/ w \in missed
                             \/ (Queued(w, posted[w]) /\ (PoolGone \/ PoolMissedIt))
                             \/ [](pc[Main] = "joinWorker" /\ OnMain(w))
                             \/ isTerminating \/ StartFails

(* A constructor returns, unless it undid what the thread had set, or the   *)
(* main thread went to sleep over the announcement.                         *)
StartReturns == (starting # None) ~> (starting = None \/ StartFails)

(* ~App ends, unless a worker never ends or a thread of the pool went to    *)
(* sleep over the last notification.                                        *)
PoolEnds == (pc[Main] = "stop") ~> (pc[Main] = "over" \/ PoolMissedIt)
=============================================================================
