----------------------------- MODULE NativeEvents -----------------------------
(***************************************************************************)
(* Native events (App::emitEvent, App::run, Worker::entry, src/Event.cpp): *)
(* a message of the operating system is sent to every worker, each of them *)
(* counts it when it has processed it, and the one whose count is the last *)
(* gives the event back to the main thread, which does what the message is *)
(* about unless a script has canceled it.  Closing the last window ends in *)
(* WM_QUIT, which goes the same way.  A script makes a window with new     *)
(* Window(), which waits for it, or with Window.create(), whose event goes *)
(* through the same queues and comes back with the window.                 *)
(*                                                                         *)
(* emitEvent is one step: nothing a worker does while the loop over the    *)
(* workers runs can be seen by that loop.  Terminating a worker is two: the *)
(* main thread does nothing else from the terminate event on; and, if it   *)
(* comes to that, the worker, and those below it, have handled what was in *)
(* their queues before and their threads are joined.                       *)
(*                                                                         *)
(* A queue may refuse an event although it has room, a worker may miss a   *)
(* notification and sleep, and the main thread may wait for ever for a     *)
(* worker to start or to end: LockFreeQueue, EventQueue and Runtime show   *)
(* how; here each is a choice.                                             *)
(***************************************************************************)
EXTENDS Naturals, Sequences, FiniteSets, SequencesExt

CONSTANTS Workers,      \* the nodes of App::workers_, each used once
          MainWorker,   \* the worker of the application's entry
          Windows,      \* the windows, each created once
          NoWindow,     \* what WM_QUIT is about
          NoWorker,     \* the parent of the main worker, the owner of no window
          QueueSize,    \* MAX_QUEUE_SIZE
          MaxCloses,    \* bound: how often the user closes a window
          Astray        \* bound: the workers that miss notifications, and at whose
                        \* queue, or by whom, a push is overtaken

ASSUME MainAssumption == MainWorker \in Workers
ASSUME NoneAssumption == NoWindow \notin Windows /\ NoWorker \notin Workers
ASSUME BoundsAssumption == QueueSize \in Nat /\ MaxCloses \in Nat

VARIABLES
    status,     \* of each worker: none, live, zombie (ended, not freed) or freed
    parent,     \* parentWorker_
    queue,      \* the events in eventQueue_ of each worker
    busy,       \* the event it has handled and not yet counted, or 0
    heard,      \* the events its script can cancel
    events,     \* all events so far; an event is its index here
    mainQueue,  \* App::eventQueue_
    window,     \* none, asked for, open, blank (without a handle), dying (its handle
                \* is gone) or gone (from the map)
    owner,      \* the worker whose JavaScript object the window has
    quitPosted, \* PostQuitMessage was called
    asleep,     \* the workers asleep over a notification they missed
    mpc,        \* the main thread is in the loop of App::run, waits for a worker,
                \* or is over
    closes      \* how often the user has closed a window

vars == <<status, parent, queue, busy, heard, events, mainQueue, window, owner,
          quitPosted, asleep, mpc, closes>>

workerVars == <<status, parent, asleep>>
windowVars == <<window, owner>>

Live == {w \in Workers : status[w] = "live"}

(* The nodes that workers_.size() counts and workers_.forEach visits. *)
Listed == {w \in Workers : status[w] \in {"live", "zombie"}}

(* WindowManager::windows_ and windowsMap_ *)
Known == {v \in Windows : window[v] \in {"open", "blank", "dying"}}

Init == /\ status = [w \in Workers |-> IF w = MainWorker THEN "live" ELSE "none"]
        /\ parent = [w \in Workers |-> NoWorker]
        /\ queue = [w \in Workers |-> <<>>]
        /\ busy = [w \in Workers |-> 0]
        /\ heard = [w \in Workers |-> {}]
        /\ events = <<>>
        /\ mainQueue = <<>>
        /\ window = [v \in Windows |-> "none"]
        /\ owner = [v \in Windows |-> NoWorker]
        /\ quitPosted = FALSE
        /\ asleep = {}
        /\ mpc = "loop"
        /\ closes = 0

Runs(w) == w \in Live \ asleep

Room(q) == Len(q) < QueueSize

(* A push is refused by a full queue, and when another thread has taken the *)
(* place it had loaded and the owner of the queue has emptied it since: w   *)
(* is the worker at one end of the queue, the main thread is at the other.  *)
Refused(q, w) == ~ Room(q) \/ (w \in Astray /\ Listed # {w})

(* Whether the queue q, with worker w at one end, takes an event. *)
Takes(q, w, taken) == IF taken THEN Room(q) ELSE Refused(q, w)

(* An event of the type, about a window, by the worker that made it. *)
NewEvent(type, v, w) ==
    [type |-> type, about |-> v, by |-> w, sendCount |-> 0, count |-> 0, canceled |-> FALSE,
     vetoed |-> FALSE, fate |-> "out", unheard |-> {}]

(* emitEvent: evs are the events, to which the new one is added.  unheard   *)
(* is a ghost: the workers that are counted and will not process the event. *)
Emit(evs, type, v) ==
    \E sent \in SUBSET Listed :
        /\ \A w \in Listed : Takes(queue[w], w, w \in sent)
        /\ events' = Append(evs,
               [NewEvent(type, v, NoWorker) EXCEPT
                    !.sendCount = Cardinality(Listed),
                    !.unheard = {w \in Listed : w \notin sent \cap Live}])
        /\ queue' = [w \in Workers |->
                        IF w \in sent THEN Append(queue[w], Len(evs) + 1) ELSE queue[w]]
-----------------------------------------------------------------------------
(* The loop of a worker. *)

(* The listener that a script has for the event gets an object to cancel it *)
(* with: onClose in the worker that made the window, onQuit in any worker.  *)
Listens(w, e) == \/ events[e].type = "close" /\ owner[events[e].about] = w
                 \/ events[e].type = "quit"

(* NativeEvent::process up to the counting: the callback, in which a script *)
(* may cancel the event.                                                    *)
Handle(w) ==
    /\ Runs(w)
    /\ busy[w] = 0
    /\ queue[w] # <<>>
    /\ events[Head(queue[w])].type # "create"
    /\ LET e == Head(queue[w])
           listens == Listens(w, e) /\ ~ events[e].canceled
       IN  /\ busy' = [busy EXCEPT ![w] = e]
           /\ heard' = [heard EXCEPT ![w] = IF listens THEN @ \cup {e} ELSE @]
           /\ \/ UNCHANGED events
              \/ /\ listens
                 /\ events' = [events EXCEPT ![e].canceled = TRUE, ![e].vetoed = TRUE]
    /\ queue' = [queue EXCEPT ![w] = Tail(@)]
    /\ UNCHANGED <<workerVars, mainQueue, windowVars, quitPosted, mpc, closes>>

(* Fault: the window does not learn of its JavaScript object. *)
Register_NoObject(w) ==
    /\ Runs(w)
    /\ busy[w] = 0
    /\ queue[w] # <<>>
    /\ LET e == Head(queue[w])
       IN  /\ events[e].type = "create"
           /\ events' = [events EXCEPT ![e].fate = "registered"]
    /\ queue' = [queue EXCEPT ![w] = Tail(@)]
    /\ UNCHANGED <<workerVars, busy, heard, mainQueue, windowVars, quitPosted, mpc, closes>>

(* The answer to Window.create(): its resolver makes the JavaScript object  *)
(* and registers it with the window.                                        *)
Register(w) ==
    /\ Runs(w)
    /\ busy[w] = 0
    /\ queue[w] # <<>>
    /\ LET e == Head(queue[w])
       IN  /\ events[e].type = "create"
           /\ owner' = [owner EXCEPT ![events[e].about] = w]
           /\ events' = [events EXCEPT ![e].fate = "registered"]
    /\ queue' = [queue EXCEPT ![w] = Tail(@)]
    /\ UNCHANGED <<workerVars, busy, heard, mainQueue, window, quitPosted, mpc, closes>>

(* Fault: the first worker gives the event back. *)
Count_First(w) ==
    /\ busy[w] # 0 /\ w \notin asleep
    /\ LET e == busy[w]
           first == events[e].count = 0 /\ Room(mainQueue)
       IN  /\ events' = [events EXCEPT ![e].count = @ + 1,
                                       ![e].fate = IF first THEN "back" ELSE @]
           /\ mainQueue' = IF first THEN Append(mainQueue, e) ELSE mainQueue
    /\ busy' = [busy EXCEPT ![w] = 0]
    /\ UNCHANGED <<workerVars, queue, heard, windowVars, quitPosted, mpc, closes>>

(* fetch_add, and for the last one postEvent to the main thread. *)
Count(w) ==
    /\ busy[w] # 0 /\ w \notin asleep
    /\ \E taken \in BOOLEAN :
       LET e == busy[w]
           last == events[e].count + 1 = events[e].sendCount
       IN  /\ IF last THEN Takes(mainQueue, w, taken) ELSE ~ taken
           /\ events' = [events EXCEPT
                            ![e].count = @ + 1,
                            ![e].fate = IF ~ last THEN @ ELSE IF taken THEN "back" ELSE "lost"]
           /\ mainQueue' = IF taken THEN Append(mainQueue, e) ELSE mainQueue
    /\ busy' = [busy EXCEPT ![w] = 0]
    /\ UNCHANGED <<workerVars, queue, heard, windowVars, quitPosted, mpc, closes>>

(* A script may cancel an event later, in another callback, even when the    *)
(* main thread has removed it: events are never deleted.                     *)
CancelLate(w, e) ==
    /\ Runs(w)
    /\ e \in heard[w]
    /\ ~ events[e].canceled
    /\ events' = [events EXCEPT ![e].canceled = TRUE]
    /\ UNCHANGED <<workerVars, queue, busy, heard, mainQueue, windowVars, quitPosted,
                   mpc, closes>>
(* The main thread misses no notification, but a worker may: of an event,   *)
(* or, in a script that waits for the main thread, of what it waits for.    *)
(* That shows when the worker has an event in hand.                         *)
Misses(w) ==
    /\ mpc = "loop"
    /\ Runs(w) /\ w \in Astray
    /\ queue[w] # <<>> \/ busy[w] # 0
    /\ asleep' = asleep \cup {w}
    /\ UNCHANGED <<status, parent, queue, busy, heard, events, mainQueue, windowVars,
                   quitPosted, mpc, closes>>

(* A spurious wakeup, or the notification of another event. *)
Wake(w) ==
    /\ w \in asleep
    /\ asleep' = asleep \ {w}
    /\ UNCHANGED <<status, parent, queue, busy, heard, events, mainQueue, windowVars,
                   quitPosted, mpc, closes>>
-----------------------------------------------------------------------------
(* The main thread: messages of the operating system. *)

UserCloses(v) ==
    /\ mpc = "loop"
    /\ window[v] = "open"
    /\ closes < MaxCloses
    /\ closes' = closes + 1
    /\ Emit(events, "close", v)
    /\ UNCHANGED <<workerVars, busy, heard, mainQueue, windowVars, quitPosted, mpc>>

TakeQuit ==
    /\ mpc = "loop"
    /\ quitPosted
    /\ quitPosted' = FALSE
    /\ Emit(events, "quit", NoWindow)
    /\ UNCHANGED <<workerVars, busy, heard, mainQueue, windowVars, mpc, closes>>

(* ... and its queue, where an event comes back when all have counted it. *)
Settled(e, fate) == [events EXCEPT ![e].fate = fate]

PopsBack(types) ==
    /\ mpc = "loop"
    /\ mainQueue # <<>>
    /\ events[Head(mainQueue)].type \in types
    /\ mainQueue' = Tail(mainQueue)

(* A script has canceled the event, or the worker it is from has ended. *)
IsCanceled(e) == \/ events[e].canceled
                 \/ events[e].type = "create" /\ events[e].by \notin Live

(* A canceled event is dropped; it stays in events_. *)
DropCanceled ==
    /\ PopsBack({"close", "destroy", "quit", "create"})
    /\ IsCanceled(Head(mainQueue))
    /\ events' = Settled(Head(mainQueue), "dropped")
    /\ UNCHANGED <<workerVars, queue, busy, heard, windowVars, quitPosted, mpc, closes>>

(* Fault: the status of the event is not looked at. *)
ActClose_IgnoresStatus ==
    /\ PopsBack({"close"})
    /\ LET e == Head(mainQueue)
           v == events[e].about
       IN  IF window[v] = "open"
           THEN /\ window' = [window EXCEPT ![v] = "dying"]
                /\ Emit(Settled(e, "acted"), "destroy", v)
           ELSE events' = Settled(e, "acted") /\ UNCHANGED <<window, queue>>
    /\ UNCHANGED <<workerVars, busy, heard, owner, quitPosted, mpc, closes>>

(* Window::initialize reads isInitialized_, which nothing ever sets: if the  *)
(* memory it finds there is not zero it makes no window of the system.       *)
Initialize(v) == \E w \in {"open", "blank"} : window' = [window EXCEPT ![v] = w]

(* The work of Window.create(): the window is there, and may be closed, from *)
(* now on; the event goes back to the worker.                                *)
ActCreate ==
    /\ PopsBack({"create"})
    /\ LET e == Head(mainQueue)
           w == events[e].by
       IN  /\ ~ IsCanceled(e)
           /\ Initialize(events[e].about)
           /\ \/ /\ Room(queue[w])
                 /\ queue' = [queue EXCEPT ![w] = Append(@, e)]
                 /\ events' = Settled(e, "answered")
              \/ /\ Refused(queue[w], w)
                 /\ events' = Settled(e, "unanswered")
                 /\ UNCHANGED queue
    /\ UNCHANGED <<workerVars, busy, heard, owner, quitPosted, mpc, closes>>

(* WM_CLOSE: DefWindowProc destroys the window, if it still exists, and      *)
(* sends WM_DESTROY to windowProc before it returns.                         *)
ActClose ==
    /\ PopsBack({"close"})
    /\ LET e == Head(mainQueue)
           v == events[e].about
       IN  /\ ~ events[e].canceled
           /\ IF window[v] = "open"
              THEN /\ window' = [window EXCEPT ![v] = "dying"]
                   /\ Emit(Settled(e, "acted"), "destroy", v)
              ELSE events' = Settled(e, "acted") /\ UNCHANGED <<window, queue>>
    /\ UNCHANGED <<workerVars, busy, heard, owner, quitPosted, mpc, closes>>

(* WM_DESTROY: WindowManager::destroy, and with the last window the end. *)
ActDestroy ==
    /\ PopsBack({"destroy"})
    /\ LET e == Head(mainQueue)
           v == events[e].about
       IN  /\ ~ events[e].canceled
           /\ window' = [window EXCEPT ![v] = "gone"]
           /\ quitPosted' = (quitPosted \/ Known \ {v} = {})
           /\ events' = Settled(e, "acted")
    /\ UNCHANGED <<workerVars, queue, busy, heard, owner, mpc, closes>>

ActQuit ==
    /\ PopsBack({"quit"})
    /\ ~ events[Head(mainQueue)].canceled
    /\ mpc' = "over"
    /\ events' = Settled(Head(mainQueue), "acted")
    /\ UNCHANGED <<workerVars, queue, busy, heard, windowVars, quitPosted, closes>>
-----------------------------------------------------------------------------
(* The main thread: what it does for the workers. *)

(* new Window(): the worker waits, and registers the object before it goes   *)
(* on with its loop.                                                         *)
OpenWindow(w, v) ==
    /\ mpc = "loop"
    /\ Runs(w)
    /\ window[v] = "none"
    /\ Initialize(v)
    /\ owner' = [owner EXCEPT ![v] = w]
    /\ UNCHANGED <<workerVars, queue, busy, heard, events, mainQueue, quitPosted,
                   mpc, closes>>

(* Window.create(): whether the queue of the main thread took the event is  *)
(* not looked at; a promise is returned all the same.                       *)
AskWindow(w, v) ==
    /\ mpc # "over"
    /\ Runs(w)
    /\ window[v] = "none"
    /\ window' = [window EXCEPT ![v] = "asked"]
    /\ LET e == NewEvent("create", v, w)
       IN  \/ /\ Room(mainQueue)
              /\ events' = Append(events, [e EXCEPT !.fate = "back"])
              /\ mainQueue' = Append(mainQueue, Len(events) + 1)
           \/ /\ Refused(mainQueue, w)
              /\ events' = Append(events, [e EXCEPT !.fate = "lost"])
              /\ UNCHANGED mainQueue
    /\ UNCHANGED <<workerVars, queue, busy, heard, owner, quitPosted, mpc, closes>>

CreateWorker(p, w) ==
    /\ mpc = "loop"
    /\ Runs(p)
    /\ status[w] = "none"
    /\ status' = [status EXCEPT ![w] = "live"]
    /\ parent' = [parent EXCEPT ![w] = p]
    /\ UNCHANGED <<asleep, queue, busy, heard, events, mainQueue, windowVars, quitPosted,
                   mpc, closes>>

(* A worker and those below it: the least set that holds the worker and,     *)
(* with each of its members, that member's children.                         *)
Ending(w) ==
    {v \in Live : \A S \in SUBSET Live :
                      (w \in S /\ \A c \in Live : parent[c] \in S => c \in S) => v \in S}

(* destroyWorker: the main thread waits for a worker to end, perhaps for    *)
(* ever ...  (So it may for one to start, in createWorker: a start that it  *)
(* need not wait for is CreateWorker.)                                      *)
Wait ==
    /\ mpc = "loop"
    /\ Live # {MainWorker}
    /\ mpc' = "waits"
    /\ UNCHANGED <<workerVars, queue, busy, heard, events, mainQueue, windowVars,
                   quitPosted, closes>>

(* Fault: a worker ends without handling what is in its queue. *)
DestroyWorker_Undrained(w) ==
    /\ mpc = "waits"
    /\ w \in Live \ {MainWorker}
    /\ Ending(w) \cap asleep = {}
    /\ status' = [v \in Workers |-> IF v = w THEN "freed"
                                    ELSE IF v \in Ending(w) THEN "zombie" ELSE status[v]]
    /\ mpc' = "loop"
    /\ UNCHANGED <<parent, asleep, queue, busy, heard, events, mainQueue, windowVars,
                   quitPosted, closes>>

(* ... unless the worker ends.  That frees the node of the worker, but not  *)
(* those of the workers below it, which ~Env has terminated.                *)
DestroyWorker(w) ==
    /\ mpc = "waits"
    /\ w \in Live \ {MainWorker}
    /\ \A v \in Ending(w) : queue[v] = <<>> /\ busy[v] = 0 /\ v \notin asleep
    /\ status' = [v \in Workers |-> IF v = w THEN "freed"
                                    ELSE IF v \in Ending(w) THEN "zombie" ELSE status[v]]
    /\ mpc' = "loop"
    /\ UNCHANGED <<parent, asleep, queue, busy, heard, events, mainQueue, windowVars,
                   quitPosted, closes>>

Loop(w) == Handle(w) \/ Register(w) \/ Count(w)
MainPop == DropCanceled \/ ActCreate \/ ActClose \/ ActDestroy \/ ActQuit

Next == \/ \E w \in Workers :
              \/ Loop(w) \/ Misses(w) \/ Wake(w) \/ DestroyWorker(w)
              \/ \E e \in DOMAIN events : CancelLate(w, e)
              \/ \E v \in Windows : OpenWindow(w, v) \/ AskWindow(w, v)
              \/ \E p \in Workers : CreateWorker(p, w)
        \/ \E v \in Windows : UserCloses(v)
        \/ TakeQuit \/ MainPop \/ Wait

(* Workers that are awake go on with their events and the main thread with  *)
(* its messages; a worker that wakes up again and again looks at its queue  *)
(* each time, since scripts end.  No user has to close a window, no script  *)
(* has to do anything, nothing wakes a worker that sleeps, and no worker    *)
(* that is joined has to end: Runtime shows which ones do.                  *)
Fairness == /\ WF_vars(TakeQuit) /\ WF_vars(MainPop)
            /\ \A w \in Workers : SF_vars(Loop(w))

Spec == Init /\ [][Next]_vars /\ Fairness
-----------------------------------------------------------------------------
Ids == 1 .. Len(events)

(* Queues within their bounds, and every variable of its type. *)
TypeOK ==
    /\ status \in [Workers -> {"none", "live", "zombie", "freed"}]
    /\ parent \in [Workers -> Workers \cup {NoWorker}]
    /\ \A w \in Workers : queue[w] \in Seq(Ids) /\ Len(queue[w]) <= QueueSize
    /\ busy \in [Workers -> Ids \cup {0}]
    /\ heard \in [Workers -> SUBSET Ids]
    /\ \A e \in Ids : /\ events[e].type \in {"close", "destroy", "quit", "create"}
                      /\ events[e].about \in Windows \cup {NoWindow}
                      /\ events[e].by \in Workers \cup {NoWorker}
                      /\ events[e].fate \in {"out", "back", "lost", "acted", "dropped",
                                             "answered", "unanswered", "registered"}
    /\ mainQueue \in Seq(Ids) /\ Len(mainQueue) <= QueueSize
    /\ window \in [Windows -> {"none", "asked", "open", "blank", "dying", "gone"}]
    /\ owner \in [Windows -> Workers \cup {NoWorker}]
    /\ quitPosted \in BOOLEAN
    /\ asleep \subseteq Live /\ mpc \in {"loop", "waits", "over"}
    /\ closes \in 0 .. MaxCloses

(* Somebody still has to process or to count the event. *)
InHand(w, e) == busy[w] = e \/ e \in Range(queue[w])

(* Worker::entry dereferences getWindow(hwnd) without a test, and the       *)
(* resolver of Window.create() the window that was made: a worker that      *)
(* handles the closing of a window, or its creation, finds it in the map,   *)
(* although the main thread takes it out as soon as the last worker has     *)
(* counted WM_DESTROY.                                                      *)
WindowStillKnown ==
    \A w \in Live : \A e \in Range(queue[w]) :
        events[e].type \in {"close", "destroy", "create"} => events[e].about \in Known

(* The window exists, and the user may close it, before the worker that     *)
(* asked for it with Window.create() knows: still the closing never reaches *)
(* that worker ahead of the answer, so that its onClose is asked.  Only an  *)
(* answer that its queue refused leaves a window without a listener.        *)
MakerIsAsked ==
    \A w \in Live : \A c \in Ids :
        (/\ events[c].type = "create" /\ events[c].by = w /\ events[c].fate # "unanswered"
         /\ queue[w] # <<>>
         /\ events[Head(queue[w])].type = "close"
         /\ events[Head(queue[w])].about = events[c].about) =>
            owner[events[c].about] = w

(* An event that has come back to the main thread has been processed by     *)
(* every worker that was sent it: nobody handles it while, or after, the    *)
(* main thread acts on it.                                                  *)
BackWhenAllCounted ==
    \A e \in Ids : (events[e].type # "create" /\ events[e].fate # "out") =>
        /\ events[e].count = events[e].sendCount
        /\ \A w \in Live : ~ InHand(w, e)

(* The queues hold events of their kind, and the counts agree with them. *)
CountsSound == TypeOK /\ BackWhenAllCounted

(* A cancel() inside the callback of the event stops it, however the other  *)
(* workers and the main thread interleave: the main thread never acts on an *)
(* event that a listener has vetoed.                                        *)
VetoHolds == \A e \in Ids : events[e].vetoed => events[e].fate # "acted"

(* An event that every counted worker can process is acted on or dropped:   *)
(* the threads that end in between take their share of the counting with    *)
(* them.  A Window.create() is answered with a window that has its object,  *)
(* unless the worker has ended.  The exceptions: the queue that the event   *)
(* goes to next refused it; a worker that has it in hand sleeps over a      *)
(* notification it missed; the main thread waits for a worker to start or   *)
(* to end.                                                                  *)
MaxEvents == MaxCloses + 3 * Cardinality(Windows)
Stuck(e) == mpc = "waits" \/ \E w \in asleep : InHand(w, e)
EventSettles ==
    \A e \in 1 .. MaxEvents :
        (e \in Ids /\ events[e].unheard = {}) ~>
            \/ mpc = "over"
            \/ e \in Ids /\ events[e].fate \in
                   {"lost", "acted", "dropped", "unanswered", "registered"}
            \/ []Stuck(e)
=============================================================================
