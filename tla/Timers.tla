-------------------------------- MODULE Timers --------------------------------
(***************************************************************************)
(* Timeouts (src/js/Timeout.cpp, Env::addTimeout and its neighbours,       *)
(* App::run and App::timerProc).  A script makes a timeout; the node it    *)
(* gets in Env::timeouts_ gives it an index, unique among the live ones of *)
(* its worker.  An INIT event makes the main thread arm a timer of the     *)
(* operating system, whose callback posts that same event back to the      *)
(* worker, which resolves whatever timeout has the index.  cancel() sends  *)
(* the index to the main thread, which keeps one table from indices to     *)
(* timers for all workers.                                                 *)
(*                                                                         *)
(* A timeout is a number here, in the order of creation.  It is armed at   *)
(* most once, so the number also names its timer.                          *)
(*                                                                         *)
(* A queue may refuse an event although it has room, a worker may miss a   *)
(* notification and sleep, and the main thread may wait for ever for a     *)
(* worker to start or to end: LockFreeQueue, EventQueue and Runtime show   *)
(* how; here each is a choice.                                             *)
(***************************************************************************)
EXTENDS Naturals, Sequences, Functions, SequencesExt

CONSTANTS Workers,      \* the workers
          QueueSize,    \* MAX_QUEUE_SIZE
          MaxTimeouts,  \* bound: timeouts made by all scripts
          MaxCancels,   \* bound: calls of cancel()
          MainWorker    \* the worker that lives as long as the application

ASSUME QueueAssumption == QueueSize \in Nat \ {0}
ASSUME BoundsAssumption == MaxTimeouts \in Nat /\ MaxCancels \in Nat

VARIABLES
    timeouts,    \* all timeouts so far: owner, index, loop and what became of them
    nodes,       \* nodes[w]: Env::timeouts_, the timeout in each node
    freeNodes,   \* freeNodes[w]: its stack of free indices
    queue,       \* the timeout events in eventQueue_ of each worker
    mainQueue,   \* App::eventQueue_
    armed,       \* the timers of the operating system
    timerEvents, \* timeoutEvents_: the timers whose event is known
    timerIds,    \* timeoutIDsToPtrs_: from an index to a timer
    cancels,     \* how often cancel() was called
    asleep,      \* the workers asleep over a notification they missed
    waits,       \* the main thread waits for a worker to start or to end
    ended,       \* the workers whose thread has ended
    crashed      \* timerProc went through a pointer to nothing

vars == <<timeouts, nodes, freeNodes, queue, mainQueue, armed, timerEvents, timerIds,
          cancels, asleep, waits, ended, crashed>>
lives == <<asleep, waits, ended, crashed>>

Init == /\ timeouts = <<>>
        /\ nodes = [w \in Workers |-> <<>>]
        /\ freeNodes = [w \in Workers |-> <<>>]
        /\ queue = [w \in Workers |-> <<>>]
        /\ mainQueue = <<>>
        /\ armed = {}
        /\ timerEvents = {}
        /\ timerIds = <<>>
        /\ cancels = 0
        /\ asleep = {}
        /\ waits = FALSE
        /\ ended = {}
        /\ crashed = FALSE

Room(q) == Len(q) < QueueSize

(* A push is refused by a full queue, and when another thread has taken the *)
(* place it had loaded and the owner of the queue has emptied it since: w   *)
(* is the worker at one end of the queue, the main thread is at the other.  *)
Refused(q, w) == ~ Room(q) \/ Workers # {w}

(* Whether the queue q, with worker w at one end, takes an event. *)
Takes(q, w, taken) == IF taken THEN Room(q) ELSE Refused(q, w)

Runs(w) == w \notin ended \cup asleep
Becomes(t, fate) == timeouts' = [timeouts EXCEPT ![t].fate = fate]
-----------------------------------------------------------------------------
(* new Timeout(callback, ms, loop), setTimeout and setInterval: addTimeout   *)
(* takes a node and posts the INIT event, without a look at the result.      *)
Create(w, loop) ==
    /\ Runs(w)
    /\ Len(timeouts) < MaxTimeouts
    /\ \E fits \in BOOLEAN :
       LET t == Len(timeouts) + 1
           reuses == freeNodes[w] # <<>>
           i == IF reuses THEN Last(freeNodes[w]) ELSE Len(nodes[w]) + 1
       IN  /\ Takes(mainQueue, w, fits)
           /\ timeouts' = Append(timeouts,
                  [owner |-> w, index |-> i, loop |-> loop, resolved |-> 0,
                   fate |-> IF fits THEN "sent" ELSE "refused", canceled |-> FALSE])
           /\ nodes' = [nodes EXCEPT ![w] = IF reuses THEN [@ EXCEPT ![i] = t]
                                            ELSE Append(@, t)]
           /\ freeNodes' = [freeNodes EXCEPT ![w] = IF reuses THEN Front(@) ELSE @]
           /\ mainQueue' = IF fits THEN Append(mainQueue, [type |-> "INIT", of |-> t])
                           ELSE mainQueue
    /\ UNCHANGED <<queue, armed, timerEvents, timerIds, cancels, lives>>

(* timeout.cancel(): only the index of the timeout reaches the main thread.  *)
Cancel(t) ==
    /\ Runs(timeouts[t].owner)
    /\ cancels < MaxCancels
    /\ cancels' = cancels + 1
    /\ \/ Room(mainQueue) /\ mainQueue' = Append(mainQueue, [type |-> "CANCEL", of |-> t])
       \/ Refused(mainQueue, timeouts[t].owner) /\ UNCHANGED mainQueue
    /\ UNCHANGED <<timeouts, nodes, freeNodes, queue, armed, timerEvents, timerIds, lives>>

(* Fault: loops give their node back, too. *)
Resolve_FreesLoops(w) ==
    /\ Runs(w)
    /\ queue[w] # <<>>
    /\ LET i == timeouts[Head(queue[w])].index
           t == nodes[w][i]
       IN  /\ timeouts' = [timeouts EXCEPT ![t].resolved = IF @ < 2 THEN @ + 1 ELSE @]
           /\ freeNodes' = [freeNodes EXCEPT ![w] = Append(@, i)]
    /\ queue' = [queue EXCEPT ![w] = Tail(@)]
    /\ UNCHANGED <<nodes, mainQueue, armed, timerEvents, timerIds, cancels, lives>>

(* resolveTimeout: the timeout that has the index now is resolved, and its  *)
(* node given back unless it loops.  (resolved is capped at two.)            *)
Resolve(w) ==
    /\ Runs(w)
    /\ queue[w] # <<>>
    /\ LET i == timeouts[Head(queue[w])].index
           t == nodes[w][i]
       IN  /\ timeouts' = [timeouts EXCEPT ![t].resolved = IF @ < 2 THEN @ + 1 ELSE @]
           /\ freeNodes' = [freeNodes EXCEPT
                               ![w] = IF timeouts[t].loop THEN @ ELSE Append(@, i)]
    /\ queue' = [queue EXCEPT ![w] = Tail(@)]
    /\ UNCHANGED <<nodes, mainQueue, armed, timerEvents, timerIds, cancels, lives>>
-----------------------------------------------------------------------------
rest == <<timeouts, nodes, freeNodes, queue, mainQueue, armed, timerEvents, timerIds,
          cancels, crashed>>

(* The main thread misses no notification, but a worker may: of an event,   *)
(* or, in a script that waits for the main thread, of what it waits for.    *)
(* That shows when there is an event for it.                                *)
Misses(w) == /\ ~ waits
             /\ Runs(w)
             /\ queue[w] # <<>>
             /\ asleep' = asleep \cup {w}
             /\ UNCHANGED <<rest, waits, ended>>

(* A spurious wakeup, or the notification of another event. *)
Wake(w) == /\ w \in asleep
           /\ asleep' = asleep \ {w}
           /\ UNCHANGED <<rest, waits, ended>>

(* createWorker and destroyWorker: the main thread waits for a worker to    *)
(* start or to end, perhaps for ever.  (A start that it need not wait for   *)
(* is no step here.)                                                        *)
Wait == /\ ~ waits
        /\ waits' = TRUE
        /\ UNCHANGED <<rest, asleep, ended>>

(* A worker ends: it cancels every event it still owns.  The main thread    *)
(* waits for it, or for the worker that waits for it; nobody tells it about *)
(* the timers.                                                              *)
End(w) == /\ waits
          /\ waits' \in BOOLEAN
          /\ Runs(w)
          /\ w # MainWorker
          /\ ended' = ended \cup {w}
          /\ UNCHANGED <<rest, asleep>>
-----------------------------------------------------------------------------
(* The main thread. *)

(* Fault: the status of the event is not looked at. *)
Pops_IgnoresStatus(type, t) ==
    /\ ~ waits
    /\ mainQueue # <<>>
    /\ Head(mainQueue) = [type |-> type, of |-> t]
    /\ mainQueue' = Tail(mainQueue)

Pops(type, t) ==
    /\ ~ waits
    /\ mainQueue # <<>>
    /\ Head(mainQueue) = [type |-> type, of |-> t]
    /\ timeouts[t].owner \notin ended
    /\ mainQueue' = Tail(mainQueue)

DropCanceled ==
    /\ ~ waits
    /\ mainQueue # <<>>
    /\ timeouts[Head(mainQueue).of].owner \in ended
    /\ mainQueue' = Tail(mainQueue)
    /\ UNCHANGED <<timeouts, nodes, freeNodes, queue, armed, timerEvents, timerIds, cancels,
                   lives>>

(* unordered_map::emplace: an index that is in the table keeps its timer.   *)
Emplace(table, i, t) ==
    IF i \in DOMAIN table THEN table
    ELSE [j \in DOMAIN table \cup {i} |-> IF j = i THEN t ELSE table[j]]

(* Fault: the event of the timer is not kept. *)
Arm_NoEvent(t) ==
    /\ Pops("INIT", t)
    /\ armed' = armed \cup {t}
    /\ timerIds' = Emplace(timerIds, timeouts[t].index, t)
    /\ Becomes(t, "armed")
    /\ UNCHANGED <<nodes, freeNodes, queue, timerEvents, cancels, lives>>

Arm(t) ==
    /\ Pops("INIT", t)
    /\ armed' = armed \cup {t}
    /\ timerEvents' = timerEvents \cup {t}
    /\ timerIds' = Emplace(timerIds, timeouts[t].index, t)
    /\ Becomes(t, "armed")
    /\ UNCHANGED <<nodes, freeNodes, queue, cancels, lives>>

(* Its time has passed already, or there is no timer to be had: nothing is  *)
(* done about it but a line on the console.                                 *)
NoTimer(t) ==
    /\ Pops("INIT", t)
    /\ \E why \in {"late", "untimed"} : Becomes(t, why)
    /\ UNCHANGED <<nodes, freeNodes, queue, armed, timerEvents, timerIds, cancels, lives>>

(* Fault: KillTimer is not called. *)
Disarm_KeepsTimer(t) ==
    /\ Pops("CANCEL", t)
    /\ LET i == timeouts[t].index
       IN  IF i \in DOMAIN timerIds
           THEN LET id == timerIds[i]
                IN  /\ timerEvents' = timerEvents \ {id}
                    /\ timerIds' = Restrict(timerIds, DOMAIN timerIds \ {i})
                    /\ timeouts' = [timeouts EXCEPT ![t].canceled = TRUE]
           ELSE /\ timeouts' = [timeouts EXCEPT ![t].canceled = TRUE]
                /\ UNCHANGED <<timerEvents, timerIds>>
    /\ UNCHANGED <<nodes, freeNodes, queue, armed, cancels, lives>>

(* The timer that the table has for the index is killed.                    *)
(* (canceled is a ghost: the main thread is done with a cancel() of t.)      *)
Disarm(t) ==
    /\ Pops("CANCEL", t)
    /\ LET i == timeouts[t].index
       IN  IF i \in DOMAIN timerIds
           THEN LET id == timerIds[i]
                IN  /\ armed' = armed \ {id}
                    /\ timerEvents' = timerEvents \ {id}
                    /\ timerIds' = Restrict(timerIds, DOMAIN timerIds \ {i})
                    /\ timeouts' = [timeouts EXCEPT
                          ![t].canceled = TRUE,
                          ![id].fate = IF id \in armed THEN "killed" ELSE @]
           ELSE /\ timeouts' = [timeouts EXCEPT ![t].canceled = TRUE]
                /\ UNCHANGED <<armed, timerEvents, timerIds>>
    /\ UNCHANGED <<nodes, freeNodes, queue, cancels, lives>>

(* timerProc, which a message to the main thread calls: the event goes to   *)
(* its worker, if its queue takes it; a timer that does not loop is killed, *)
(* and stays in both tables.                                                *)
Fire(t) ==
    /\ ~ waits
    /\ t \in armed
    /\ t \in timerEvents
    /\ \E fits \in BOOLEAN :
       LET w == timeouts[t].owner
           once == ~ timeouts[t].loop
       IN  /\ Takes(queue[w], w, fits)
           /\ queue' = [queue EXCEPT ![w] = IF fits THEN Append(@, t) ELSE @]
           /\ armed' = IF once THEN armed \ {t} ELSE armed
           /\ Becomes(t, IF ~ fits THEN "lost"
                         ELSE IF once THEN "fired" ELSE timeouts[t].fate)
    /\ UNCHANGED <<nodes, freeNodes, mainQueue, timerEvents, timerIds, cancels, lives>>

(* timerProc for a worker that has ended: e->env was on the stack of its    *)
(* thread.  If the bytes are still there, Fire posts to a queue that nobody *)
(* reads any more; if not, the program is over.                             *)
FireCrashes(t) ==
    /\ ~ waits
    /\ t \in armed
    /\ t \in timerEvents
    /\ timeouts[t].owner \in ended
    /\ crashed' = TRUE
    /\ UNCHANGED <<timeouts, nodes, freeNodes, queue, mainQueue, armed, timerEvents, timerIds,
                   cancels, asleep, waits, ended>>

Ids == DOMAIN timeouts
Main == \/ \E t \in Ids : Arm(t) \/ NoTimer(t) \/ Disarm(t)
        \/ DropCanceled
Timer(t) == Fire(t) \/ FireCrashes(t)

Next == /\ ~ crashed
        /\ \/ \E w \in Workers : \/ \E loop \in BOOLEAN : Create(w, loop)
                                \/ Resolve(w) \/ Misses(w) \/ Wake(w) \/ End(w)
           \/ \E t \in Ids : Cancel(t) \/ Timer(t)
           \/ Main \/ Wait

(* The main thread and the workers that are awake go on, and an armed timer *)
(* fires.  Nothing wakes a worker that sleeps, nor ends a wait of the main  *)
(* thread: Runtime shows which ones end.  But a worker that wakes up again  *)
(* and again looks at its queue each time, since scripts end.               *)
Fairness == /\ WF_vars(~ crashed /\ Main)
            /\ \A t \in 1 .. MaxTimeouts : WF_vars(~ crashed /\ t \in Ids /\ Timer(t))
            /\ \A w \in Workers : SF_vars(~ crashed /\ Resolve(w))

Spec == Init /\ [][Next]_vars /\ Fairness
-----------------------------------------------------------------------------
(* Tables, queues and nodes hold timeouts, within their bounds. *)
TypeOK ==
    /\ Len(timeouts) <= MaxTimeouts
    /\ \A t \in Ids : /\ timeouts[t].owner \in Workers
                      /\ timeouts[t].index \in DOMAIN nodes[timeouts[t].owner]
                      /\ timeouts[t].fate \in {"sent", "refused", "late", "untimed",
                                               "armed", "fired", "lost", "killed"}
    /\ \A w \in Workers : /\ nodes[w] \in Seq(Ids)
                          /\ freeNodes[w] \in Seq(DOMAIN nodes[w])
                          /\ queue[w] \in Seq(Ids) /\ Len(queue[w]) <= QueueSize
    /\ mainQueue \in Seq([type : {"INIT", "CANCEL"}, of : Ids])
    /\ Len(mainQueue) <= QueueSize
    /\ armed \subseteq Ids /\ timerEvents \subseteq Ids
    /\ IsInjective(timerIds) /\ Range(timerIds) \subseteq Ids
    /\ cancels \in 0 .. MaxCancels
    /\ asleep \subseteq Workers /\ waits \in BOOLEAN
    /\ ended \subseteq Workers \ {MainWorker}
    /\ crashed \in BOOLEAN

(* An event that reaches a worker finds its own timeout under its index,    *)
(* not one that was made later in the same node.                            *)
FindsItsTimeout ==
    \A w \in Workers : \A t \in Range(queue[w]) :
        nodes[w][timeouts[t].index] = t /\ timeouts[t].index \notin Range(freeNodes[w])

(* A node is given back at most once: the callback of a timeout that does   *)
(* not loop runs at most once, whatever is canceled or made meanwhile.      *)
ResolvedOnce ==
    /\ \A t \in Ids : timeouts[t].loop \/ timeouts[t].resolved <= 1
    /\ \A w \in Workers : IsInjective(freeNodes[w])

(* Every timer that may fire has its event in the table, where timerProc    *)
(* looks for it, and the table of indices names no timer without one.       *)
TablesAgree == armed \subseteq timerEvents /\ Range(timerIds) \subseteq timerEvents

(* The tables of the main thread, the nodes of the workers and the events    *)
(* under way agree.                                                          *)
TimersSound == TypeOK /\ FindsItsTimeout /\ ResolvedOnce /\ TablesAgree

(* cancel() stops a timeout whose index no earlier timeout, of any worker,  *)
(* has had.                                                                 *)
CancelStopsFirst ==
    \A t \in Ids :
        (/\ timeouts[t].canceled
         /\ \A u \in 1 .. t - 1 : timeouts[u].index # timeouts[t].index) => t \notin armed

(* The main thread never starts a timer for a worker that has ended: what a *)
(* worker leaves behind are only the timers that ran when it ended.  Each   *)
(* event it made before is still in the queue of the main thread then, and  *)
(* is dropped there, although its worker is gone.                           *)
ArmsForTheLiving ==
    [][\A t \in armed' \ armed : timeouts[t].owner \notin ended']_vars

(* A timeout is resolved unless a queue refused one of its events, there    *)
(* was no time left or no timer to be had when the main thread saw it, a    *)
(* timer was killed for its index, its worker has ended, a timer of another *)
(* worker that has ended took the program down, or what has to go on with   *)
(* it does not: its worker sleeps over a notification it missed, or the     *)
(* main thread waits for a worker.                                          *)
Unresolved(t) == t \in Ids /\ timeouts[t].resolved = 0
GivenUp(t) == /\ t \in Ids
              /\ \/ timeouts[t].fate \in {"refused", "late", "untimed", "lost", "killed"}
                 \/ timeouts[t].owner \in ended
Stuck(t) == waits \/ (t \in Ids /\ timeouts[t].owner \in asleep)
ResolvesOrGivenUp ==
    \A t \in 1 .. MaxTimeouts :
        Unresolved(t) ~> (~ Unresolved(t) \/ GivenUp(t) \/ crashed \/ []Stuck(t))
=============================================================================
