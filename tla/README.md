# A verification of native-js

native-js runs JavaScript applications on Windows: every *worker* is a thread
with its own V8 isolate and event queue, and the *main thread* owns the
operating system's message loop, the windows and the timers.  This directory
holds TLA+ models of that runtime, the TLC configurations that check them on
small instances and TLAPS proofs of what matters most for every size.

Everything here is translated from the C++ sources (`src/`, `include/`).  The
TypeScript declarations in `types/` and the application in `test/` are read for
what they promise to a user.

## Inventory

| Part | State it keeps | Operations | Talks to |
| --- | --- | --- | --- |
| `LockFree::Queue` (`include/lockfree/Queue.hpp`) | two ticket counters, a ring of cells with two tickets each | `push`, `pop`, `size`, by any number of threads | - |
| `EventQueue` (`src/EventQueue.cpp`) | a `LockFree::Queue`, a mutex, a condition variable | `postEvent` (any thread), `popEvent` with and without timeout, `tryPopEvent` (owner) | `LockFree::Queue` |
| `PersistentList`, `EventAllocator` | nodes, free list, size | `alloc`, `free` by index or pointer, `clear`, `forEach` | - |
| `Worker` (`src/Worker.cpp`) | thread, `eventQueue_`, `events_`, `isTerminated_`, `parentWorker_` | constructor, `entry` (the loop), `terminate`, `doBlockingWork`, `postEvent` | main thread, other workers |
| `JS::Env` (`src/js/Env.cpp`) | `jsWorkers_`, `timeouts_`, module tables | `addJsWorker`, `sendMessageToWorker`, `addTimeout`, the module loader, `~Env` | `Worker`, `App` |
| `App` (`src/App.cpp`) | `workers_`, `mainWorker_`, two queues, `events_`, the timer tables | `run`, `createWorker`, `destroyWorker`, `emitEvent`, `getAsyncWork`, `timerProc`, `~App` | everything |
| `AsyncWorker` (`src/AsyncWorker.cpp`) | thread, `isRunning_` | `entry`, `terminate` | `App::getAsyncWork` |
| `Event` (`src/Event.cpp`) | status, promise resolver, `finishCount_` | `cancel`, `trySetStatus`, `process` | - |
| `Window`, `WindowManager` | window list and map, JavaScript object per worker | `create`, `destroy`, `registerJsObject`, `getJsObject` | main thread, workers |
| `Timeout` (`src/js/Timeout.cpp`) | index, loop flag | constructor, `cancel`, `resolve` | `Env::addTimeout`, main thread |
| `Logger` (`src/Logger.cpp`) | queue of messages, log thread | `log`, `terminate` | every thread |
| Module loader (in `JS::Env`) | `modules_`, `jsonModules_` | `loadEntryModule`, `importModule`, `loadModule`, `loadJsonModule` | V8, the files of the application |
| `LockFree::Stack` (`include/lockfree/Stack.hpp`) | two tagged head words, the links of the nodes | `push`, `pop` | unused |
| JavaScript wrappers, configuration | - | argument checks, conversions | V8 |

How the parts interact.  A script asks for something that only the main thread
may do (create or destroy a worker, create a window, arm a timer) by posting an
event it owns to the main thread's queue.  An *asynchronous* event comes back
to the worker's queue when the work is done, where its promise is resolved; for
a *blocking* one the worker waits on a condition variable.  A *message* goes to
the queue of the receiving worker and comes back to the sender as a receipt.  A
*native* event is sent to every worker and comes back to the main thread from
the last one.  A worker is told to end by a *terminate* event, and whoever sent
it joins the thread; before the thread ends it does the same to its children.

What is hard about it: lock-free code with relaxed accesses; condition
variables notified without their mutex; three kinds of threads that wait for
each other; pointers to workers that are really pointers to reusable slots;
events that outlive their owner; queues of bounded length whose refusals are
ignored; state of one thread read by another without a lock.  `PROJECT.json`
lists these hazards, each at its line, with the properties that are about it.

## Modules

| Module | Models | State and actions |
| --- | --- | --- |
| `BoundedFifo` | what a concurrent queue promises | the elements inside, and what each thread has taken |
| `LockFreeQueue` | `LockFree::Queue` | one action per atomic access of `push`, `pop` and `size`; `cellTail`, `cellHead`, `cellData` are the fields of `Node`, `ticket` the local variable of the call |
| `LockFreeQueue_proof` | | its theorems, the refinement of `BoundedFifo` among them |
| `HandlePool` | what a pool of handles promises | the live handles |
| `PersistentList` | `PersistentList`, `EventAllocator` | one action per method, one more for each branch of `alloc`; the specification is `ListSpec`, so that `Pools_proof` can extend this module and `LockFreeStack` |
| `EventQueue` | `EventQueue`, `App::postEvent` for the main thread, the wait and the turn of `App::run` | producers read the number of the next place, claim it or fail, publish, then notify the condition variable or post a message; a worker pops, tests `size()`, waits; the main thread tests its queue, looks for messages, sleeps, takes one message (whose dispatch may enter a modal loop) and one event |
| `Runtime` | `Worker`, `Env`'s workers, `App`'s loop and destructor | see below |
| `Runtime_proof` | | its theorems |
| `NativeEvents` | `App::emitEvent`, `NativeEvent::process`, `windowProc`, `WindowManager`, `WindowClass::onCreate`, `EventClass::cancel` | the queues of events, who still has to count one, what became of it; scripts make windows in either way, the user closes them, workers handle, count and cancel, the main thread makes windows, acts or drops |
| `NativeEvents_proof` | | its theorems |
| `Timers` | `Timeout`, `Env::addTimeout` and its neighbours, the timer tables of `App`, `timerProc` | the nodes of `Env::timeouts_`, the two tables, the operating system's timers; scripts create and cancel, the main thread arms and disarms, timers fire, workers resolve and end |
| `Timers_proof` | | its theorems |
| `AsyncPool` | `AsyncWorker`, `App::getAsyncWork`, the constructors that start a thread and wait for it, `Worker::doBlockingWork`, the part of `~App` that ends the pool | where each thread is between two accesses to shared state, the pool's queue, the flags and marks it waits for |
| `AsyncPool_proof` | | its theorems |
| `ModuleLoader` | `Env::loadEntryModule`, `importModule`, `loadModule`, `loadJsonModule`, with V8's recursion | the call stack, the modules compiled so far, `modules_`, what has run |
| `ModuleLoader_proof` | | its theorems |
| `Logger` | `Logger::forward`, the log thread, `Logger::terminate` | the queue, the file, where the log thread and the caller of `terminate` are; the specification is `LogSpec`, so that `Consumers_proof` can extend this module and `EventQueue` |
| `Consumers_proof` | | the theorems of `EventQueue` and of `Logger` |
| `LockFreeStack` | `LockFree::Stack` | one action per atomic access of `push` and `pop`; `word` and `next` are the local variables of the call |
| `BoundedLifo` | what that stack promises | the elements inside, and what each thread has taken |
| `Pools_proof` | | the theorems of `LockFreeStack` and of `PersistentList`, both refinements among them |

The modules form layers.  `LockFreeQueue` shows that the ring is a FIFO whose
push becomes visible when it is published; `EventQueue` builds on that grain
and adds the waiting.  What these two show of a queue is a choice of each call in
the modules above them:

- A push is refused when the queue is full, and also when it is not: when another
  thread took the place that the push had loaded and the queue's owner has emptied
  that place since (`Queue.hpp:57-58`).  That takes three threads, the pusher, the
  other and the owner, and the guards of `Overtaken` and `Refused` ask for no more.
- A worker may miss the notification of an event (`EventQueue.cpp:22/41`) and then
  sleeps until something else wakes it; `Worker::entry` has no timeout (`deaf` in
  `Runtime`, `asleep` in `NativeEvents` and `Timers`).  The main thread misses
  none (`MainAwake`).
- The main thread may wait for a worker, to start or to end, for ever.  `Runtime`
  has the join step by step and says when it hangs; in `NativeEvents` and `Timers`
  it begins to wait (`Wait`), and the worker may or may not end; in `AsyncPool` the
  join and the end of the worker are two steps, and the second needs the worker to
  be in its loop.

`PersistentList` shows that a free slot goes to one owner only
and which slot is next; `Runtime` uses that for `App::workers_` and `Timers` for
`Env::timeouts_`.  `NativeEvents` and `Timers` look at the same threads as
`Runtime` for another kind of event; what `Runtime` establishes, that a worker
ends only while the main thread is inside a join, lets `NativeEvents` end a
worker and those below it in one step of that join, and `Timers` a worker.  `AsyncPool` looks into the two places where `Runtime` only says that a
constructor returns and that a blocked worker is answered.  `ModuleLoader` is
what a worker's thread does before its loop, and concerns no other thread.

`Runtime` has an action for each thing a script does (`ScriptCreate`,
`ScriptTerminate`, `ScriptSend`), for each event a worker's loop pops
(`PopTerminate`, `PopAnswer`, `PopMessage`, `PopReceipt`), for each step of
`~Env` (`CloseChild`, `JoinChild`, `CloseDone`) and for each step of the main
thread (`MainPop`, the work, the join inside it, the answer, and quitting).
Blocking calls are two actions: what happens before the wait, and the wake-up.
A slot of `workers_` may hold several workers one after the other; the model
gives each an ordinal (`life`) that the code does not have, so that properties
can tell them apart.

Definitions whose names end in a suffix after an underscore, such as
`PopRelease_NextTicket`, are faulty variants of the definition that follows them.
They are not part of any specification; each shows that some property would
notice that fault.

## Runs

| Run | Instance | Shows |
| --- | --- | --- |
| `queue` | 3 threads, 2 values, 2 cells, 4 tickets | cells are exclusive (`CellExclusive`), a push or a pop fails for one of its named reasons only, and `size()` never reports too few (`ReportsJustified`), the ring implements `BoundedFifo` |
| `stack` | 3 threads, 2 values, 2 nodes, tags up to 2 at the start of a push | a node is in one place and no stale link is installed (`LinksSound`), the stack implements `BoundedLifo` |
| `list` | 4 nodes | the free list is exact and `size()` counts the live nodes (`ListSound`), the list implements `HandlePool` |
| `events` | 2 producers, 2 posts each, 2 places; a worker with or without a timeout, or the main thread with 1 message of the system and room for 2 posted ones | order per producer, when `onTick` may run, the main thread sleeps on no event (`MainAwake`), an accepted event is handled, or the lost-notification window was hit, or the user keeps the main thread in a modal loop |
| `runtime` | 3 slots, queues of 2, 5 calls, 1 collected handle | slots, queues and threads agree (`SlotsSound`), for whom the main thread works, who joins whom, whom an answer reaches, in which order workers end (`EndsInOrder`) |
| `runtime_live` | 4 calls, no collected handle | termination is answered and quitting ends, or the main thread hangs for ever in one of the four ways of `Hangs` |
| `runtime_settles` | 4 calls, no push overtaken and no notification missed | **violation**: `terminate()` never settles |
| `native` | 3 workers, 1 window closed once, queues of 2, one worker (`Astray`) that misses notifications and whose pushes are overtaken | no worker looks up a window that is gone, the worker that asked for a window hears of it before it is closed, an event is back when all have counted (`CountsSound`), a veto holds, an event that all its receivers can process settles, but for the exceptions of `EventSettles` |
| `timers` | 2 workers, one of which may end, 2 timeouts, 2 cancels, queues of 2 | an event resolves its own timeout and once, and the tables agree (`TimersSound`), `cancel()` works for an index nobody has used, nothing is armed for a worker that has ended, a timeout is resolved, but for the exceptions of `ResolvesOrGivenUp` |
| `async` | 2 threads of the pool, 1 worker that asks twice, queues of 1 | a constructor returns with its thread running (`StartsSound`), work is done once, on an event that exists, before its worker is told (`WorkIsSound`); a constructor, a blocked worker and `~App` go on, but for the exceptions of `StartReturns`, `BlockedGoesOn` and `PoolEnds` |
| `modules` | 3 scripts, a JSON file, a missing file, `native-js`; 2 disks; a script that does not compile; a stack of 4 | which programs run, in what order and how often their files do, that those which can run are loaded without a module made in vain |
| `logger` | 2 threads that log twice | the file is what was logged in order, what `terminate()` leaves is written, and the log thread and `terminate()` go on, but for the window in which the log thread is deaf |

A property that joins several is a conjunction of named parts; the modules
comment each part.

Why the bounds are enough.  The behaviour of the ring depends on a ticket only
modulo the capacity and on its lap; four tickets through two cells make each
cell be reused, and three threads let one be stalled in each half of a call
while a third goes round; the proofs hold for every capacity and number of
threads.  Two producers and a full queue of two make every interleaving of
load, claim, publish, notify, test and wait happen, and two posts each exceed the
capacity and let one thread be overtaken by the other.  One message for a window opens a modal loop once, which can throw
away every message posted until then and after it; room for two posted messages
lets the third be refused by the system.  Three slots are the main worker, a child, and either a sibling or a
grandchild; five calls are enough to create two workers, terminate one, create a
third in its slot and still send or terminate something; one collected handle
makes one worker outlive its parent.  The proofs about `Runtime` have none of
these bounds.  Three workers let one end along with its
parent while an event is under way, and one of them that misses notifications and
whose pushes are overtaken is a worker or the parent of one, and one window closed once goes through
`WM_CLOSE`, `WM_DESTROY` and `WM_QUIT`.  Two timeouts of two workers collide in
the table of indices, and two of one worker reuse a node.  Two threads of the
pool and a queue of one place make threads race for an event, miss each other's
notifications and find the queue full, or its place not released yet (that another
worker overtakes a push takes a second worker; the proofs have any number); the second call of the worker meets
whatever the first has left behind.  The programs of `modules` are every
import graph over three scripts, two with up to two imports and one with one: chains,
diamonds, cycles, self-imports, both spellings of a path, a file hidden by one
without suffix; a stack of four is what the deepest
tree without a cycle needs, and every cycle meets it.  Two messages of each of two threads are enough for one to be
pushed at every place of the log thread's loop, with `terminate()` before and
after it.  In the stack a thread that is stalled between its read and its
exchange sees the two nodes leave, swap their order and come back; the tags are
not compared with anything but equality.

`CHECK_DEADLOCK FALSE` is set where the system may stop: all posts are made and
the worker sleeps, nobody asks for anything more, or the application has ended.

Fairness.  A thread that can take a step eventually does (weak fairness of each
thread's own step), which is what an operating system's scheduler gives; a
timed wait ends; an armed timer fires; the main thread takes its messages.  A
worker that has missed a notification has no step to take: nothing makes a
spurious wakeup happen, and no fairness assumes one.  In `NativeEvents` and
`Timers` such a worker may wake up and fall asleep over the next event again and
again, and each time it looks at its queue in between; strong fairness of its
loop says that an event it finds there infinitely often it takes at last.  Nothing
is assumed of the end of a worker that the main thread joins, or of the answer to
a worker in `AsyncPool`, whose notification may be missed.  The
user need not let go of a window: a modal loop may go on for ever, and
`HandledOrAsleep` excepts that case.  In `AsyncPool` and `Logger` the threads are those
of the pool, the log thread, and whoever is inside `terminate()`; in
`ModuleLoader` there is only one.  No script has to make a call, no user
has to close a window and nobody has to quit.

### Defects

`runtime_settles` is the run that expects a violation: the main thread joins a
worker that waits for the main thread in `new Worker(...)`, and the promise of
`terminate()` never settles.

The other defects are exceptions that a property makes.  On the checked
instance such a property holds with the exceptions it names; it says nothing of
what the models leave out (see below).

- `ReportsJustified`: a push may fail in a queue that is nowhere near full, and a
  pop in one that is nowhere near empty, when the ticket it had loaded went out of
  date during the call.  No caller tries again.
- `HandledOrAsleep`: `EventQueue::postEvent` notifies without the mutex, so a
  notification between the test of `size()` and the wait is lost.  With a tick
  timeout the worker recovers; `Worker::entry` uses the variant without.
- `NothingElseHangs`: the main thread hangs for ever in one of four ways.  It joins
  a worker that waits for it in `new Worker(...)`; one that was never told to end,
  because its queue refused the terminate event and nobody looked; one that sleeps
  over a notification it missed, of that event or of the answer it waits for; or it
  waits in the constructor of a worker whose announcement it missed.  A join of a
  worker that has to join such a worker first is the same hang further down.
- `EventSettles`: the receivers of a native event are counted by
  `workers_.size()`, which includes workers that have ended with their parent;
  the count never becomes full, and the application cannot quit any more.  The
  exceptions are an event with such a receiver, or whose next queue refused it; one
  in the hands of a worker that sleeps over a missed notification for ever; and a
  main thread that waits for a worker for ever.
- `MakerIsAsked`, `EventSettles`: an event of `Window.create()`, or its answer,
  that a queue refuses is forgotten, and the promise never settles.
- `CancelStopsFirst`: a one-shot timer that has fired leaves its entry in
  `timeoutIDsToPtrs_`, `emplace` does not replace it, and the `cancel()` of the
  next timeout with that index kills the old timer.
- `ResolvesOrGivenUp`: a timeout whose time has passed when the main thread pops
  its event, or for which `SetTimer` fails, is neither armed nor resolved; an event
  that a queue refuses is lost; the timers of a worker that has ended go on, and
  `timerProc` follows a pointer to the stack of its thread.  Besides, the worker
  may sleep for ever over the notification of the event, and the main thread,
  which alone runs `timerProc`, may wait for a worker for ever.
- `SingleJoiner` holds for a worker and the main thread only as long as no
  handle is collected: otherwise a worker can outlive its parent, ask for a child
  and get it in the slot of that parent, so that each of the two is the other's
  parent and joins it.
- `ReadyWhenStarted` (in `StartsSound`), `StartReturns`: the constructors of `Worker` and
  `AsyncWorker` start their thread from a member that is declared before others
  they still have to initialise, and wait for a notification made without the
  mutex.
- `BlockedGoesOn`, `PoolWorks`, `PoolEnds`: the answer to a blocking call, the
  work for the pool and the end of the pool are notified without the mutex of
  the wait; a thread of the pool whose second pop fails ends for good; and a
  worker whose work waits in the main thread's queue does not go on while the main
  thread joins a worker for ever, which may be that very worker.
- `HeldIsLive` (in `WorkIsSound`): a thread of the pool may hold an event that
  the end of its worker has deleted.  The property excepts the events of ended
  workers, so it does not exclude this; nothing here does.
- `RunsIfTree`: a JSON file that two modules import by the same path fails the
  second, and everything above it; `RunsInOrder`: a script that is imported
  twice runs twice.
- `GoodProgramsLoad` is about programs that can run.  Of the others, a cycle of
  imports is loaded until V8's stack is full, and each level prepares again what
  failed below it: the work doubles with every frame, and every attempt leaves a
  `Persistent<Module>` behind (`Env.cpp:266`).  On V8's real stack such a program
  exhausts time or memory before it returns.  The model has the recursion; with
  four frames it ends, which says nothing of a real stack, and no property claims
  that loading returns.
- `FlushedAtExit`, `Logged`, `TerminateReturns`: the log thread waits without a
  predicate.

The receipt of a message goes to whatever worker has the slot of the sender by
then.  `Runtime` has the step, and no property that holds excludes it.

## Proofs

`LockFreeQueue_proof` proves, for any set of threads, any power-of-two capacity
and any number of tickets, that `TypeOK`, `CellExclusive`,
`PushFailureJustified`, `PopFailureJustified` and `SizeNeverShort` (together
`ReportsJustified`) are invariants.  A refusal has one of three reasons: the ring is
full (empty), the cell is not released (not published) yet, or the call's ticket is
out of date: others have pushed and popped it during the call, or popped it and
pushed a whole lap behind it.  That another thread merely took the ticket is not
enough, although nothing says that the ring was full, or empty, at any moment of
such a call.  None of them is inductive.  The strengthening says for each ticket
which of the threads, if any, works on it and, for each cell, which ticket it
is open for: the ticket's holder is unique, `cellTail` is the next ticket of
the cell or a lap ahead, and `cellHead` equals the ticket exactly from its
publication on.

The second half of the module proves, under the same assumptions, that the ring
implements `BoundedFifo`.  `Holds` says what a ticket that is claimed and not
popped stands for: the element in its cell once it is published, before that
the argument of the push that owns it.  `OwnCell` is the heart of the argument:
the cell a push writes to belongs to no other ticket of the window and to no
pop, so no step changes what a ticket stands for (`ValueKept`).  A push then
appends an element at its compare-and-swap, a pop takes the head away at its
own, and a pop's release delivers; all other steps stutter.

The first part of `Pools_proof` proves `LinksSound` of `LockFreeStack` for any set
of threads, any number of nodes and any number of calls, and that the stack
implements `BoundedLifo`.  The inductive invariant says that there are two
sequences of nodes, `f` and `p`, and a tag for each node (`Sound`) such that

- the head word of either list and the link of each node of it name the next
  node with that node's tag (`Listed`); each node is in one of the two or in the
  hand of one thread, whose word for it has the tag too (`Placed`);
- a thread that has read a head knows a tag that is not above the node's, and
  while it is equal the node has not moved (`PushReads`, `PopReads`).  The tag
  of a node grows when the node above it is taken away and when it is popped, and
  this is enough for a head that still is the word a thread has read to have the
  successor the thread has read (`NoStaleNext`), however long ago that was.

The lists are existential, so the prover needs no induction along the links: a
step names the lists it leaves (`ListTaken`, `ListPut`, `ListStays`).  That there is
only one list for a head, which the refinement needs because its abstract stack is
*the* list of pushed nodes, follows from the least place in which two would
differ (`OneList`).  A push then puts its element on top at its second
compare-and-swap, a pop takes the top away at its first and delivers it at its
second; all other steps stutter, the failed exchanges included.

The second part proves of `PersistentList`, for any set of objects and any number
of nodes, that the indices are contiguous, that the free list is exact, that
`size` is the number of live nodes (`ListSound` in all), and that the list
implements `HandlePool`.

The first part of `Consumers_proof` proves `TypeOK`, `MainAwake` and `TickOnlyWhilePublishing` of
`EventQueue` for any set of producers, any capacity and any number of events and
messages.  The inductive invariant says whose each unpublished place is
(`Unpublished`), that only the consumer makes the queue shorter (`StillThere`),
and what the main thread knows between its test of the queue and its sleep
(`Unseen`): whatever has been claimed since then belongs to a call that has yet
to post its message, or there is a message it has not taken.  The order in which
it looks, first at the queue and then at the messages, is what makes it hold.
`PerProducerOrder`, the fourth theorem, is nearly inductive: what the owner has
handled, followed by what the ring holds, is what has been posted and not refused,
each producer's in order.  It needs in addition only that a post which was
refused had begun (`RefusedBegan`), so that a claim is later than both.

`Runtime_proof` proves the ten invariants of `Runtime`, which the run checks as
`SlotsSound`, `EndsInOrder` and three more, for every set of slots
(an infinite one too), every length of the queues and any number of calls and
of collected handles.  None but `TypeOK` follows from its own induction; the
inductive invariant `IInv` has these parts:

- `Chain`: the workers that are closing form a sequence without repetition; the
  first is the one the main thread joins, each joins the next, and a worker
  that has been told to end and is still in its loop (there is at most one) is
  the one the last of the chain joins.  So nobody closes while the main thread
  is not inside a join (`ClosesOnlyInsideJoin`), which is the reason why
  `App::run` may test an event's status and work on it later without a lock:
  `Working` and `WorksForLiveOwner` follow, and from them that the life in an
  answer is still the life of the slot it goes to (`AnswerReachesAsker`).
- `Slotted`: a terminated worker has ended, and the slot that is being joined is
  not on the free list; this gives `FreedAreDone`.
- `Family`: `ChildrenEndFirst`, and only the first worker has no parent; this
  gives `NoDetachedLeft`, and with the chain `DisposedWhenAllEnded`.
- `Asking`: a worker has at most one request for a new worker, in the queue, in
  the main thread's hands or as a result, and waits for it.
- `JoinsChild` and `Forest`: a worker joins only its own children, and while no
  handle is collected the living workers can be ranked so that each is above
  its parent, and the ones that close are not below the one the main thread
  joins.  A cycle of joins would need a worker ranked above itself, so
  `SingleJoiner` holds.  The rank is an existential inside the invariant: the
  prover needs no induction along the chain.

The second part of `Consumers_proof` proves `LogTypeOK`, `InOrder` and `FlushedAtExit` of `Logger` for every
set of threads and any number of messages.  `InOrder` needs only that the queue
is not empty when the log thread writes or pops.  `FlushedAtExit` needs to know
what is in the file at every place of the loop: all but the late messages from
the last test of the queue on (`Caught`), and all that was pushed before
`terminate()` once the thread has ended (`Left`).

`NativeEvents_proof` proves the four invariants of `NativeEvents` for any sets of
workers and windows, any length of the queues and any number of closings.  The
parts of `IInv` that carry the argument:

- `Counts`: the workers an event was sent to have counted it, have it in hand,
  or will never hear of it, and the three numbers add up to `sendCount_`.  An event
  somebody holds is therefore still out, and one that has come back is held by
  nobody (`BackWhenAllCounted`).  That a worker counts an event when it drains its
  queue at its end is what keeps the sum.
- `DestroyLast`: a worker that hears of the destruction of a window hears of it
  last.  With `Counts`, when `WM_DESTROY` has come back, no queue of a living worker
  speaks of the window, so the window manager may erase it (`AllKnown`, from which
  `WindowStillKnown`).
- `Creates` and `AskedFirst`: a window that a script asked for has one event, which
  is in one place, and its answer is in the queue of the worker before any event
  that closes the window (`MakerIsAsked`).
- `Vetoes`: an event that a listener has vetoed, by `cancel()` inside its callback,
  stays canceled, and the main thread tests that before it acts (`VetoHolds`).  A
  `cancel()` that comes later may be too late, and nothing is claimed of it.

`Timers_proof` proves `TimersSound`, `CancelStopsFirst` and `ArmsForTheLiving` for any
set of workers, any length of the queues and any number of timeouts and
`cancel()`s.  A node of `Env::timeouts_` belongs to one unresolved timeout and is not
on the free list (`NodesKept`); a timeout that does not repeat is on its way to
the main thread, armed or on its way back, and once (`EventsOnce`): together they
give `FindsItsTimeout` and `ResolvedOnce`.  `CancelStopsFirst` needs the order of
the main thread's queue (`SentInOrder`: the requests come in the order of creation,
and the cancellation of a timeout after its request) and that the entry of an
index is that of the first timeout that had it for as long as that one's timer may fire
(`TablesSound`).

`AsyncPool_proof` proves `StartsSound` and `WorkIsSound` for any number of threads of
the pool and of workers, any capacity of the queues and any amount of work.  The
first is about a thread from the return of its constructor to its end, which sets
`isRunning_` to false again.  It needs what each side of a start knows of the other (`InConstructor`,
`FlagsAgree`): a constructor goes on only after its thread's announcement, and
what it initialises after that (`raced`) is the one exception.  The second needs that
an event is in one queue or in one pair of hands (`OnePlace`), that what waits has
not been done (`WaitingIsNew`), and what a thread knows of the event it holds at
each place of its loop (`HeldSound`); numbers tell a new event of a worker from
its earlier ones (`Numbered`).

`ModuleLoader_proof` proves `TypeOK`, `RunsIfTree` and `RunsInOrder` for any set of
programs, whose files import any number of others (themselves too), and any limit
of the stack.  The properties compare the state with the tree of imports, so the
module has two halves.

- The tree.  `Found` and `Walk` are recursive functions of the depth that is left.
  That they have the values their definitions say (`FoundIs`, `WalkIs`) follows from
  the well-founded order on that depth.  The rest uses them only through what one import adds:
  `Begun` is the walk of the first imports of a file, and the sets `NativeAt`,
  `MissingAt`, `JsonAt`, `LeadsTo` and `FitAt` say what kind an import is of.
- The steps.  `Base` says how the frames and the modules fit together: modules are
  numbered in the order in which V8 begins them (`Order`), which statuses are
  possible below and above a frame (`Statuses`), what an import that has been
  answered is (`Answers`), and that a frame is there for an import of the frame
  below it (`Links`).  Then there are two cases.  In `Going` nothing has failed:
  what has run is the beginning of the walk, up to where every frame has come
  (`Track`), `modules_` has the JSON files of it and no others (`Log`), and the imports
  that were answered have been found, on what the stack has left (`Fit`).  In
  `Doomed` the program is not a good one: there are a set of depths and files where
  loading fails and a set of frames that will fail, the entry module's among them.
  Each mark has a reason that is one step away: an import to come, one that was
  answered with a module that V8 has given up, or the frame above (`Bad`, `Stuck`).
  V8's second attempt to prepare such a module is made at a depth and with a file
  that are marked, so it fails too.

The theorems rest on the assumptions the modules name (a positive capacity;
sentinels that are not values; bounds that are numbers; programs whose imports
are names) and on nothing else.

The types of the queue, the event queue and the logger are proved for every
instance and not checked again by a run.

Only model-checked: liveness, which is out of the prover's reach, and what the run
that expects a violation shows.  Every invariant, action property and refinement
that a passing run checks is the statement of a theorem.

## Plan

The order is by how much the rest of the system depends on a part.  Done: the
queue, the list and the stack; the event queue with
the sleep of workers and of the main thread; the workers; native events and
windows; timers, also of workers that end; the pool and the start of threads;
the module loader; the logger.

Proofs: every invariant and every action property that a run checks is proved,
and both lock-free structures and the list are proved to implement their abstract
specifications.  Left: the safety half of the liveness that the runs check, as
invariants: that what a waiting thread waits for is in some queue or in somebody's
hands.

## Not modelled

- The start of the first worker, whose constructor `App::run` waits in like any
  other (`AsyncPool` has it): `Runtime`, `NativeEvents` and `Timers` begin after it.
  `onTick`, which runs when `popEvent` fails: `EventQueue` says when that is.
- The time and the memory that a program with a cycle of imports takes.
- Memory orders weaker than sequential consistency: the program is built for
  x64, and a relaxed access there is an ordinary one, but the compiler may still
  reorder.
- Data races inside the standard library: `Window::getJsObject` and
  `WindowManager::getWindow` read a hash map that another thread changes, and the
  log thread reads a `std::deque` while others push.  At the grain of whole calls,
  which is that of the models, these are harmless.
- Reads of freed memory after the step that frees it: `AsyncWorker::entry` and
  `App::run` read a blocking event after they have set its `done_`; `AsyncPool`
  follows the program up to that store.  After a constructor has overwritten
  what its thread had set (`raced`), that thread's state is not followed further.
- Mouse moves, which are native events that only take up room in the queues;
  `Window.show()`, whose pointer may name the node of another window by the time
  the main thread uses it; `reset()` of a timeout, which the main thread ignores.
- `LockFree::Stack`'s destructor, which releases an array with `delete`, and its
  `size()`, which returns 0.
- The pool is modelled for the calls that its interface offers; in `src/` every
  call asks for the main thread.
- JavaScript that throws, malformed JSON (the loader aborts), names that a module
  does not export, collisions of the identity hashes that JSON modules are found
  by.  The limit of V8's stack is a number of frames.
- The lines of a message: a message is several calls of `Logger::forward`, and
  nothing keeps those of two threads apart.
- Messages that other threads send rather than post to a window of the main
  thread, and messages that the system makes up when they are asked for: none of
  them wakes or delays `App::run` in another way than the modelled ones.
- The insides of V8 and of the operating system.  Argument checks and conversions
  of the JavaScript wrappers, the reading of `app.json`, the console: they have no
  protocol of their own.  The dependencies in `src/dependencies`, which are most of
  the repository's lines, are headers of Vulkan and V8.
