------------------------------ MODULE EventQueue ------------------------------
(***************************************************************************)
(* EventQueue (src/EventQueue.cpp): the lock-free queue of a worker with   *)
(* the mutex and the condition variable its thread sleeps on, or of the    *)
(* main thread, which sleeps on the messages of the operating system       *)
(* (App::run).  Any thread posts; only the owner's thread pops.            *)
(*                                                                         *)
(* LockFree::Queue is used at the grain at which EventQueue can see it     *)
(* (LockFreeQueue shows that it is a FIFO): a push reads the number of the *)
(* next place, claims the place or fails, and later publishes it; a pop,   *)
(* which only the owner makes, fails while the oldest place is unpublished. *)
(* Posting never takes the mutex, so the mutex orders nothing here.        *)
(*                                                                         *)
(* The message queue of a thread is the system's: PeekMessage takes posted *)
(* messages before input, MsgWaitForMultipleObjects returns for a message  *)
(* that arrived since the last PeekMessage and not for an older one, and a *)
(* modal loop (the user moves or resizes a window) throws away messages    *)
(* that were posted to the thread.                                         *)
(***************************************************************************)
EXTENDS Naturals, Sequences, SequencesExt

CONSTANTS Producers,   \* the threads that post
          Capacity,    \* MAX_QUEUE_SIZE
          MaxPosts,    \* bound: how many events each producer posts
          MaxNotes,    \* how many posted messages the system keeps
          MaxInputs    \* bound: messages of the system for a window

ASSUME BoundsAssumption == /\ Capacity \in Nat \ {0} /\ MaxPosts \in Nat
                           /\ MaxNotes \in Nat \ {0} /\ MaxInputs \in Nat

VARIABLES queue,       \* the claimed places, oldest first: [from, nr, ready]
          posted,      \* posted[p]: how many pushes of p have claimed a place or failed
          refused,     \* the posts that returned false, as <<p, n>>
          ppc,         \* where each producer is
          ticket,      \* the number of the place that its push is to take
          cpc,         \* where the consumer is
          handled,     \* the events handed to the consumer's loop, in order
          missed,      \* ghost: the last notification came too early to be seen
          owner,       \* who consumes: a worker with or without a tick timeout,
                       \* or the main thread
          notes,       \* the WM_USER messages in the main thread's queue
          inputs,      \* its other messages
          fresh,       \* has a message arrived since the last PeekMessage?
          arrived      \* how many messages the system has sent

messageVars == <<notes, inputs, fresh, arrived>>
vars == <<queue, posted, refused, ppc, ticket, cpc, handled, missed, owner, messageVars>>

Events == Producers \X (1 .. MaxPosts)

Init == /\ queue = <<>>
        /\ posted = [p \in Producers |-> 0]
        /\ refused = {}
        /\ ppc = [p \in Producers |-> "idle"]
        /\ ticket = [p \in Producers |-> 0]
        /\ handled = <<>>
        /\ missed = FALSE
        /\ owner \in {"ticking", "waiting", "main"}
        /\ cpc = IF owner = "main" THEN "testEmpty" ELSE "pop"
        /\ notes = 0 /\ inputs = 0 /\ fresh = FALSE /\ arrived = 0

Ready == queue # <<>> /\ Head(queue).ready
-----------------------------------------------------------------------------
(* EventQueue::postEvent, for a worker, and App::postEvent, for the main     *)
(* thread                                                                    *)

(* The number of the next place: those before it have been claimed. *)
NextPlace == Len(handled) + Len(queue)

Load(p) ==
    /\ ppc[p] = "idle"
    /\ posted[p] < MaxPosts
    /\ ticket' = [ticket EXCEPT ![p] = NextPlace]
    /\ ppc' = [ppc EXCEPT ![p] = "push"]
    /\ UNCHANGED <<queue, posted, refused, cpc, handled, missed, owner, messageVars>>

(* Another push has taken the place: the next one is tried. *)
Reload(p) ==
    /\ ppc[p] = "push"
    /\ ticket[p] # NextPlace
    /\ ticket' = [ticket EXCEPT ![p] = NextPlace]
    /\ UNCHANGED <<queue, posted, refused, ppc, cpc, handled, missed, owner, messageVars>>

Claim(p) ==
    /\ ppc[p] = "push"
    /\ ticket[p] = NextPlace /\ Len(queue) < Capacity
    /\ posted' = [posted EXCEPT ![p] = @ + 1]
    /\ queue' = Append(queue, [from |-> p, nr |-> posted'[p], ready |-> FALSE])
    /\ ticket' = [ticket EXCEPT ![p] = 0]
    /\ ppc' = [ppc EXCEPT ![p] = "publish"]
    /\ UNCHANGED <<refused, cpc, handled, missed, owner, messageVars>>

(* The push fails: the queue is full, or its place has been taken by another *)
(* thread and emptied since it was read, however empty the queue is.         *)
Fails(p) == \/ ticket[p] = NextPlace /\ Len(queue) = Capacity
            \/ ticket[p] < Len(handled)

(* Fault: the failed push is reported as a success. *)
Refuse_ReportsSuccess(p) ==
    /\ ppc[p] = "push" /\ Fails(p)
    /\ posted' = [posted EXCEPT ![p] = @ + 1]
    /\ ticket' = [ticket EXCEPT ![p] = 0]
    /\ ppc' = [ppc EXCEPT ![p] = "idle"]
    /\ UNCHANGED <<queue, refused, cpc, handled, missed, owner, messageVars>>

Refuse(p) ==
    /\ ppc[p] = "push" /\ Fails(p)
    /\ posted' = [posted EXCEPT ![p] = @ + 1]
    /\ refused' = refused \cup {<<p, posted'[p]>>}
    /\ ticket' = [ticket EXCEPT ![p] = 0]
    /\ ppc' = [ppc EXCEPT ![p] = "idle"]
    /\ UNCHANGED <<queue, cpc, handled, missed, owner, messageVars>>

Published(p) == [i \in DOMAIN queue |->
                    IF queue[i].from = p /\ queue[i].nr = posted[p]
                    THEN [queue[i] EXCEPT !.ready = TRUE] ELSE queue[i]]

(* Fault: the consumer is not notified. *)
Publish_Silent(p) ==
    /\ ppc[p] = "publish"
    /\ queue' = Published(p)
    /\ ppc' = [ppc EXCEPT ![p] = "idle"]
    /\ UNCHANGED <<posted, refused, ticket, cpc, handled, missed, owner, messageVars>>

Publish(p) ==
    /\ ppc[p] = "publish"
    /\ queue' = Published(p)
    /\ ppc' = [ppc EXCEPT ![p] = "notify"]
    /\ UNCHANGED <<posted, refused, ticket, cpc, handled, missed, owner, messageVars>>

(* cv_.notify_one(): a thread that is not yet blocked misses it. *)
Notify(p) ==
    /\ owner # "main"
    /\ ppc[p] = "notify"
    /\ ppc' = [ppc EXCEPT ![p] = "idle"]
    /\ cpc' = IF cpc = "wait" THEN "wakes" ELSE cpc
    /\ missed' = (cpc = "blocks")
    /\ UNCHANGED <<queue, posted, refused, ticket, handled, owner, messageVars>>

(* PostThreadMessage(mainThreadID_, WM_USER, 0, 0), whose result nobody      *)
(* looks at.                                                                 *)
PostNote(p) ==
    /\ owner = "main"
    /\ ppc[p] = "notify"
    /\ ppc' = [ppc EXCEPT ![p] = "idle"]
    /\ IF notes < MaxNotes
       THEN notes' = notes + 1 /\ fresh' = TRUE
       ELSE UNCHANGED <<notes, fresh>>
    /\ UNCHANGED <<queue, posted, refused, ticket, cpc, handled, missed, owner, inputs, arrived>>
-----------------------------------------------------------------------------
(* popEvent *)

(* queue_.pop(event), at l, and where the consumer goes on. *)
TryPop(l, onSuccess, onFailure) ==
    /\ cpc = l
    /\ IF Ready
       THEN /\ handled' = Append(handled, <<Head(queue).from, Head(queue).nr>>)
            /\ queue' = Tail(queue)
            /\ cpc' = onSuccess
       ELSE /\ cpc' = onFailure
            /\ UNCHANGED <<queue, handled>>
    /\ UNCHANGED <<posted, refused, ppc, ticket, missed, owner, messageVars>>

FastPop == TryPop("pop", "pop", "wakes")

ConsumerGoes(l) == /\ cpc' = l
                   /\ UNCHANGED <<queue, posted, refused, ppc, ticket, handled, missed, owner>>

(* Fault: a wait without its predicate. *)
TestSize_Ignored == /\ cpc = "wakes"
                    /\ \E l \in {"popAgain", "blocks"} : ConsumerGoes(l)
                    /\ UNCHANGED messageVars

(* The predicate size() > 0, before the first wait and after every wakeup. *)
TestSize == /\ cpc = "wakes"
            /\ ConsumerGoes(IF queue # <<>> THEN "popAgain" ELSE "blocks")
            /\ UNCHANGED messageVars

Block == cpc = "blocks" /\ ConsumerGoes("wait") /\ UNCHANGED messageVars

(* A wait may end by itself. *)
SpuriousWakeup == cpc = "wait" /\ ConsumerGoes("wakes") /\ UNCHANGED messageVars

(* wait_for gives up; its result is the predicate, evaluated once more. *)
Timeout == /\ owner = "ticking"
           /\ cpc = "wait"
           /\ ConsumerGoes(IF queue # <<>> THEN "popAgain" ELSE "pop")
           /\ UNCHANGED messageVars

(* The last pop; when it fails popEvent returns false and the worker's loop *)
(* calls onTick, then popEvent again.                                       *)
PopAgain == TryPop("popAgain", "pop", "pop")
-----------------------------------------------------------------------------
(* The main thread's turn (App::run): wait, one message, one event. *)

(* Fault: the main thread looks at its messages only. *)
TestEmpty_MessagesOnly ==
    cpc = "testEmpty" /\ ConsumerGoes("peek") /\ UNCHANGED messageVars

(* eventQueue_.size() == 0 && ... *)
TestEmpty == /\ cpc = "testEmpty"
             /\ ConsumerGoes(IF queue = <<>> THEN "peek" ELSE "takeMessage")
             /\ UNCHANGED messageVars

(* ... PeekMessage(..., PM_NOREMOVE) == 0 *)
Peek == /\ cpc = "peek"
        /\ ConsumerGoes(IF notes + inputs = 0 THEN "msgWait" ELSE "takeMessage")
        /\ fresh' = FALSE
        /\ UNCHANGED <<notes, inputs, arrived>>

(* MsgWaitForMultipleObjects *)
MsgWakes == /\ cpc = "msgWait" /\ fresh
            /\ ConsumerGoes("takeMessage")
            /\ UNCHANGED messageVars

(* PeekMessage(..., PM_REMOVE): a posted message, or else one for a window. *)
TakeNote == /\ notes > 0
            /\ notes' = notes - 1
            /\ fresh' = FALSE
            /\ UNCHANGED <<inputs, arrived>>

TakeInput == /\ notes = 0 /\ inputs > 0
             /\ inputs' = inputs - 1
             /\ fresh' = FALSE
             /\ UNCHANGED <<notes, arrived>>

(* DispatchMessage may enter a modal loop for a message of a window. *)
TakeMessage ==
    /\ cpc = "takeMessage"
    /\ \/ TakeNote /\ ConsumerGoes("trySize")
       \/ TakeInput /\ \E l \in {"trySize", "modal"} : ConsumerGoes(l)
       \/ /\ notes + inputs = 0
          /\ ConsumerGoes("trySize")
          /\ fresh' = FALSE
          /\ UNCHANGED <<notes, inputs, arrived>>

ModalTakes == cpc = "modal" /\ (TakeNote \/ TakeInput) /\ ConsumerGoes("modal")
ModalEnds == cpc = "modal" /\ ConsumerGoes("trySize") /\ UNCHANGED messageVars

(* tryPopEvent: size() > 0, then the pop. *)
TrySize == /\ cpc = "trySize"
           /\ ConsumerGoes(IF queue # <<>> THEN "tryPop" ELSE "testEmpty")
           /\ UNCHANGED messageVars

TryPopEvent == TryPop("tryPop", "testEmpty", "testEmpty")

(* The system has a message for a window of the main thread. *)
Input == /\ owner = "main"
         /\ arrived < MaxInputs
         /\ arrived' = arrived + 1
         /\ inputs' = inputs + 1
         /\ fresh' = TRUE
         /\ UNCHANGED <<queue, posted, refused, ppc, ticket, cpc, handled, missed, owner, notes>>
-----------------------------------------------------------------------------
Post(p) == \/ Reload(p) \/ Claim(p) \/ Refuse(p)
           \/ Publish(p) \/ Notify(p) \/ PostNote(p)
Produce(p) == Load(p) \/ Post(p)
Consume == FastPop \/ TestSize \/ Block \/ Timeout \/ PopAgain
Turn == TestEmpty \/ Peek \/ MsgWakes \/ TakeMessage \/ ModalTakes \/ TrySize \/ TryPopEvent

Next == \/ \E p \in Producers : Produce(p)
        \/ Consume \/ SpuriousWakeup
        \/ Turn \/ ModalEnds \/ Input

(* A thread inside a call goes on, the consumer's thread always runs, and    *)
(* a timed wait ends.  No producer has to start a call, nor has the user to  *)
(* let go of a window.                                                       *)
Fairness == /\ WF_vars(Consume \/ Turn)
            /\ \A p \in Producers : WF_vars(Post(p))

Spec == Init /\ [][Next]_vars /\ Fairness
-----------------------------------------------------------------------------
WorkerPcs == {"pop", "wakes", "blocks", "wait", "popAgain"}
MainPcs == {"testEmpty", "peek", "msgWait", "takeMessage", "modal", "trySize", "tryPop"}

(* The places of the queue, the counters and the positions have their types. *)
TypeOK == /\ queue \in Seq([from : Producers, nr : 1 .. MaxPosts, ready : BOOLEAN])
          /\ Len(queue) <= Capacity
          /\ posted \in [Producers -> 0 .. MaxPosts]
          /\ refused \subseteq Events
          /\ ppc \in [Producers -> {"idle", "push", "publish", "notify"}]
          /\ ticket \in [Producers -> Nat]
          /\ \A p \in Producers : ppc[p] = "push" => posted[p] < MaxPosts
          /\ owner \in {"ticking", "waiting", "main"}
          /\ cpc \in IF owner = "main" THEN MainPcs ELSE WorkerPcs
          /\ handled \in Seq(Events)
          /\ missed \in BOOLEAN
          /\ notes \in 0 .. MaxNotes
          /\ arrived \in 0 .. MaxInputs /\ inputs \in 0 .. MaxInputs
          /\ fresh \in BOOLEAN

(* What has reached the owner's loop, and what is to follow, in order.      *)
Places == [i \in DOMAIN queue |-> <<queue[i].from, queue[i].nr>>]
OnTheWay == handled \o Places

(* What one thread posts reaches the owner's loop in the order in which it  *)
(* was posted, none twice, and none missing but those whose post returned   *)
(* false, although claiming, publishing and popping interleave.             *)
PerProducerOrder ==
    /\ Range(OnTheWay) = {e \in Events : e[2] <= posted[e[1]]} \ refused
    /\ \A i, j \in DOMAIN OnTheWay :
          (i < j /\ OnTheWay[i][1] = OnTheWay[j][1]) => OnTheWay[i][2] < OnTheWay[j][2]

(* popEvent() without a timeout returns false, which makes the worker call  *)
(* onTick, only while another thread is inside a push of the oldest event:  *)
(* nobody but the worker takes events out between size() and pop().         *)
TickOnlyWhilePublishing ==
    [][(owner = "waiting" /\ cpc = "popAgain" /\ cpc' = "pop" /\ handled' = handled) =>
          \E p \in Producers : /\ ppc[p] = "publish"
                               /\ Head(queue).from = p]_vars

(* When nothing is to wake the main thread any more, every event in its     *)
(* queue belongs to a call that has still to post its message: none is      *)
(* stranded, although a modal loop throws messages away, a turn takes only  *)
(* one event, and a message that has been seen wakes nobody.                *)
InCall(e) == ppc[e.from] \in {"publish", "notify"} /\ e.nr = posted[e.from]
MainAwake ==
    (cpc = "msgWait" /\ ~ fresh) => \A i \in DOMAIN queue : InCall(queue[i])

Accepted(e) == posted[e[1]] >= e[2] /\ e \notin refused

(* A worker sleeps on a queue that holds a published event only if the      *)
(* notification of that event found it awake, between the test of size()    *)
(* and the wait, and no other post is under way to wake it.                 *)
AsleepOnEvents ==
    /\ cpc = "wait" /\ missed /\ owner = "waiting"
    /\ Ready /\ \A p \in Producers : ppc[p] = "idle"

(* Every event that was accepted is handled, or the worker is asleep on it; *)
(* with a timeout it is handled, whatever notification is missed, and by    *)
(* the main thread unless the user never lets go of a window.               *)
HandledOrAsleep ==
    \A e \in Events :
        Accepted(e) ~> (e \in Range(handled) \/ AsleepOnEvents \/ [](cpc = "modal"))
=============================================================================
