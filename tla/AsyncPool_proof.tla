---------------------------- MODULE AsyncPool_proof ----------------------------
(***************************************************************************)
(* Proofs about AsyncPool for every number of threads and workers, every   *)
(* capacity of the queues and any amount of work.                          *)
(***************************************************************************)
EXTENDS AsyncPool, TLAPS

(* Where each kind of thread may be.                                        *)
StartPlaces == {"init", "initQueue", "test", "blocks", "sleeps"}
WorkPlaces == {"work", "answer", "setDone", "tell"}
EndPlaces == {"endWorkers", "stop", "join", "over"}
MainPlaces == {"spawn", "loop", "joinWorker"} \cup StartPlaces \cup WorkPlaces \cup EndPlaces
PoolPlaces == {"none", "born", "enter", "announce", "ask", "pop", "test", "blocks", "sleeps",
               "popAgain", "check", "ended"} \cup WorkPlaces
WorkerPlaces == {"none", "born", "enter", "announce", "free", "publish", "notify",
                 "test", "blocks", "sleeps", "ended"}
PlacesOf(t) == IF t = Main THEN MainPlaces ELSE IF t \in Pool THEN PoolPlaces ELSE WorkerPlaces

Places == MainPlaces \cup PoolPlaces \cup WorkerPlaces

(* Before its announcement a thread has not said that it runs.              *)
Unstarted == {"none", "born", "enter"}

StartTypes ==
    /\ pc \in [Threads -> Places]
    /\ \A t \in Threads : pc[t] \in PlacesOf(t)
    /\ starting \in Pool \cup Workers \cup {None}
    /\ isRunning \in [Pool \cup Workers -> BOOLEAN]
    /\ hasQueue \in [Workers -> BOOLEAN]
    /\ isTerminating \in BOOLEAN
    /\ raced \subseteq Pool \cup Workers /\ missed \subseteq Threads

(* The main thread is in one constructor at a time, and leaves it only when *)
(* the thread has got past its own initialisation.                          *)
InConstructor ==
    /\ starting # None <=> pc[Main] \in StartPlaces
    /\ \A t \in Pool \cup Workers : /\ pc[t] = "none" => starting # t
                                    /\ pc[t] \in {"born", "enter"} => starting = t

(* What the flags say of a thread whose constructor has undone nothing.     *)
FlagsAgree ==
    /\ pc[Main] \in EndPlaces => isTerminating
    /\ \A t \in Pool \cup Workers : isRunning[t] => pc[t] \notin Unstarted
    /\ \A t \in (Pool \cup Workers) \ raced :
            (pc[t] \notin Unstarted \cup {"ended"} /\ ~ isTerminating) => isRunning[t]
    /\ \A w \in Workers \ raced : pc[w] \notin {"none", "born"} => hasQueue[w]

StartInv == StartTypes /\ InConstructor /\ FlagsAgree
-----------------------------------------------------------------------------
Entry == [event : Events, ready : BOOLEAN]

WorkTypes ==
    /\ asyncQueue \in Seq(Entry) /\ Len(asyncQueue) <= Capacity
    /\ mainQueue \in Seq(Events) /\ Len(mainQueue) <= Capacity
    /\ inbox \in [Workers -> Seq(Events)]
    /\ holding \in [Servers -> Events \cup {None}]
    /\ posted \in [Workers -> 0 .. MaxPosts]
    /\ live \subseteq Events /\ done \subseteq Events /\ worked \subseteq Events

InAsync == {asyncQueue[i].event : i \in DOMAIN asyncQueue}
InMain == {mainQueue[i] : i \in DOMAIN mainQueue}
Waiting == InAsync \cup InMain
Answered == UNION {Range(inbox[w]) : w \in Workers}
Alive(e) == e \in live \/ Ended(e.owner)

(* No event is in two places, and none of those under way is a new one.     *)
OnePlace ==
    /\ \A i, j \in DOMAIN asyncQueue : asyncQueue[i].event = asyncQueue[j].event => i = j
    /\ \A i, j \in DOMAIN mainQueue : mainQueue[i] = mainQueue[j] => i = j
    /\ InAsync \cap InMain = {}
    /\ \A t, u \in Servers : (holding[t] = holding[u] /\ holding[t] # None) => t = u
    /\ \A t \in Servers : holding[t] \notin Waiting

Numbered ==
    /\ \A e \in worked : e.nr <= posted[e.owner]
    /\ \A i \in DOMAIN asyncQueue : asyncQueue[i].event.nr <= posted[asyncQueue[i].event.owner]
    /\ \A i \in DOMAIN mainQueue : mainQueue[i].nr <= posted[mainQueue[i].owner]
    /\ \A t \in Servers : holding[t] # None => holding[t].nr <= posted[holding[t].owner]

(* Work that is waiting has not been done. *)
WaitingIsNew == \A e \in Waiting : e \notin worked /\ Alive(e)

(* What a thread knows of the event that it has. *)
HeldSound ==
    \A t \in Servers :
        /\ pc[t] \in WorkPlaces => holding[t] # None
        /\ pc[t] \notin WorkPlaces \cup {"check"} => holding[t] = None
        /\ \A e \in Events : holding[t] = e =>
              /\ pc[t] # "tell" => Alive(e) /\ e \notin done \cup Answered
              /\ pc[t] \in {"check", "work"} => e \notin worked
              /\ pc[t] \in {"answer", "setDone"} => e \in worked

ToldWorked == done \cup Answered \subseteq worked

WorkInv == WorkTypes /\ OnePlace /\ Numbered /\ WaitingIsNew /\ HeldSound /\ ToldWorked

(* What the main thread joins, and who has been got ahead of.               *)
Sides == joining \in Workers \cup {None} /\ robbed \subseteq Pool

IInv == StartInv /\ WorkInv /\ Sides
-----------------------------------------------------------------------------
(* How the places of the threads change in a step.                          *)

(* t goes to l, and some sleepers wake up. *)
Moves(t, l) == /\ pc' \in [Threads -> Places]
               /\ pc'[t] = l
               /\ \A x \in Threads \ {t} :
                     pc'[x] = pc[x] \/ (pc[x] = "sleeps" /\ pc'[x] = "test")
               /\ missed' \subseteq Threads

LEMMA KindsOfThreads ==
    /\ Main \in Threads /\ Main \notin Pool /\ Main \notin Workers
    /\ \A t \in Pool : t \in Threads /\ t # Main /\ t \notin Workers /\ PlacesOf(t) = PoolPlaces
    /\ \A w \in Workers : w \in Threads /\ w # Main /\ w \notin Pool /\ PlacesOf(w) = WorkerPlaces
    /\ PlacesOf(Main) = MainPlaces
    /\ None \notin Pool \cup Workers
    /\ \A t \in Threads : "test" \in PlacesOf(t) /\ PlacesOf(t) \subseteq Places
BY ThreadsAssumption DEF Threads, PlacesOf, Places, MainPlaces, PoolPlaces, WorkerPlaces, StartPlaces

LEMMA GoMoves ==
    ASSUME StartTypes, NEW t \in Threads, NEW l \in PlacesOf(t), Go(t, l),
           missed' \subseteq Threads
    PROVE  Moves(t, l)
BY KindsOfThreads DEF StartTypes, Go, Moves

LEMMA NotifyAllMoves ==
    ASSUME StartTypes, NEW t \in Threads, NEW l \in PlacesOf(t), NEW S \in SUBSET Threads,
           NotifyAll(t, S, l)
    PROVE  Moves(t, l)
<1>1. missed' \subseteq Threads
  BY DEF NotifyAll, Misses, StartTypes
<1>2. \A x \in Threads : pc'[x] = IF x = t THEN l ELSE IF x \in Wakes(S) THEN "test" ELSE pc[x]
  BY DEF NotifyAll
<1>3. \A x \in Threads : pc'[x] \in PlacesOf(x)
  BY <1>2, KindsOfThreads DEF StartTypes
<1>4. pc' \in [Threads -> Places]
  BY <1>3, KindsOfThreads DEF NotifyAll
<1> QED BY <1>1, <1>2, <1>4 DEF Moves, Wakes

LEMMA NotifyOneMoves ==
    ASSUME StartTypes, NEW t \in Threads, NEW l \in PlacesOf(t), NEW S \in SUBSET Threads,
           NotifyOne(t, S, l), t \notin S
    PROVE  Moves(t, l)
<1>1. CASE Wakes(S) = {}
  BY <1>1, NotifyAllMoves DEF NotifyOne
<1>2. CASE Wakes(S) # {}
  <2>1. PICK x \in Wakes(S) : /\ pc' = [pc EXCEPT ![t] = l, ![x] = "test"]
                              /\ missed' = missed \ {x}
    BY <1>2 DEF NotifyOne
  <2>2. x \in Threads /\ x # t /\ pc[x] = "sleeps"
    BY <2>1 DEF Wakes
  <2> QED BY <2>1, <2>2, KindsOfThreads DEF Moves, StartTypes
<1> QED BY <1>1, <1>2

(* A step of a thread that has started, outside the constructors.           *)
LEMMA CalmStep ==
    ASSUME StartInv, NEW t \in Threads, NEW l \in PlacesOf(t), Moves(t, l),
           UNCHANGED startVars, isTerminating' \in {isTerminating, TRUE},
           pc[t] \notin Unstarted \cup {"ended"}, l \notin Unstarted,
           t = Main => /\ pc[t] \in StartPlaces <=> l \in StartPlaces
                       /\ l \in EndPlaces => isTerminating'
    PROVE  StartInv'
<1>1. \A x \in Threads : pc'[x] \in PlacesOf(x)
  BY KindsOfThreads DEF StartInv, StartTypes, Moves
<1>2. StartTypes'
  BY <1>1 DEF StartInv, StartTypes, Moves, startVars
<1>3. pc'[Main] \in StartPlaces <=> pc[Main] \in StartPlaces
  BY KindsOfThreads DEF Moves, StartPlaces
<1>4. pc'[Main] \in EndPlaces => isTerminating'
  BY KindsOfThreads DEF Moves, EndPlaces, StartInv, FlagsAgree
<1>5. \A x \in Threads : /\ pc'[x] = "none" <=> pc[x] = "none"
                         /\ pc'[x] \in {"born", "enter"} <=> pc[x] \in {"born", "enter"}
                         /\ pc'[x] \in {"none", "born"} <=> pc[x] \in {"none", "born"}
                         /\ pc'[x] \in Unstarted <=> pc[x] \in Unstarted
                         /\ pc[x] = "ended" => pc'[x] = "ended"
  BY DEF Moves, Unstarted
<1>6. InConstructor'
  BY <1>3, <1>5, KindsOfThreads DEF StartInv, InConstructor, startVars
<1>7. FlagsAgree'
  BY <1>4, <1>5, KindsOfThreads DEF StartInv, FlagsAgree, startVars
<1> QED BY <1>2, <1>6, <1>7 DEF StartInv

(* The steps of a constructor and of the thread that it starts.             *)
LEMMA StartStep ==
    ASSUME StartInv, NEW t \in Pool \cup Workers, NEW l \in {"spawn", "loop"}, Start(t, l)
    PROVE  StartInv'
<1> USE DEF StartInv
<1>1. starting = None
  BY DEF InConstructor, StartPlaces, Start
<1>2. /\ t \in Threads /\ Main \in Threads /\ t # Main /\ t # None
      /\ \A x \in Pool \cup Workers : x \in Threads /\ x # Main
      /\ {"born"} \subseteq PlacesOf(t) /\ {"init"} \subseteq PlacesOf(Main)
  BY KindsOfThreads DEF PoolPlaces, WorkerPlaces, MainPlaces, StartPlaces
<1>3. /\ pc' \in [Threads -> Places] /\ pc'[Main] = "init" /\ pc'[t] = "born"
      /\ \A x \in Threads \ {t, Main} : pc'[x] = pc[x]
  BY <1>2, KindsOfThreads DEF StartTypes, Start
<1>4. StartTypes'
  BY <1>2, <1>3 DEF StartTypes, Start, work, endVars
<1>5. InConstructor'
  BY <1>1, <1>2, <1>3, KindsOfThreads DEF InConstructor, Start, StartPlaces
<1>6. \A x \in Pool \cup Workers :
         /\ pc'[x] \in Unstarted <=> pc[x] \in Unstarted
         /\ pc'[x] = "ended" <=> pc[x] = "ended"
  BY <1>2, <1>3 DEF Start, Unstarted
<1>7. \A w \in Workers : pc'[w] \in {"none", "born"} <=> pc[w] \in {"none", "born"}
  BY <1>2, <1>3 DEF Start
<1>8. FlagsAgree'
  <2>1. UNCHANGED <<isRunning, hasQueue, raced, isTerminating>> /\ pc'[Main] \notin EndPlaces
    BY <1>3 DEF Start, work, endVars, EndPlaces
  <2>2. \A x \in Pool \cup Workers :
           pc'[x] \in Unstarted \cup {"ended"} <=> pc[x] \in Unstarted \cup {"ended"}
    BY <1>6
  <2> QED BY <1>6, <1>7, <2>1, <2>2 DEF FlagsAgree
<1> QED BY <1>4, <1>5, <1>8

LEMMA InitStep == StartInv /\ (InitRunning \/ InitQueue) => StartInv'
<1> SUFFICES ASSUME StartInv, InitRunning \/ InitQueue PROVE StartInv'
  OBVIOUS
<1> USE DEF StartInv
<1>1. /\ starting \in Pool \cup Workers /\ starting' = starting
      /\ pc[Main] \in StartPlaces
  BY DEF InConstructor, InitRunning, InitQueue, StartPlaces, StartTypes
<1>2. /\ pc'[Main] \in {"initQueue", "test"}
      /\ pc' \in [Threads -> Places]
      /\ \A x \in Threads \ {Main} : pc'[x] = pc[x]
      /\ \A x \in Threads : pc'[x] \in PlacesOf(x)
  BY KindsOfThreads DEF InitRunning, InitQueue, Go, StartTypes, MainPlaces, StartPlaces
<1>3. StartTypes'
  BY <1>1, <1>2 DEF InitRunning, InitQueue, StartTypes, work, endVars
<1>4. InConstructor'
  BY <1>1, <1>2, KindsOfThreads DEF InConstructor, StartPlaces, InitRunning, InitQueue
<1>5. \A x \in Pool \cup Workers : pc'[x] = pc[x]
  BY <1>2, KindsOfThreads
<1>6. raced \subseteq raced' /\ isTerminating' = isTerminating
  BY DEF InitRunning, InitQueue, work, endVars
<1>7. \A x \in Pool \cup Workers : isRunning'[x] => isRunning[x]
  BY DEF InitRunning, InitQueue, StartTypes
<1>8. \A x \in (Pool \cup Workers) \ raced' : isRunning'[x] = isRunning[x]
  BY <1>1 DEF InitRunning, InitQueue, StartTypes
<1>9. \A w \in Workers \ raced' : hasQueue'[w] = hasQueue[w]
  BY <1>1 DEF InitRunning, InitQueue, StartTypes
<1>10. FlagsAgree'
  BY <1>2, <1>5, <1>6, <1>7, <1>8, <1>9 DEF FlagsAgree, EndPlaces
<1> QED BY <1>3, <1>4, <1>10

LEMMA TestStartedStep == StartInv /\ TestStarted => StartInv'
<1> SUFFICES ASSUME StartInv, TestStarted PROVE StartInv'
  OBVIOUS
<1> USE DEF StartInv
<1>1. starting \in Pool \cup Workers /\ starting # None
  BY DEF InConstructor, TestStarted, StartPlaces, StartTypes
<1>2. /\ pc'[Main] \in {"blocks", "spawn", "loop"}
      /\ pc'[Main] = "blocks" <=> starting' # None
      /\ starting' \in {starting, None}
      /\ starting' = None => isRunning[starting]
  BY <1>1, KindsOfThreads DEF TestStarted, Go, StartTypes
<1>3. /\ pc' \in [Threads -> Places]
      /\ \A x \in Threads \ {Main} : pc'[x] = pc[x]
      /\ \A x \in Threads : pc'[x] \in PlacesOf(x)
  BY <1>2, KindsOfThreads DEF TestStarted, Go, StartTypes, MainPlaces, StartPlaces
<1>4. \A x \in Pool \cup Workers : pc'[x] = pc[x]
  BY <1>3, KindsOfThreads
<1>5. StartTypes'
  BY <1>2, <1>3 DEF TestStarted, StartTypes, work, endVars
<1>6. starting' = None => pc[starting] \notin {"born", "enter"}
  BY <1>1, <1>2 DEF FlagsAgree, Unstarted
<1>7. InConstructor'
  BY <1>1, <1>2, <1>4, <1>6, KindsOfThreads DEF InConstructor, StartPlaces
<1>8. FlagsAgree'
  BY <1>2, <1>4 DEF FlagsAgree, TestStarted, EndPlaces, work, endVars
<1> QED BY <1>5, <1>7, <1>8

LEMMA EntryStep ==
    ASSUME StartInv, NEW t \in Pool \cup Workers, Enter(t) \/ SetRunning(t)
    PROVE  StartInv'
<1> USE DEF StartInv
<1>1. t \in Threads /\ t # Main /\ Main \in Threads
  BY KindsOfThreads
<1>2. pc[t] \in {"born", "enter"} /\ starting = t /\ starting' = starting
  BY DEF InConstructor, Enter, SetRunning
<1>3. /\ pc'[t] \in {"enter", "announce"}
      /\ pc' \in [Threads -> Places]
      /\ \A x \in Threads \ {t} : pc'[x] = pc[x]
      /\ \A x \in Threads : pc'[x] \in PlacesOf(x)
  BY KindsOfThreads DEF Enter, SetRunning, Go, StartTypes, PoolPlaces, WorkerPlaces
<1>4. StartTypes'
  BY <1>2, <1>3 DEF Enter, SetRunning, StartTypes, work, endVars
<1>5. InConstructor'
  BY <1>1, <1>2, <1>3, KindsOfThreads DEF InConstructor
<1>6. CASE Enter(t)
  <2>1. /\ pc[t] = "born" /\ pc'[t] = "enter"
        /\ \A w \in Workers : hasQueue'[w] = (hasQueue[w] \/ w = t)
    BY <1>1, <1>6 DEF Enter, Go, StartTypes
  <2> QED BY <1>1, <1>3, <1>4, <1>5, <1>6, <2>1, KindsOfThreads
          DEF Enter, FlagsAgree, Unstarted, work, endVars
<1>7. CASE SetRunning(t)
  <2>1. /\ pc[t] = "enter" /\ pc'[t] = "announce"
        /\ \A x \in Pool \cup Workers : isRunning'[x] = (isRunning[x] \/ x = t)
    BY <1>1, <1>7 DEF SetRunning, Go, StartTypes
  <2> QED BY <1>1, <1>3, <1>4, <1>5, <1>7, <2>1, KindsOfThreads
          DEF SetRunning, FlagsAgree, Unstarted, work, endVars
<1> QED BY <1>6, <1>7

LEMMA StopThreadStep == ASSUME StartInv, NEW t \in Pool, StopThread(t) PROVE StartInv'
<1> USE DEF StartInv
<1>1. isTerminating
  BY DEF StopThread, FlagsAgree, EndPlaces
<1>2. \A x \in Pool \cup Workers : isRunning'[x] => isRunning[x]
  BY DEF StopThread, StartTypes
<1>3. StartTypes' /\ InConstructor'
  BY DEF StopThread, StartTypes, InConstructor, work, endVars
<1> QED BY <1>1, <1>2, <1>3 DEF StopThread, FlagsAgree, work, endVars

(* The steps of threads that run.                                           *)
LEMMA StillStep == StartInv /\ UNCHANGED <<pc, calm>> => StartInv'
BY DEF StartInv, StartTypes, InConstructor, FlagsAgree, calm, startVars, endVars

LEMMA WaitStep ==
    ASSUME StartInv, NEW t \in Threads, Block(t) \/ SpuriousWakeup(t)
    PROVE  StartInv'
<1>1. PICK l \in {"test", "sleeps"} : Go(t, l)
  BY DEF Block, SpuriousWakeup, Step
<1>2. pc[t] \in {"blocks", "sleeps"} /\ UNCHANGED startVars /\ isTerminating' = isTerminating
  BY DEF Block, SpuriousWakeup, Step, work, data, endVars
<1>3. missed' \subseteq Threads
  BY DEF Block, SpuriousWakeup, Step, work, StartInv, StartTypes, endVars
<1>4. pc[t] \in PlacesOf(t)
  BY DEF StartInv, StartTypes
<1>5. l \in PlacesOf(t)
  BY <1>2, <1>4, KindsOfThreads DEF PlacesOf, MainPlaces, StartPlaces, PoolPlaces, WorkerPlaces
<1>6. Moves(t, l)
  BY <1>1, <1>3, <1>5, GoMoves DEF StartInv
<1> QED BY <1>2, <1>5, <1>6, CalmStep DEF Unstarted, StartPlaces, EndPlaces

LEMMA AnnounceStep ==
    ASSUME StartInv, NEW t \in Pool \cup Workers, Announce(t)
    PROVE  StartInv'
<1>1. /\ pc[t] = "announce" /\ UNCHANGED startVars /\ isTerminating' = isTerminating
      /\ NotifyAll(t, IF starting = t THEN {Main} ELSE {}, BodyOf(t))
  BY DEF Announce, Tells, data, endVars
<1>2. t \in Threads /\ t # Main /\ BodyOf(t) \in PlacesOf(t) /\ BodyOf(t) \in {"ask", "free"}
  BY KindsOfThreads DEF BodyOf, PoolPlaces, WorkerPlaces
<1>3. (IF starting = t THEN {Main} ELSE {}) \in SUBSET Threads
  BY KindsOfThreads
<1>4. Moves(t, BodyOf(t))
  BY <1>1, <1>2, <1>3, NotifyAllMoves DEF StartInv
<1> QED BY <1>1, <1>2, <1>4, CalmStep DEF Unstarted

WorkerActs(w) == \/ PostToMain(w) \/ Publish(w) \/ Notify(w) \/ TestDone(w) \/ Resolve(w)
                 \/ WorkerAsks(w)

LEMMA WorkerMoves ==
    ASSUME StartInv, NEW w \in Workers, WorkerActs(w)
    PROVE  /\ UNCHANGED <<startVars, isTerminating>>
           /\ pc[w] \notin Unstarted \cup {"ended"}
           /\ \/ UNCHANGED <<pc, calm>>
              \/ \E l \in WorkerPlaces \ Unstarted : Moves(w, l)
<1> USE DEF StartInv
<1>1. w \in Threads /\ PlacesOf(w) = WorkerPlaces
  BY KindsOfThreads
<1>2. ASSUME NEW l \in {"free", "test", "blocks", "publish", "notify", "ended"},
             Go(w, l), UNCHANGED missed
      PROVE  \E k \in WorkerPlaces \ Unstarted : Moves(w, k)
  <2>1. l \in WorkerPlaces \ Unstarted
    BY DEF WorkerPlaces, Unstarted
  <2>2. missed' \subseteq Threads
    BY <1>2 DEF StartTypes
  <2>3. Moves(w, l)
    BY <1>1, <1>2, <2>1, <2>2, GoMoves
  <2> QED BY <2>1, <2>3
<1>3. CASE PostToMain(w)
  BY <1>3, <1>2 DEF PostToMain, Free, Unstarted, calm, endVars
<1>4. CASE Publish(w)
  BY <1>4, <1>2 DEF Publish, Unstarted, calm, endVars
<1>5. CASE Notify(w)
  <2>1. AfterPost(w) \in {"test", "free"}
    BY DEF AfterPost
  <2>2. AfterPost(w) \in WorkerPlaces \ Unstarted
    BY <2>1 DEF WorkerPlaces, Unstarted
  <2>3. Pool \in SUBSET Threads /\ w \notin Pool
    BY KindsOfThreads
  <2>4. NotifyOne(w, Pool, AfterPost(w)) /\ UNCHANGED data /\ pc[w] = "notify"
    BY <1>5 DEF Notify
  <2>5. Moves(w, AfterPost(w))
    BY <1>1, <2>2, <2>3, <2>4, NotifyOneMoves
  <2> QED BY <2>2, <2>4, <2>5 DEF data, Unstarted, endVars
<1>6. CASE TestDone(w)
  BY <1>6, <1>2 DEF TestDone, Unstarted, calm, endVars
<1>7. CASE Resolve(w)
  BY <1>7 DEF Resolve, Free, Unstarted, calm, endVars
<1>9. CASE WorkerAsks(w)
  <2>1. PICK kind \in {"async", "blocking"} : PostToPool(w, kind) \/ Refused(w, kind)
    BY <1>9 DEF WorkerAsks
  <2>2. CASE PostToPool(w, kind)
    BY <2>2, <1>2 DEF PostToPool, Free, Unstarted, calm, endVars
  <2>3. CASE Refused(w, kind)
    BY <2>3 DEF Refused, Free, Unstarted, calm, endVars
  <2> QED BY <2>1, <2>2, <2>3
<1> QED BY <1>3, <1>4, <1>5, <1>6, <1>7, <1>9 DEF WorkerActs

LEMMA WorkerStepStart == ASSUME StartInv, NEW w \in Workers, WorkerActs(w) PROVE StartInv'
<1>1. CASE UNCHANGED <<pc, calm>>
  BY <1>1, StillStep
<1>2. CASE \E l \in WorkerPlaces \ Unstarted : Moves(w, l)
  <2>1. PICK l \in WorkerPlaces \ Unstarted : Moves(w, l)
    BY <1>2
  <2>2. w \in Threads /\ w # Main /\ l \in PlacesOf(w)
    BY KindsOfThreads
  <2> QED BY <2>1, <2>2, WorkerMoves, CalmStep
<1> QED BY <1>1, <1>2, WorkerMoves

(* The end of a worker, of which the main thread learns.                    *)
LEMMA EndStepStart == ASSUME StartInv, NEW w \in Workers, EndWorker(w) PROVE StartInv'
<1> USE DEF StartInv
<1>1. w \in Threads /\ w # Main /\ Main \in Threads
  BY KindsOfThreads
<1>2. /\ pc[w] = "free" /\ pc[Main] = "joinWorker" /\ raced' = raced
      /\ starting' = starting /\ hasQueue' = hasQueue /\ isTerminating' = isTerminating
      /\ UNCHANGED missed
      /\ isRunning' = [isRunning EXCEPT ![w] = FALSE]
  BY DEF EndWorker, Free
<1>3. /\ pc' \in [Threads -> Places] /\ pc'[w] = "ended"
      /\ pc'[Main] = IF isTerminating THEN "endWorkers" ELSE "loop"
      /\ \A x \in Threads \ {w, Main} : pc'[x] = pc[x]
  BY <1>1 DEF EndWorker, StartTypes, Places, MainPlaces, EndPlaces, WorkerPlaces
<1>4. \A x \in Threads : pc'[x] \in PlacesOf(x)
  BY <1>1, <1>3, KindsOfThreads DEF StartTypes, MainPlaces, EndPlaces, WorkerPlaces
<1>5. StartTypes'
  BY <1>2, <1>3, <1>4 DEF StartTypes
<1>6. pc[Main] \notin StartPlaces /\ pc'[Main] \notin StartPlaces
  BY <1>2, <1>3 DEF StartPlaces
<1>7. \A x \in Pool \cup Workers : IF x = w THEN pc[x] = "free" /\ pc'[x] = "ended"
                                   ELSE pc'[x] = pc[x]
  BY <1>2, <1>3, KindsOfThreads
<1>8. InConstructor'
  BY <1>2, <1>6, <1>7 DEF InConstructor
<1>9. FlagsAgree'
  <2>1. pc'[Main] \in EndPlaces => isTerminating'
    BY <1>2, <1>3 DEF EndPlaces
  <2>2. \A x \in Pool \cup Workers : isRunning'[x] = (isRunning[x] /\ x # w)
    BY <1>2 DEF StartTypes
  <2> QED BY <1>2, <1>7, <2>1, <2>2 DEF FlagsAgree, Unstarted
<1> QED BY <1>5, <1>8, <1>9

(* What a thread that serves has in hand is an event.                       *)
LEMMA HeldIsEvent ==
    ASSUME WorkInv, NEW t \in Servers, pc[t] \in WorkPlaces
    PROVE  holding[t] \in Events /\ holding[t] # None /\ holding[t].owner \in Workers
<1>1. holding[t] \in Events
  BY DEF WorkInv, WorkTypes, HeldSound
<1> QED BY <1>1, NoneAssumption DEF Events

LEMMA ServeMoves ==
    ASSUME StartInv, WorkInv, NEW t \in Servers, Serve(t)
    PROVE  /\ UNCHANGED <<startVars, isTerminating>> /\ pc[t] \in WorkPlaces
           /\ \E l \in (PlacesOf(t) \cap (WorkPlaces \cup {LoopOf(t)})) : Moves(t, l)
<1> USE DEF StartInv
<1>1. t \in Threads /\ (t = Main \/ t \in Pool)
  BY DEF Servers, Threads
<1>2. WorkPlaces \cup {LoopOf(t)} \subseteq PlacesOf(t)
  BY <1>1, KindsOfThreads DEF LoopOf, MainPlaces, PoolPlaces
<1>3. ASSUME NEW l \in WorkPlaces \cup {LoopOf(t)}, Go(t, l), UNCHANGED missed
      PROVE  \E k \in (PlacesOf(t) \cap (WorkPlaces \cup {LoopOf(t)})) : Moves(t, k)
  <2>1. missed' \subseteq Threads
    BY <1>3 DEF StartTypes
  <2>2. Moves(t, l)
    BY <1>1, <1>2, <1>3, <2>1, GoMoves
  <2> QED BY <1>2, <2>2
<1>4. CASE Perform(t)
  BY <1>4, <1>3 DEF Perform, WorkPlaces, calm, endVars
<1>5. CASE Answer(t)
  BY <1>5, <1>3 DEF Answer, WorkPlaces, calm, endVars
<1>6. CASE SetDone(t)
  BY <1>6, <1>3 DEF SetDone, WorkPlaces, calm, endVars
<1>7. CASE Tell(t)
  <2>1. pc[t] \in WorkPlaces /\ NotifyAll(t, {holding[t].owner}, LoopOf(t))
        /\ UNCHANGED <<startVars, isTerminating>>
    BY <1>7 DEF Tell, WorkPlaces, endVars
  <2>2. {holding[t].owner} \in SUBSET Threads
    BY <2>1, HeldIsEvent, KindsOfThreads
  <2>3. Moves(t, LoopOf(t))
    BY <1>1, <1>2, <2>1, <2>2, NotifyAllMoves
  <2> QED BY <1>2, <2>1, <2>3
<1> QED BY <1>4, <1>5, <1>6, <1>7 DEF Serve

LEMMA ServeStepStart ==
    ASSUME StartInv, WorkInv, NEW t \in Servers, Serve(t) PROVE StartInv'
<1>1. PICK l \in (PlacesOf(t) \cap (WorkPlaces \cup {LoopOf(t)})) : Moves(t, l)
  BY ServeMoves
<1>2. /\ t \in Threads
      /\ pc[t] \in WorkPlaces /\ UNCHANGED <<startVars, isTerminating>>
      /\ l \in WorkPlaces \cup {"ask", "loop"}
  BY ServeMoves DEF Servers, Threads, LoopOf
<1> QED BY <1>1, <1>2, CalmStep DEF WorkPlaces, Unstarted, StartPlaces, EndPlaces

PoolActs(t) == Ask(t) \/ Pop(t) \/ TestWork(t) \/ PopAgain(t) \/ Check(t)

LEMMA PoolMoves ==
    ASSUME StartInv, NEW t \in Pool, PoolActs(t)
    PROVE  /\ UNCHANGED <<startVars, isTerminating>>
           /\ pc[t] \notin Unstarted \cup {"ended"}
           /\ \E l \in PoolPlaces \ Unstarted : Moves(t, l)
<1> USE DEF StartInv
<1>1. t \in Threads /\ PlacesOf(t) = PoolPlaces
  BY KindsOfThreads
<1>2. ASSUME NEW l \in {"ask", "check", "pop", "test", "popAgain", "blocks", "ended", "work"},
             Go(t, l), UNCHANGED missed
      PROVE  \E k \in PoolPlaces \ Unstarted : Moves(t, k)
  <2>1. l \in PoolPlaces \ Unstarted
    BY DEF PoolPlaces, WorkPlaces, Unstarted
  <2>2. missed' \subseteq Threads
    BY <1>2 DEF StartTypes
  <2>3. Moves(t, l)
    BY <1>1, <1>2, <2>1, <2>2, GoMoves
  <2> QED BY <2>1, <2>3
<1>3. CASE Ask(t)
  BY <1>3, <1>2 DEF Ask, Step, work, Unstarted, endVars
<1>4. CASE Pop(t)
  BY <1>4, <1>2 DEF Pop, Take, calm, Unstarted, endVars
<1>5. CASE TestWork(t)
  BY <1>5, <1>2 DEF TestWork, Step, work, Unstarted, endVars
<1>6. CASE PopAgain(t)
  BY <1>6, <1>2 DEF PopAgain, Take, calm, Unstarted, endVars
<1>7. CASE Check(t)
  BY <1>7, <1>2 DEF Check, calm, Unstarted, endVars
<1> QED BY <1>3, <1>4, <1>5, <1>6, <1>7 DEF PoolActs

LEMMA PoolStepStart == ASSUME StartInv, NEW t \in Pool, PoolActs(t) PROVE StartInv'
<1>1. PICK l \in PoolPlaces \ Unstarted : Moves(t, l)
  BY PoolMoves
<1>2. t \in Threads /\ t # Main /\ l \in PlacesOf(t)
  BY KindsOfThreads
<1> QED BY <1>1, <1>2, PoolMoves, CalmStep

(* The main thread outside of constructors and of its work.                 *)
Joins == \E w \in Workers : JoinWorker(w)
MainActs == Quit \/ WorkersEnded \/ NotifyPool \/ JoinPool

LEMMA MainMoves ==
    ASSUME StartInv, MainActs
    PROVE  /\ UNCHANGED startVars /\ isTerminating' \in {isTerminating, TRUE}
           /\ pc[Main] \in {"loop"} \cup EndPlaces
           /\ \E l \in EndPlaces : Moves(Main, l) /\ isTerminating'
<1> USE DEF StartInv
<1>1. Main \in Threads /\ EndPlaces \subseteq PlacesOf(Main) /\ Main \notin Pool
  BY KindsOfThreads DEF MainPlaces
<1>2. ASSUME NEW l \in EndPlaces, Go(Main, l), UNCHANGED missed PROVE Moves(Main, l)
  BY <1>1, <1>2, GoMoves DEF StartTypes
<1>3. CASE Quit
  BY <1>3, <1>2 DEF Quit, EndPlaces
<1>4. CASE WorkersEnded
  BY <1>4, <1>2 DEF WorkersEnded, Step, work, EndPlaces, FlagsAgree, endVars
<1>5. CASE JoinPool
  BY <1>5, <1>2 DEF JoinPool, Step, work, EndPlaces, FlagsAgree, endVars
<1>6. CASE NotifyPool
  <2>1. pc[Main] = "stop" /\ NotifyAll(Main, Pool, "join") /\ UNCHANGED data
    BY <1>6 DEF NotifyPool, Tells
  <2>2. "join" \in PlacesOf(Main) /\ Pool \in SUBSET Threads
    BY <1>1 DEF EndPlaces, Threads
  <2>3. Moves(Main, "join")
    BY <1>1, <2>1, <2>2, NotifyAllMoves
  <2> QED BY <2>1, <2>3 DEF data, EndPlaces, FlagsAgree, endVars
<1> QED BY <1>3, <1>4, <1>5, <1>6 DEF MainActs

LEMMA JoinsMoves ==
    ASSUME StartInv, Joins
    PROVE  /\ UNCHANGED <<startVars, isTerminating, eventVars, queueVars>>
           /\ pc[Main] \in {"loop", "endWorkers"} /\ Moves(Main, "joinWorker")
<1>1. /\ UNCHANGED <<startVars, isTerminating, eventVars, queueVars, missed>>
      /\ pc[Main] \in {"loop", "endWorkers"} /\ Go(Main, "joinWorker")
  BY DEF Joins, JoinWorker
<1>2. Main \in Threads /\ "joinWorker" \in PlacesOf(Main)
  BY KindsOfThreads DEF MainPlaces
<1>3. missed' \subseteq Threads
  BY <1>1 DEF StartInv, StartTypes
<1> QED BY <1>1, <1>2, <1>3, GoMoves DEF StartInv

LEMMA MainStepStart == StartInv /\ (MainActs \/ Joins \/ MainPop) => StartInv'
<1> SUFFICES ASSUME StartInv, MainActs \/ Joins \/ MainPop PROVE StartInv'
  OBVIOUS
<1>0. CASE Joins
  <2>1. /\ UNCHANGED <<startVars, isTerminating, eventVars, queueVars>>
        /\ pc[Main] \in {"loop", "endWorkers"} /\ Moves(Main, "joinWorker")
    BY <1>0, JoinsMoves
  <2>2. Main \in Threads /\ "joinWorker" \in PlacesOf(Main)
    BY KindsOfThreads DEF MainPlaces
  <2> QED BY <2>1, <2>2, CalmStep DEF Unstarted, StartPlaces, EndPlaces
<1>1. CASE MainActs
  <2>1. PICK l \in EndPlaces : Moves(Main, l) /\ isTerminating'
    BY <1>1, MainMoves
  <2>2. Main \in Threads /\ l \in PlacesOf(Main)
    BY KindsOfThreads DEF MainPlaces
  <2>3. /\ l \notin StartPlaces \cup Unstarted
        /\ pc[Main] \notin StartPlaces \cup Unstarted \cup {"ended"}
    BY <1>1, MainMoves DEF EndPlaces, StartPlaces, Unstarted
  <2> QED BY <1>1, <2>1, <2>2, <2>3, MainMoves, CalmStep
<1>2. CASE MainPop /\ UNCHANGED pc
  BY <1>2, StillStep DEF MainPop
<1>3. CASE MainPop /\ Go(Main, "work")
  <2>1. Main \in Threads /\ "work" \in PlacesOf(Main)
    BY KindsOfThreads DEF MainPlaces, WorkPlaces
  <2>2. pc[Main] = "loop" /\ UNCHANGED calm
    BY <1>3 DEF MainPop
  <2>3. Moves(Main, "work")
    BY <1>3, <2>1, <2>2, GoMoves DEF calm, StartInv, StartTypes, endVars
  <2> QED BY <2>1, <2>2, <2>3, CalmStep DEF calm, Unstarted, StartPlaces, EndPlaces, endVars
<1> QED BY <1>0, <1>1, <1>2, <1>3 DEF MainPop

-----------------------------------------------------------------------------
(* The events: steps that touch none of them.                               *)

LEMMA EventFields ==
    \A e \in Events : /\ e.owner \in Workers /\ e.owner \in Threads /\ e # None
                      /\ e.nr \in Nat /\ e.nr <= MaxPosts
BY KindsOfThreads, NoneAssumption, BoundsAssumption DEF Events

LEMMA QueuedEvents ==
    ASSUME WorkInv
    PROVE  /\ \A i \in DOMAIN asyncQueue : asyncQueue[i].event \in Events
           /\ \A i \in DOMAIN mainQueue : mainQueue[i] \in Events
           /\ \A t \in Servers : holding[t] # None => holding[t] \in Events
           /\ InAsync \subseteq Events /\ InMain \subseteq Events
           /\ Waiting \subseteq Events /\ Answered \subseteq Events
<1> USE DEF WorkInv, WorkTypes
<1>1. \A i \in DOMAIN asyncQueue : asyncQueue[i] \in Entry
  OBVIOUS
<1>2. \A i \in DOMAIN asyncQueue : asyncQueue[i].event \in Events
  BY <1>1 DEF Entry
<1>3. \A i \in DOMAIN mainQueue : mainQueue[i] \in Events
  OBVIOUS
<1>4. \A w \in Workers : \A i \in DOMAIN inbox[w] : inbox[w][i] \in Events
  OBVIOUS
<1>5. \A t \in Servers : holding[t] # None => holding[t] \in Events
  OBVIOUS
<1>6. Answered \subseteq Events
  BY <1>4 DEF Answered, Range
<1> QED BY <1>2, <1>3, <1>5, <1>6 DEF Waiting, InAsync, InMain

LEMMA QuietStep ==
    ASSUME WorkInv, UNCHANGED <<eventVars, queueVars>>,
           \A x \in Threads : \/ pc'[x] = pc[x]
                              \/ (/\ pc[x] \notin WorkPlaces \cup {"ended"}
                                  /\ pc[x] = "check" => x \in Servers /\ holding[x] = None
                                  /\ pc'[x] \notin WorkPlaces)
    PROVE  WorkInv'
<1> USE DEF WorkInv, eventVars, queueVars
<1>1. WorkTypes'
  BY DEF WorkTypes
<1>2. Waiting' = Waiting /\ Answered' = Answered /\ InAsync' = InAsync /\ InMain' = InMain
  BY DEF Waiting, InAsync, InMain, Answered
<1>3. OnePlace' /\ Numbered' /\ ToldWorked'
  BY <1>2 DEF OnePlace, Numbered, ToldWorked
<1>4. \A e \in Events : Alive(e) => Alive(e)'
  BY EventFields DEF Alive, Ended
<1>5. WaitingIsNew'
  BY <1>2, <1>4, QueuedEvents DEF WaitingIsNew
<1>6. HeldSound'
  <2> SUFFICES ASSUME NEW t \in Servers
               PROVE  /\ pc'[t] \in WorkPlaces => holding[t] # None
                      /\ pc'[t] \notin WorkPlaces \cup {"check"} => holding[t] = None
                      /\ \A e \in Events : holding[t] = e =>
                            /\ pc'[t] # "tell" => Alive(e)' /\ e \notin done \cup Answered
                            /\ pc'[t] \in {"check", "work"} => e \notin worked
                            /\ pc'[t] \in {"answer", "setDone"} => e \in worked
    BY <1>2 DEF HeldSound
  <2>1. t \in Threads /\ (pc[t] \notin WorkPlaces \cup {"check"} => holding[t] = None)
    BY DEF Servers, Threads, HeldSound
  <2>2. CASE pc'[t] = pc[t]
    BY <1>4, <2>1, <2>2 DEF HeldSound
  <2>3. CASE /\ pc[t] \notin WorkPlaces \cup {"ended"} /\ pc'[t] \notin WorkPlaces
             /\ pc[t] = "check" => holding[t] = None
    BY <2>1, <2>3, EventFields DEF WorkPlaces
  <2> QED BY <2>1, <2>2, <2>3
<1> QED BY <1>1, <1>3, <1>5, <1>6

LEMMA QuietMove ==
    ASSUME WorkInv, UNCHANGED <<eventVars, queueVars>>, NEW t \in Threads, NEW l, Moves(t, l),
           pc[t] \notin WorkPlaces \cup {"check", "ended"}, l \notin WorkPlaces
    PROVE  WorkInv'
<1>1. \A x \in Threads : \/ pc'[x] = pc[x]
                         \/ (/\ pc[x] \notin WorkPlaces \cup {"check", "ended"}
                             /\ pc'[x] \notin WorkPlaces)
  BY DEF Moves, WorkPlaces
<1> QED BY <1>1, QuietStep

LEMMA ConstructorStepWork ==
    ASSUME IInv,
           \/ \E t \in Pool \cup Workers : \E l \in {"spawn", "loop"} : Start(t, l)
           \/ \E t \in Pool \cup Workers : Enter(t) \/ SetRunning(t) \/ Announce(t)
           \/ InitRunning \/ InitQueue \/ TestStarted
           \/ \E t \in Threads : Block(t) \/ SpuriousWakeup(t)
           \/ \E t \in Pool : StopThread(t)
           \/ MainActs \/ Joins
    PROVE  WorkInv'
<1> USE DEF IInv, StartInv
<1>1. ASSUME NEW t \in Pool \cup Workers, NEW l \in {"spawn", "loop"}, Start(t, l)
      PROVE  WorkInv'
  <2>1. UNCHANGED <<eventVars, queueVars>>
    BY <1>1 DEF Start, work, endVars
  <2>2. \A x \in Threads : \/ pc'[x] = pc[x]
                           \/ (/\ pc[x] \in {"none", "spawn", "loop"}
                               /\ pc'[x] \in {"init", "born"})
    BY <1>1 DEF Start, StartTypes
  <2>3. \A x \in Threads : \/ pc'[x] = pc[x]
                           \/ (/\ pc[x] \notin WorkPlaces \cup {"check", "ended"}
                               /\ pc'[x] \notin WorkPlaces)
    BY <2>2 DEF WorkPlaces
  <2> QED BY <2>1, <2>3, QuietStep
<1>2. ASSUME NEW t \in Pool \cup Workers, Enter(t) \/ SetRunning(t)
      PROVE  WorkInv'
  <2>1. UNCHANGED <<eventVars, queueVars>>
    BY <1>2 DEF Enter, SetRunning, work, endVars
  <2>2. \A x \in Threads : \/ pc'[x] = pc[x]
                           \/ (pc[x] \in {"born", "enter"} /\ pc'[x] \in {"enter", "announce"})
    BY <1>2 DEF Enter, SetRunning, Go, StartTypes
  <2>3. \A x \in Threads : \/ pc'[x] = pc[x]
                           \/ (/\ pc[x] \notin WorkPlaces \cup {"check", "ended"}
                               /\ pc'[x] \notin WorkPlaces)
    BY <2>2 DEF WorkPlaces
  <2> QED BY <2>1, <2>3, QuietStep
<1>3. ASSUME NEW t \in Pool \cup Workers, Announce(t)
      PROVE  WorkInv'
  <2>1. UNCHANGED <<eventVars, queueVars>> /\ pc[t] = "announce"
    BY <1>3 DEF Announce, Tells, data, endVars
  <2>2. \A x \in Threads : \/ pc'[x] = pc[x]
                           \/ (/\ pc[x] \in {"announce", "sleeps"}
                               /\ pc'[x] \in {"ask", "free", "test"})
    BY <1>3 DEF Announce, Tells, NotifyAll, Wakes, BodyOf
  <2>3. \A x \in Threads : \/ pc'[x] = pc[x]
                           \/ (/\ pc[x] \notin WorkPlaces \cup {"check", "ended"}
                               /\ pc'[x] \notin WorkPlaces)
    BY <2>2 DEF WorkPlaces
  <2> QED BY <2>1, <2>3, QuietStep
<1>4. CASE InitRunning \/ InitQueue \/ TestStarted
  <2>1. UNCHANGED <<eventVars, queueVars>>
    BY <1>4 DEF InitRunning, InitQueue, TestStarted, work, endVars
  <2>2. \A x \in Threads : \/ pc'[x] = pc[x]
                           \/ (/\ pc[x] \in {"init", "initQueue", "test"}
                               /\ pc'[x] \in {"initQueue", "test", "blocks", "spawn", "loop"})
    BY <1>4 DEF InitRunning, InitQueue, TestStarted, Go, StartTypes
  <2>3. \A x \in Threads : \/ pc'[x] = pc[x]
                           \/ (/\ pc[x] \notin WorkPlaces \cup {"check", "ended"}
                               /\ pc'[x] \notin WorkPlaces)
    BY <2>2 DEF WorkPlaces
  <2> QED BY <2>1, <2>3, QuietStep
<1>5. ASSUME NEW t \in Threads, Block(t) \/ SpuriousWakeup(t)
      PROVE  WorkInv'
  <2>1. UNCHANGED <<eventVars, queueVars>>
    BY <1>5 DEF Block, SpuriousWakeup, Step, work, data, endVars
  <2>2. \A x \in Threads : \/ pc'[x] = pc[x]
                           \/ (pc[x] \in {"blocks", "sleeps"} /\ pc'[x] \in {"sleeps", "test"})
    BY <1>5 DEF Block, SpuriousWakeup, Step, Go, StartTypes
  <2>3. \A x \in Threads : \/ pc'[x] = pc[x]
                           \/ (/\ pc[x] \notin WorkPlaces \cup {"check", "ended"}
                               /\ pc'[x] \notin WorkPlaces)
    BY <2>2 DEF WorkPlaces
  <2> QED BY <2>1, <2>3, QuietStep
<1>6. ASSUME NEW t \in Pool, StopThread(t)
      PROVE  WorkInv'
  BY <1>6, QuietStep DEF StopThread, work, endVars
<1>7. CASE MainActs
  <2>1. UNCHANGED <<eventVars, queueVars>>
    BY <1>7 DEF MainActs, Quit, WorkersEnded, NotifyPool, JoinPool, Step, Tells, work, data, endVars
  <2>2. Main \in Threads
    BY KindsOfThreads
  <2> QED BY <1>7, <2>1, <2>2, MainMoves, QuietMove DEF WorkPlaces, EndPlaces
<1>8. CASE Joins
  <2>1. Main \in Threads
    BY KindsOfThreads
  <2> QED BY <1>8, <2>1, JoinsMoves, QuietMove DEF WorkPlaces
<1> QED BY <1>1, <1>2, <1>3, <1>4, <1>5, <1>6, <1>7, <1>8

-----------------------------------------------------------------------------
(* The events: what a worker does to them.                                  *)

(* A new event is in no place yet. *)
LEMMA NewIsNew ==
    ASSUME WorkInv, NEW w \in Workers, NEW kind \in {"async", "blocking"}, posted[w] < MaxPosts
    PROVE  LET e == NewEvent(w, kind)
           IN  /\ e \in Events /\ e.owner = w /\ e.nr = posted[w] + 1
               /\ e \notin worked /\ e \notin done /\ e \notin Waiting /\ e \notin Answered
               /\ \A t \in Servers : holding[t] # e
<1> DEFINE e == NewEvent(w, kind)
<1>1. posted[w] \in 0 .. MaxPosts
  BY DEF WorkInv, WorkTypes
<1>2. posted[w] + 1 \in 1 .. MaxPosts /\ ~ (posted[w] + 1 <= posted[w])
  BY <1>1, BoundsAssumption
<1>3. e = [owner |-> w, nr |-> posted[w] + 1, kind |-> kind]
  BY DEF NewEvent
<1>4. e \in Events /\ e.owner = w /\ e.nr = posted[w] + 1
  BY <1>2, <1>3 DEF Events
<1>5. ~ (e.nr <= posted[e.owner])
  BY <1>2, <1>4
<1> HIDE DEF e
<1>6. e \notin worked /\ e \notin InAsync /\ e \notin InMain
  BY <1>5 DEF WorkInv, Numbered, InAsync, InMain
<1>7. \A t \in Servers : holding[t] # e
  BY <1>4, <1>5, EventFields DEF WorkInv, Numbered
<1>8. e \notin done /\ e \notin Answered
  BY <1>4, <1>6 DEF WorkInv, ToldWorked
<1> QED BY <1>4, <1>6, <1>7, <1>8 DEF e, Waiting

(* While a worker moves, the threads that serve stay where they are.        *)
LEMMA WorkerGoes ==
    ASSUME StartTypes, NEW w \in Workers, NEW l, Go(w, l), pc[w] # "ended"
    PROVE  /\ \A t \in Servers : pc'[t] = pc[t]
           /\ \A v \in Workers : Ended(v) => Ended(v)'
<1>1. \A t \in Servers : t \in Threads /\ t # w
  BY KindsOfThreads DEF Servers
<1>2. w \in Threads /\ \A v \in Workers : v \in Threads
  BY KindsOfThreads
<1> QED BY <1>1, <1>2 DEF StartTypes, Go, Ended

(* Work is added to one of the two queues. *)
Adds(w, e) ==
    /\ posted' = [posted EXCEPT ![w] = @ + 1]
    /\ live \subseteq live' /\ live' \subseteq live \cup {e}
    /\ UNCHANGED <<inbox, done, worked, holding>>
    /\ \A t \in Servers : pc'[t] = pc[t]
    /\ \A v \in Workers : Ended(v) => Ended(v)'
    /\ \/ UNCHANGED <<asyncQueue, mainQueue>>
       \/ /\ asyncQueue' = Append(asyncQueue, [event |-> e, ready |-> FALSE])
          /\ Len(asyncQueue) < Capacity
          /\ mainQueue' = mainQueue /\ e \in live'
       \/ /\ mainQueue' = Append(mainQueue, e)
          /\ Len(mainQueue) < Capacity
          /\ asyncQueue' = asyncQueue /\ e \in live'

LEMMA AppendTo ==
    ASSUME NEW S, NEW q \in Seq(S), NEW x \in S
    PROVE  /\ Append(q, x) \in Seq(S) /\ Len(Append(q, x)) = Len(q) + 1
           /\ \A i \in DOMAIN q : i \in DOMAIN Append(q, x) /\ Append(q, x)[i] = q[i]
           /\ \A i \in DOMAIN Append(q, x) :
                  i \in DOMAIN q \/ (i = Len(q) + 1 /\ Append(q, x)[i] = x)
OBVIOUS

LEMMA AddsWork ==
    ASSUME IInv, NEW w \in Workers, NEW kind \in {"async", "blocking"},
           posted[w] < MaxPosts, Adds(w, NewEvent(w, kind))
    PROVE  WorkInv'
<1>1. PICK e : /\ Adds(w, e)
               /\ e \in Events /\ e.owner = w /\ e.nr = posted[w] + 1
               /\ e \notin worked /\ e \notin done /\ e \notin Waiting /\ e \notin Answered
               /\ \A t \in Servers : holding[t] # e
  BY NewIsNew DEF IInv
<1>2. WorkInv /\ StartTypes
  BY DEF IInv, StartInv
<1>3. PICK x : x = [event |-> e, ready |-> FALSE]
  OBVIOUS
<1>4. x \in Entry /\ x.event = e
  BY <1>1, <1>3 DEF Entry
<1>5. /\ posted' \in [Workers -> 0 .. MaxPosts]
      /\ \A v \in Workers : posted'[v] \in Nat /\ posted[v] \in Nat /\ posted[v] <= posted'[v]
      /\ posted'[w] = posted[w] + 1
  BY <1>1, <1>2, BoundsAssumption DEF WorkInv, WorkTypes, Adds
<1>6. /\ live' \subseteq live \cup {e}
      /\ live \subseteq live'
      /\ UNCHANGED <<inbox, done, worked, holding>>
      /\ \A t \in Servers : pc'[t] = pc[t]
      /\ \A d \in Events : Alive(d) => Alive(d)'
  BY <1>1, EventFields DEF Adds, Alive
<1>7. /\ asyncQueue' = asyncQueue \/ (asyncQueue' = Append(asyncQueue, x) /\ Len(asyncQueue) < Capacity)
      /\ mainQueue' = mainQueue \/ (mainQueue' = Append(mainQueue, e) /\ Len(mainQueue) < Capacity)
      /\ asyncQueue' = asyncQueue \/ mainQueue' = mainQueue
      /\ e \in live' \/ (asyncQueue' = asyncQueue /\ mainQueue' = mainQueue)
  BY <1>1, <1>3 DEF Adds
<1>8. /\ asyncQueue' \in Seq(Entry) /\ Len(asyncQueue') <= Capacity
      /\ \A i \in DOMAIN asyncQueue : i \in DOMAIN asyncQueue' /\ asyncQueue'[i] = asyncQueue[i]
      /\ \A i \in DOMAIN asyncQueue' :
            i \in DOMAIN asyncQueue \/ (i = Len(asyncQueue) + 1 /\ asyncQueue'[i] = x)
  <2>1. asyncQueue \in Seq(Entry) /\ Len(asyncQueue) <= Capacity
    BY <1>2 DEF WorkInv, WorkTypes
  <2>2. CASE asyncQueue' = asyncQueue
    BY <2>1, <2>2
  <2>3. CASE asyncQueue' = Append(asyncQueue, x) /\ Len(asyncQueue) < Capacity
    <3>1. Len(asyncQueue) + 1 <= Capacity
      BY <2>1, <2>3, BoundsAssumption
    <3> QED BY <1>4, <2>1, <2>3, <3>1, AppendTo
  <2> QED BY <1>7, <2>2, <2>3
<1>9. /\ mainQueue' \in Seq(Events) /\ Len(mainQueue') <= Capacity
      /\ \A i \in DOMAIN mainQueue : i \in DOMAIN mainQueue' /\ mainQueue'[i] = mainQueue[i]
      /\ \A i \in DOMAIN mainQueue' :
            i \in DOMAIN mainQueue \/ (i = Len(mainQueue) + 1 /\ mainQueue'[i] = e)
  <2>1. mainQueue \in Seq(Events) /\ Len(mainQueue) <= Capacity
    BY <1>2 DEF WorkInv, WorkTypes
  <2>2. CASE mainQueue' = mainQueue
    BY <2>1, <2>2
  <2>3. CASE mainQueue' = Append(mainQueue, e) /\ Len(mainQueue) < Capacity
    <3>1. Len(mainQueue) + 1 <= Capacity
      BY <2>1, <2>3, BoundsAssumption
    <3> QED BY <1>1, <2>1, <2>3, <3>1, AppendTo
  <2> QED BY <1>7, <2>2, <2>3
<1>10. /\ \A d \in InAsync' : d \in InAsync \/ d = e
       /\ \A d \in InMain' : d \in InMain \/ d = e
       /\ \A d \in Waiting' : d \in Waiting \/ (d = e /\ e \in live')
       /\ ~ (e \in InAsync' /\ e \in InMain')
       /\ \A i, j \in DOMAIN asyncQueue' : asyncQueue'[i].event = asyncQueue'[j].event => i = j
       /\ \A i, j \in DOMAIN mainQueue' : mainQueue'[i] = mainQueue'[j] => i = j
  <2>1. e \notin InAsync /\ e \notin InMain
    BY <1>1 DEF Waiting
  <2>2. /\ \A d \in InAsync' : d \in InAsync \/ d = e
        /\ \A i, j \in DOMAIN asyncQueue' : asyncQueue'[i].event = asyncQueue'[j].event => i = j
    BY <1>2, <1>4, <1>8, <2>1 DEF InAsync, WorkInv, OnePlace
  <2>3. /\ \A d \in InMain' : d \in InMain \/ d = e
        /\ \A i, j \in DOMAIN mainQueue' : mainQueue'[i] = mainQueue'[j] => i = j
    BY <1>2, <1>9, <2>1 DEF InMain, WorkInv, OnePlace
  <2>4. ~ (e \in InAsync' /\ e \in InMain')
    BY <1>7, <2>1 DEF InAsync, InMain
  <2>5. (e \in InAsync' \/ e \in InMain') => e \in live'
    BY <1>7, <2>1 DEF InAsync, InMain
  <2>6. \A d \in Waiting' : d \in Waiting \/ (d = e /\ e \in live')
    BY <2>2, <2>3, <2>5 DEF Waiting
  <2> QED BY <2>2, <2>3, <2>4, <2>6
<1>11. WorkTypes'
  BY <1>1, <1>2, <1>5, <1>6, <1>8, <1>9 DEF WorkInv, WorkTypes
<1>12. OnePlace'
  <2>1. ASSUME NEW d \in InAsync', d \in InMain' PROVE FALSE
    <3>1. d \in InAsync \/ d = e
      BY <1>10
    <3>2. d \in InMain \/ d = e
      BY <2>1, <1>10
    <3> QED BY <1>2, <1>10, <2>1, <3>1, <3>2 DEF WorkInv, OnePlace
  <2>2. \A t \in Servers : holding'[t] \notin Waiting'
    BY <1>1, <1>2, <1>6, <1>10 DEF WorkInv, OnePlace
  <2> QED BY <1>2, <1>6, <1>10, <2>1, <2>2 DEF WorkInv, OnePlace
<1>13. Numbered'
  <2>1. \A d \in Events : d.nr <= posted[d.owner] => d.nr <= posted'[d.owner]
    BY <1>5, EventFields
  <2>2. e.nr <= posted'[e.owner]
    BY <1>1, <1>5
  <2>3. \A i \in DOMAIN asyncQueue' :
            asyncQueue'[i].event.nr <= posted'[asyncQueue'[i].event.owner]
    BY <1>2, <1>4, <1>8, <2>1, <2>2, QueuedEvents DEF WorkInv, Numbered
  <2>4. \A i \in DOMAIN mainQueue' : mainQueue'[i].nr <= posted'[mainQueue'[i].owner]
    BY <1>2, <1>9, <2>1, <2>2, QueuedEvents DEF WorkInv, Numbered
  <2>5. \A d \in worked : d \in Events
    BY <1>2 DEF WorkInv, WorkTypes
  <2> QED BY <1>2, <1>6, <2>1, <2>3, <2>4, <2>5, QueuedEvents DEF WorkInv, Numbered
<1>14. WaitingIsNew'
  <2> SUFFICES ASSUME NEW d \in Waiting'
               PROVE  d \notin worked' /\ Alive(d)'
    BY DEF WaitingIsNew
  <2> QED BY <1>1, <1>2, <1>6, <1>10, QueuedEvents DEF WorkInv, WaitingIsNew, Alive
<1>15. Answered' = Answered
  BY <1>6 DEF Answered
<1>16. HeldSound' /\ ToldWorked'
  BY <1>2, <1>6, <1>15, QueuedEvents DEF WorkInv, HeldSound, ToldWorked
<1> QED BY <1>11, <1>12, <1>13, <1>14, <1>16 DEF WorkInv

(* Where the main thread has no event in hand, when a worker ends.          *)
IdlePlaces == {"loop", "joinWorker", "endWorkers"}

(* Events are deleted: those whose worker has been told, or has ended.      *)
Deletes == /\ UNCHANGED <<posted, done, worked, queueVars>>
           /\ inbox' \in [Workers -> Seq(Events)] /\ Answered' \subseteq Answered
           /\ live' \subseteq live
           /\ \A t \in Servers : pc'[t] = pc[t] \/ {pc[t], pc'[t]} \subseteq IdlePlaces
           /\ \A v \in Workers : Ended(v) => Ended(v)'
           /\ \A e \in live \ live' : e \in done \cup Answered \/ Ended(e.owner)'

LEMMA DeletesWork == WorkInv /\ Deletes => WorkInv'
<1> SUFFICES ASSUME WorkInv, Deletes PROVE WorkInv'
  OBVIOUS
<1> USE DEF WorkInv
<1>1. WorkTypes'
  BY DEF WorkTypes, Deletes, queueVars
<1>2. Waiting' = Waiting /\ InAsync' = InAsync /\ InMain' = InMain
  BY DEF Waiting, InAsync, InMain, Deletes, queueVars
<1>3. OnePlace' /\ Numbered' /\ ToldWorked'
  BY <1>2 DEF OnePlace, Numbered, ToldWorked, Deletes, queueVars
<1>4. \A e \in Events : Alive(e) /\ e \notin done \cup Answered => Alive(e)'
  BY EventFields DEF Alive, Deletes
<1>5. WaitingIsNew'
  BY <1>2, <1>4, QueuedEvents DEF WaitingIsNew, ToldWorked, Deletes
<1>6. HeldSound'
  <2>1. /\ UNCHANGED <<done, worked, holding>> /\ Answered' \subseteq Answered
        /\ \A t \in Servers : pc'[t] = pc[t] \/ {pc[t], pc'[t]} \subseteq IdlePlaces
    BY DEF Deletes, queueVars
  <2>2. \A t \in Servers : pc[t] \in IdlePlaces => holding[t] = None
    BY DEF HeldSound, WorkPlaces, IdlePlaces
  <2> SUFFICES ASSUME NEW t \in Servers
               PROVE  /\ pc'[t] \in WorkPlaces => holding[t] # None
                      /\ pc'[t] \notin WorkPlaces \cup {"check"} => holding[t] = None
                      /\ \A e \in Events : holding[t] = e =>
                            /\ pc'[t] # "tell" => Alive(e)' /\ e \notin done \cup Answered'
                            /\ pc'[t] \in {"check", "work"} => e \notin worked
                            /\ pc'[t] \in {"answer", "setDone"} => e \in worked
    BY <2>1 DEF HeldSound
  <2>3. CASE pc'[t] = pc[t]
    BY <1>4, <2>1, <2>3 DEF HeldSound
  <2>4. CASE {pc[t], pc'[t]} \subseteq IdlePlaces
    BY <2>2, <2>4, EventFields DEF WorkPlaces, IdlePlaces
  <2> QED BY <2>1, <2>3, <2>4
<1> QED BY <1>1, <1>3, <1>5, <1>6

LEMMA PublishWork ==
    ASSUME IInv, NEW w \in Workers, Publish(w) PROVE WorkInv'
<1> USE DEF IInv, StartInv, WorkInv
<1>1. asyncQueue \in Seq(Entry) /\ Len(asyncQueue) <= Capacity
  BY DEF WorkTypes
<1>2. ASSUME NEW i \in DOMAIN asyncQueue
      PROVE  asyncQueue'[i] \in Entry /\ asyncQueue'[i].event = asyncQueue[i].event
  <2>1. asyncQueue[i] \in Entry
    BY <1>1
  <2>2. /\ [asyncQueue[i] EXCEPT !.ready = TRUE] \in Entry
        /\ [asyncQueue[i] EXCEPT !.ready = TRUE].event = asyncQueue[i].event
    BY <2>1 DEF Entry
  <2>3. asyncQueue'[i] \in {asyncQueue[i], [asyncQueue[i] EXCEPT !.ready = TRUE]}
    BY DEF Publish
  <2> QED BY <2>1, <2>2, <2>3
<1>3. DOMAIN asyncQueue' = DOMAIN asyncQueue
  BY DEF Publish
<1>4. asyncQueue' \in Seq(Entry) /\ Len(asyncQueue') = Len(asyncQueue)
  <2>1. DOMAIN asyncQueue = 1 .. Len(asyncQueue) /\ Len(asyncQueue) \in Nat
    BY <1>1
  <2>2. asyncQueue' = [i \in 1 .. Len(asyncQueue) |-> asyncQueue'[i]]
    BY <2>1 DEF Publish
  <2>3. \A i \in 1 .. Len(asyncQueue) : asyncQueue'[i] \in Entry
    BY <1>2, <2>1
  <2>4. asyncQueue' \in [1 .. Len(asyncQueue) -> Entry]
    BY <2>2, <2>3
  <2> QED BY <2>1, <2>4
<1>5. /\ UNCHANGED <<eventVars, mainQueue, holding>>
      /\ \A t \in Servers : pc'[t] = pc[t]
      /\ \A v \in Workers : Ended(v) => Ended(v)'
  BY WorkerGoes DEF Publish
<1>6. WorkTypes'
  BY <1>1, <1>4, <1>5 DEF WorkTypes, eventVars
<1>7. InAsync' = InAsync /\ InMain' = InMain /\ Waiting' = Waiting /\ Answered' = Answered
  BY <1>2, <1>3, <1>5 DEF InAsync, InMain, Waiting, Answered, eventVars
<1>8. OnePlace' /\ Numbered' /\ ToldWorked'
  BY <1>2, <1>3, <1>5, <1>7 DEF OnePlace, Numbered, ToldWorked, eventVars
<1>9. \A e \in Events : Alive(e) => Alive(e)'
  BY <1>5, EventFields DEF Alive, eventVars
<1>10. WaitingIsNew' /\ HeldSound'
  BY <1>5, <1>7, <1>9, QueuedEvents DEF WaitingIsNew, HeldSound, eventVars
<1> QED BY <1>6, <1>8, <1>10

LEMMA WorkerStepWork ==
    ASSUME IInv, NEW w \in Workers, WorkerActs(w) PROVE WorkInv'
<1> USE DEF IInv, StartInv
<1>1. CASE PostToMain(w)
  <2>1. \A t \in Servers : pc'[t] = pc[t]
    BY <1>1, WorkerGoes DEF PostToMain, Free
  <2>2. \A v \in Workers : Ended(v) => Ended(v)'
    BY <1>1, WorkerGoes DEF PostToMain, Free
  <2>3. posted[w] < MaxPosts /\ Adds(w, NewEvent(w, "blocking"))
    BY <1>1, <2>1, <2>2 DEF PostToMain, Creates, NewEvent, Adds
  <2> QED BY <2>3, AddsWork
<1>2. ASSUME NEW kind \in {"async", "blocking"}, PostToPool(w, kind)
      PROVE  WorkInv'
  <2>1. \A t \in Servers : pc'[t] = pc[t]
    BY <1>2, WorkerGoes DEF PostToPool, Free
  <2>2. \A v \in Workers : Ended(v) => Ended(v)'
    BY <1>2, WorkerGoes DEF PostToPool, Free
  <2>3. posted[w] < MaxPosts /\ Adds(w, NewEvent(w, kind))
    BY <1>2, <2>1, <2>2 DEF PostToPool, Creates, NewEvent, Adds
  <2> QED BY <2>3, AddsWork
<1>3. ASSUME NEW kind \in {"async", "blocking"}, Refused(w, kind)
      PROVE  WorkInv'
  <2>1. \A v \in Workers : Ended(v) => Ended(v)'
    BY <1>3 DEF Refused, Ended
  <2>2. posted[w] < MaxPosts /\ Adds(w, NewEvent(w, kind))
    BY <1>3, <2>1 DEF Refused, queueVars, Adds
  <2> QED BY <2>2, AddsWork
<1>4. CASE Publish(w)
  BY <1>4, PublishWork
<1>5. CASE Notify(w)
  <2>1. pc[w] = "notify" /\ UNCHANGED <<eventVars, queueVars>>
    BY <1>5 DEF Notify, data, endVars
  <2>2. AfterPost(w) \in {"test", "free"} /\ AfterPost(w) \in PlacesOf(w) /\ w \in Threads
    BY KindsOfThreads DEF AfterPost, WorkerPlaces
  <2>3. Pool \in SUBSET Threads /\ w \notin Pool
    BY KindsOfThreads
  <2>4. Moves(w, AfterPost(w))
    BY <1>5, <2>2, <2>3, NotifyOneMoves DEF Notify
  <2> QED BY <2>1, <2>2, <2>4, QuietMove DEF WorkPlaces
<1>6. CASE TestDone(w)
  <2>1. /\ \A t \in Servers : pc'[t] = pc[t]
        /\ \A v \in Workers : Ended(v) => Ended(v)'
    BY <1>6, WorkerGoes DEF TestDone
  <2>2. Answered' = Answered
    BY <1>6 DEF TestDone, Answered
  <2>3. Deletes
    BY <1>6, <2>1, <2>2 DEF TestDone, Deletes, WorkInv, WorkTypes, queueVars
  <2> QED BY <2>3, DeletesWork
<1>7. CASE Resolve(w)
  <2>1. inbox[w] \in Seq(Events) /\ inbox[w] # <<>>
    BY <1>7 DEF Resolve, WorkInv, WorkTypes
  <2>2. Head(inbox[w]) \in Range(inbox[w]) /\ Range(Tail(inbox[w])) \subseteq Range(inbox[w])
        /\ Tail(inbox[w]) \in Seq(Events)
    BY <2>1 DEF Range
  <2>3. Head(inbox[w]) \in Answered
    BY <2>2 DEF Answered
  <2>4. inbox' \in [Workers -> Seq(Events)]
    BY <1>7, <2>2 DEF Resolve, WorkInv, WorkTypes
  <2>5. \A v \in Workers : inbox'[v] = IF v = w THEN Tail(inbox[w]) ELSE inbox[v]
    BY <1>7 DEF Resolve, WorkInv, WorkTypes
  <2>6. Answered' \subseteq Answered
    BY <2>2, <2>5 DEF Answered
  <2>7. Deletes
    BY <1>7, <2>3, <2>4, <2>6 DEF Resolve, Deletes, Ended, queueVars
  <2> QED BY <2>7, DeletesWork
<1> QED BY <1>1, <1>2, <1>3, <1>4, <1>5, <1>6, <1>7 DEF WorkerActs, WorkerAsks

LEMMA EndStepWork == ASSUME IInv, NEW w \in Workers, EndWorker(w) PROVE WorkInv'
<1> USE DEF IInv, StartInv
<1>1. /\ pc[w] = "free" /\ pc[Main] = "joinWorker"
      /\ pc' = [pc EXCEPT ![w] = "ended",
                         ![Main] = IF isTerminating THEN "endWorkers" ELSE "loop"]
      /\ live' = {e \in live : e.owner # w}
      /\ UNCHANGED <<inbox, posted, done, worked, queueVars>>
  BY DEF EndWorker, Free
<1>2. w \in Threads /\ Main \in Threads /\ w # Main /\ \A v \in Workers : v \in Threads
  BY KindsOfThreads
<1>3. \A t \in Servers : pc'[t] = pc[t] \/ {pc[t], pc'[t]} \subseteq IdlePlaces
  <2>1. \A t \in Servers : t \in Threads /\ t # w
    BY KindsOfThreads DEF Servers
  <2> QED BY <1>1, <1>2, <2>1 DEF StartTypes, IdlePlaces
<1>4. Ended(w)' /\ \A v \in Workers : Ended(v) => Ended(v)'
  BY <1>1, <1>2, KindsOfThreads DEF StartTypes, Ended
<1>5. Answered' = Answered
  BY <1>1 DEF Answered
<1>6. \A e \in live \ live' : Ended(e.owner)'
  BY <1>1, <1>4 DEF Ended
<1>7. Deletes
  BY <1>1, <1>3, <1>4, <1>5, <1>6 DEF Deletes, WorkInv, WorkTypes, queueVars
<1> QED BY <1>7, DeletesWork

-----------------------------------------------------------------------------
(* The events: what the threads do that serve.                              *)

LEMMA TailOf ==
    ASSUME NEW S, NEW q \in Seq(S), q # <<>>
    PROVE  /\ Tail(q) \in Seq(S) /\ Len(Tail(q)) <= Len(q)
           /\ \A i \in DOMAIN Tail(q) : i + 1 \in DOMAIN q /\ Tail(q)[i] = q[i + 1]
           /\ 1 \in DOMAIN q /\ Head(q) = q[1] /\ \A i \in DOMAIN Tail(q) : i + 1 # 1
OBVIOUS

(* The oldest entry of one queue goes, and nothing else in the queues.      *)
Shrinks == \/ asyncQueue # <<>> /\ asyncQueue' = Tail(asyncQueue) /\ mainQueue' = mainQueue
           \/ mainQueue # <<>> /\ mainQueue' = Tail(mainQueue) /\ asyncQueue' = asyncQueue

LEMMA ShrunkQueues ==
    ASSUME WorkInv, Shrinks, posted' = posted
    PROVE  /\ asyncQueue' \in Seq(Entry) /\ Len(asyncQueue') <= Capacity
           /\ mainQueue' \in Seq(Events) /\ Len(mainQueue') <= Capacity
           /\ InAsync' \subseteq InAsync /\ InMain' \subseteq InMain
           /\ \A i, j \in DOMAIN asyncQueue' :
                 asyncQueue'[i].event = asyncQueue'[j].event => i = j
           /\ \A i, j \in DOMAIN mainQueue' : mainQueue'[i] = mainQueue'[j] => i = j
           /\ \A i \in DOMAIN asyncQueue' :
                 asyncQueue'[i].event.nr <= posted'[asyncQueue'[i].event.owner]
           /\ \A i \in DOMAIN mainQueue' : mainQueue'[i].nr <= posted'[mainQueue'[i].owner]
<1> USE DEF WorkInv
<1>1. asyncQueue \in Seq(Entry) /\ Len(asyncQueue) <= Capacity
  BY DEF WorkTypes
<1>2. mainQueue \in Seq(Events) /\ Len(mainQueue) <= Capacity
  BY DEF WorkTypes
<1>3. \/ asyncQueue' = asyncQueue
      \/ /\ asyncQueue' \in Seq(Entry) /\ Len(asyncQueue') <= Len(asyncQueue)
         /\ \A i \in DOMAIN asyncQueue' :
               i + 1 \in DOMAIN asyncQueue /\ asyncQueue'[i] = asyncQueue[i + 1]
  BY <1>1, TailOf DEF Shrinks
<1>4. \/ mainQueue' = mainQueue
      \/ /\ mainQueue' \in Seq(Events) /\ Len(mainQueue') <= Len(mainQueue)
         /\ \A i \in DOMAIN mainQueue' :
               i + 1 \in DOMAIN mainQueue /\ mainQueue'[i] = mainQueue[i + 1]
  BY <1>2, TailOf DEF Shrinks
<1>5. /\ asyncQueue' \in Seq(Entry) /\ Len(asyncQueue') <= Capacity
      /\ mainQueue' \in Seq(Events) /\ Len(mainQueue') <= Capacity
  <2>1. \A q \in Seq(Entry) \cup Seq(Events) : Len(q) \in Nat
    OBVIOUS
  <2> QED BY <1>1, <1>2, <1>3, <1>4, <2>1, BoundsAssumption
<1>6. InAsync' \subseteq InAsync /\ InMain' \subseteq InMain
  BY <1>3, <1>4 DEF InAsync, InMain
<1>7. ASSUME NEW i \in DOMAIN asyncQueue', NEW j \in DOMAIN asyncQueue',
             asyncQueue'[i].event = asyncQueue'[j].event
      PROVE  i = j
  <2>1. i \in Nat /\ j \in Nat
    BY <1>5
  <2>2. \A k, l \in DOMAIN asyncQueue : asyncQueue[k].event = asyncQueue[l].event => k = l
    BY DEF OnePlace
  <2>3. CASE asyncQueue' = asyncQueue
    BY <1>7, <2>2, <2>3
  <2>4. CASE /\ i + 1 \in DOMAIN asyncQueue /\ asyncQueue'[i] = asyncQueue[i + 1]
             /\ j + 1 \in DOMAIN asyncQueue /\ asyncQueue'[j] = asyncQueue[j + 1]
    <3>1. i + 1 = j + 1
      BY <1>7, <2>2, <2>4
    <3> QED BY <2>1, <3>1
  <2> QED BY <1>3, <2>3, <2>4
<1>8. \A i, j \in DOMAIN mainQueue' : mainQueue'[i] = mainQueue'[j] => i = j
  BY <1>4, <1>5 DEF OnePlace
<1>9. /\ \A i \in DOMAIN asyncQueue' :
            asyncQueue'[i].event.nr <= posted'[asyncQueue'[i].event.owner]
      /\ \A i \in DOMAIN mainQueue' : mainQueue'[i].nr <= posted'[mainQueue'[i].owner]
  BY <1>3, <1>4 DEF Numbered
<1> QED BY <1>5, <1>6, <1>7, <1>8, <1>9

(* The entry that goes is in no queue afterwards. *)
LEMMA TakenAsync ==
    ASSUME WorkInv, asyncQueue # <<>>, asyncQueue' = Tail(asyncQueue), mainQueue' = mainQueue
    PROVE  /\ Head(asyncQueue).event \in Waiting /\ Head(asyncQueue).event \notin Waiting'
           /\ Shrinks
<1>1. asyncQueue \in Seq(Entry)
  BY DEF WorkInv, WorkTypes
<1>2. /\ 1 \in DOMAIN asyncQueue /\ Head(asyncQueue) = asyncQueue[1]
      /\ \A i \in DOMAIN asyncQueue' : i + 1 \in DOMAIN asyncQueue /\ i + 1 # 1
                                     /\ asyncQueue'[i] = asyncQueue[i + 1]
  BY <1>1, TailOf
<1>3. Head(asyncQueue).event \in InAsync /\ Head(asyncQueue).event \notin InAsync'
  BY <1>2 DEF InAsync, WorkInv, OnePlace
<1>4. Head(asyncQueue).event \notin InMain'
  BY <1>3 DEF WorkInv, OnePlace, InMain
<1> QED BY <1>3, <1>4 DEF Waiting, Shrinks

LEMMA TakenMain ==
    ASSUME WorkInv, mainQueue # <<>>, mainQueue' = Tail(mainQueue), asyncQueue' = asyncQueue
    PROVE  /\ Head(mainQueue) \in Waiting /\ Head(mainQueue) \notin Waiting'
           /\ Shrinks
<1>1. mainQueue \in Seq(Events)
  BY DEF WorkInv, WorkTypes
<1>2. /\ 1 \in DOMAIN mainQueue /\ Head(mainQueue) = mainQueue[1]
      /\ \A i \in DOMAIN mainQueue' : i + 1 \in DOMAIN mainQueue /\ i + 1 # 1
                                     /\ mainQueue'[i] = mainQueue[i + 1]
  BY <1>1, TailOf
<1>3. Head(mainQueue) \in InMain /\ Head(mainQueue) \notin InMain'
  BY <1>2 DEF InMain, WorkInv, OnePlace
<1>4. Head(mainQueue) \notin InAsync'
  BY <1>3 DEF WorkInv, OnePlace, InAsync
<1> QED BY <1>3, <1>4 DEF Waiting, Shrinks

(* t takes e out of a queue. *)
TakesEvent(t, e) ==
    /\ Shrinks /\ e \in Waiting /\ e \notin Waiting'
    /\ UNCHANGED eventVars
    /\ holding[t] = None /\ holding' = [holding EXCEPT ![t] = e]
    /\ pc'[t] \in {"check", "work"}
    /\ \A u \in Servers \ {t} : pc'[u] = pc[u]
    /\ \A v \in Workers : Ended(v) => Ended(v)'

LEMMA TakesWork ==
    ASSUME WorkInv, NEW t \in Servers, NEW e, TakesEvent(t, e)
    PROVE  WorkInv'
<1> USE DEF WorkInv
<1>1. e \in Events /\ e # None /\ e \in Waiting /\ e \notin worked /\ Alive(e)
  BY QueuedEvents, EventFields DEF TakesEvent, WaitingIsNew
<1>2. /\ holding' \in [Servers -> Events \cup {None}] /\ holding'[t] = e
      /\ \A u \in Servers \ {t} : holding'[u] = holding[u]
  BY <1>1 DEF TakesEvent, WorkTypes
<1>3. /\ UNCHANGED <<inbox, posted, live, done, worked>>
      /\ Answered' = Answered /\ e \notin Waiting' /\ Shrinks
      /\ \A u \in Servers \ {t} : pc'[u] = pc[u]
      /\ pc'[t] \in {"check", "work"}
      /\ \A d \in Events : Alive(d) => Alive(d)'
  BY EventFields DEF TakesEvent, eventVars, Answered, Alive
<1>4. WorkTypes'
  BY <1>2, <1>3, ShrunkQueues DEF WorkTypes
<1>5. Waiting' \subseteq Waiting /\ InAsync' \cap InMain' = {}
  BY <1>3, ShrunkQueues DEF Waiting, OnePlace
<1>6. OnePlace'
  <2>1. \A u \in Servers : holding[u] # e
    BY <1>1 DEF OnePlace
  <2>2. \A u, v \in Servers : (holding'[u] = holding'[v] /\ holding'[u] # None) => u = v
    BY <1>2, <2>1 DEF OnePlace
  <2>3. \A u \in Servers : holding'[u] \notin Waiting'
    BY <1>2, <1>3, <1>5 DEF OnePlace
  <2> QED BY <1>3, <1>5, <2>2, <2>3, ShrunkQueues DEF OnePlace
<1>7. e.nr <= posted[e.owner]
  BY <1>1 DEF Numbered, Waiting, InAsync, InMain
<1>8. Numbered'
  BY <1>2, <1>3, <1>7, ShrunkQueues DEF Numbered
<1>9. WaitingIsNew' /\ ToldWorked'
  BY <1>3, <1>5, QueuedEvents DEF WaitingIsNew, ToldWorked
<1>10. HeldSound'
  <2> SUFFICES ASSUME NEW u \in Servers
               PROVE  /\ pc'[u] \in WorkPlaces => holding'[u] # None
                      /\ pc'[u] \notin WorkPlaces \cup {"check"} => holding'[u] = None
                      /\ \A d \in Events : holding'[u] = d =>
                            /\ pc'[u] # "tell" => Alive(d)' /\ d \notin done' \cup Answered'
                            /\ pc'[u] \in {"check", "work"} => d \notin worked'
                            /\ pc'[u] \in {"answer", "setDone"} => d \in worked'
    BY DEF HeldSound
  <2>1. CASE u = t
    BY <1>1, <1>2, <1>3, <2>1 DEF ToldWorked, WorkPlaces
  <2>2. CASE u # t
    BY <1>2, <1>3, <2>2 DEF HeldSound
  <2> QED BY <2>1, <2>2
<1> QED BY <1>4, <1>6, <1>8, <1>9, <1>10

(* t goes on with the event e that it has, and may let go of it.            *)
GoesOnWith(t, e) ==
    /\ UNCHANGED <<posted, live, asyncQueue, mainQueue>>
    /\ holding[t] = e /\ holding' \in {holding, [holding EXCEPT ![t] = None]}
    /\ \A u \in Servers \ {t} : pc'[u] = pc[u] \/ (pc[u] = "sleeps" /\ pc'[u] = "test")
    /\ \A v \in Workers : Ended(v) => Ended(v)'
    /\ inbox' \in [Workers -> Seq(Events)]
    /\ worked \subseteq worked' /\ worked' \subseteq worked \cup {e}
    /\ done' \subseteq done \cup {e} /\ Answered' \subseteq Answered \cup {e}
    /\ done' \cup Answered' \subseteq worked'
    /\ pc'[t] \in WorkPlaces => holding'[t] = e
    /\ pc'[t] \notin WorkPlaces \cup {"check"} => holding'[t] = None
    /\ holding'[t] = e =>
          /\ pc'[t] # "tell" => Alive(e)' /\ e \notin done' \cup Answered'
          /\ pc'[t] \in {"check", "work"} => e \notin worked'
          /\ pc'[t] \in {"answer", "setDone"} => e \in worked'

LEMMA GoesOnWork ==
    ASSUME WorkInv, NEW t \in Servers, NEW e \in Events, GoesOnWith(t, e)
    PROVE  WorkInv'
<1> USE DEF WorkInv
<1>1. e # None /\ e.nr <= posted[e.owner] /\ e \notin Waiting
  BY EventFields DEF GoesOnWith, Numbered, OnePlace
<1>2. /\ holding' \in [Servers -> Events \cup {None}] /\ holding'[t] \in {e, None}
      /\ \A u \in Servers \ {t} : holding'[u] = holding[u] /\ holding[u] # e
      /\ holding[t] = e
  BY <1>1 DEF GoesOnWith, WorkTypes, OnePlace
<1>3. WorkTypes'
  BY <1>2 DEF WorkTypes, GoesOnWith
<1>4. InAsync' = InAsync /\ InMain' = InMain /\ Waiting' = Waiting
  BY DEF GoesOnWith, InAsync, InMain, Waiting
<1>5. OnePlace'
  <2>1. \A u, v \in Servers : (holding'[u] = holding'[v] /\ holding'[u] # None) => u = v
    BY <1>2 DEF OnePlace
  <2>2. None \notin Waiting
    BY QueuedEvents, NoneAssumption
  <2>3. \A u \in Servers : holding'[u] \notin Waiting'
    BY <1>1, <1>2, <1>4, <2>2 DEF OnePlace
  <2> QED BY <1>4, <2>1, <2>3 DEF OnePlace, GoesOnWith
<1>6. Numbered' /\ ToldWorked'
  BY <1>1, <1>2 DEF Numbered, ToldWorked, GoesOnWith
<1>7. \A d \in Events : Alive(d) => Alive(d)'
  BY EventFields DEF Alive, GoesOnWith
<1>8. WaitingIsNew'
  BY <1>1, <1>4, <1>7, QueuedEvents DEF WaitingIsNew, GoesOnWith
<1>9. HeldSound'
  <2> SUFFICES ASSUME NEW u \in Servers
               PROVE  /\ pc'[u] \in WorkPlaces => holding'[u] # None
                      /\ pc'[u] \notin WorkPlaces \cup {"check"} => holding'[u] = None
                      /\ \A d \in Events : holding'[u] = d =>
                            /\ pc'[u] # "tell" => Alive(d)' /\ d \notin done' \cup Answered'
                            /\ pc'[u] \in {"check", "work"} => d \notin worked'
                            /\ pc'[u] \in {"answer", "setDone"} => d \in worked'
    BY DEF HeldSound
  <2>1. CASE u = t
    <3>1. \A d \in Events : holding'[t] = d => d = e
      BY <1>2, EventFields
    <3> QED BY <1>1, <1>2, <2>1, <3>1 DEF GoesOnWith
  <2>2. CASE u # t /\ pc'[u] = pc[u]
    <3>1. holding'[u] = holding[u] /\ holding[u] # e
      BY <1>2, <2>2
    <3>2. \A d \in Events : holding[u] = d =>
              /\ d \notin done \cup Answered => d \notin done' \cup Answered'
              /\ d \in worked <=> d \in worked'
      BY <3>1 DEF GoesOnWith
    <3> QED BY <1>7, <2>2, <3>1, <3>2 DEF HeldSound
  <2>3. CASE u # t /\ pc[u] = "sleeps" /\ pc'[u] = "test"
    <3>1. holding'[u] = None
      BY <1>2, <2>3 DEF HeldSound, WorkPlaces
    <3> QED BY <2>3, <3>1, EventFields DEF WorkPlaces
  <2> QED BY <2>1, <2>2, <2>3 DEF GoesOnWith
<1> QED BY <1>3, <1>5, <1>6, <1>8, <1>9

(* While a thread that serves moves, ended workers stay so. *)
LEMMA ServerGoes ==
    ASSUME StartTypes, NEW t \in Servers, NEW l, Go(t, l)
    PROVE  /\ pc'[t] = l /\ \A u \in Servers \ {t} : pc'[u] = pc[u]
           /\ \A v \in Workers : Ended(v) => Ended(v)'
<1>1. \A u \in Servers : u \in Threads /\ u \notin Workers
  BY KindsOfThreads DEF Servers
<1>2. \A v \in Workers : v \in Threads
  BY KindsOfThreads
<1> QED BY <1>1, <1>2 DEF StartTypes, Go, Ended

LEMMA ServeWork ==
    ASSUME IInv, NEW t \in Servers, Serve(t)
    PROVE  WorkInv'
<1> USE DEF IInv, StartInv
<1>1. PICK e \in Events : holding[t] = e
  BY ServeMoves, HeldIsEvent
<1>2. e # None /\ e.owner \in Workers
  BY EventFields
<1>3. inbox \in [Workers -> Seq(Events)] /\ holding \in [Servers -> Events \cup {None}]
  BY DEF WorkInv, WorkTypes
<1>4. LoopOf(t) \notin WorkPlaces \cup {"check"}
  BY DEF LoopOf, WorkPlaces
<1>5. done \cup Answered \subseteq worked
  BY DEF WorkInv, ToldWorked
<1>6. CASE Perform(t)
  <2>1. PICK l \in {"answer", "setDone"} : Go(t, l)
    BY <1>6 DEF Perform
  <2>2. Answered' = Answered
    BY <1>6 DEF Perform, Answered
  <2>3. Alive(e) /\ e \notin done \cup Answered
    BY <1>1, <1>6 DEF Perform, WorkInv, HeldSound
  <2>4. Alive(e)'
    BY <1>6, <2>1, <2>3, ServerGoes, EventFields DEF Perform, Alive
  <2>5. /\ pc'[t] = l /\ \A u \in Servers \ {t} : pc'[u] = pc[u]
        /\ \A v \in Workers : Ended(v) => Ended(v)'
    BY <2>1, ServerGoes
  <2>6. GoesOnWith(t, e)
    BY <1>1, <1>3, <1>5, <1>6, <2>2, <2>3, <2>4, <2>5 DEF Perform, GoesOnWith, WorkPlaces, queueVars
  <2> QED BY <2>6, GoesOnWork DEF IInv
<1>7. CASE Answer(t)
  <2>1. /\ pc'[t] = LoopOf(t) /\ \A u \in Servers \ {t} : pc'[u] = pc[u]
        /\ \A v \in Workers : Ended(v) => Ended(v)'
    BY <1>7, ServerGoes DEF Answer
  <2>2. /\ inbox' \in [Workers -> Seq(Events)]
        /\ \A w \in Workers : inbox'[w] \in {inbox[w], Append(inbox[w], e)}
    <3>1. \/ inbox' = inbox
          \/ inbox' = [inbox EXCEPT ![e.owner] = Append(inbox[e.owner], e)]
      BY <1>1, <1>7 DEF Answer
    <3>2. inbox[e.owner] \in Seq(Events) /\ Append(inbox[e.owner], e) \in Seq(Events)
      BY <1>2, <1>3
    <3> QED BY <1>2, <1>3, <3>1, <3>2
  <2>3. \A w \in Workers : Range(inbox'[w]) \subseteq Range(inbox[w]) \cup {e}
    <3>1. \A q \in Seq(Events) : Range(Append(q, e)) \subseteq Range(q) \cup {e}
      BY AppendTo DEF Range
    <3> QED BY <1>3, <2>2, <3>1
  <2>4. Answered' \subseteq Answered \cup {e}
    BY <2>3 DEF Answered
  <2>5. e \in worked
    BY <1>1, <1>7 DEF Answer, WorkInv, HeldSound
  <2>6. holding'[t] = None
    BY <1>3, <1>7 DEF Answer
  <2>7. GoesOnWith(t, e)
    BY <1>1, <1>2, <1>4, <1>5, <1>7, <2>1, <2>2, <2>4, <2>5, <2>6 DEF Answer, GoesOnWith
  <2> QED BY <2>7, GoesOnWork DEF IInv
<1>8. CASE SetDone(t)
  <2>1. /\ pc'[t] = "tell" /\ \A u \in Servers \ {t} : pc'[u] = pc[u]
        /\ \A v \in Workers : Ended(v) => Ended(v)'
    BY <1>8, ServerGoes DEF SetDone
  <2>2. Answered' = Answered
    BY <1>8 DEF SetDone, Answered
  <2>3. e \in worked
    BY <1>1, <1>8 DEF SetDone, WorkInv, HeldSound
  <2>4. GoesOnWith(t, e)
    BY <1>1, <1>3, <1>5, <1>8, <2>1, <2>2, <2>3 DEF SetDone, GoesOnWith, WorkPlaces, queueVars
  <2> QED BY <2>4, GoesOnWork DEF IInv
<1>9. CASE Tell(t)
  <2>1. \A x \in Threads : pc'[x] = IF x = t THEN LoopOf(t)
                                    ELSE IF x \in Wakes({e.owner}) THEN "test" ELSE pc[x]
    BY <1>1, <1>9 DEF Tell, NotifyAll
  <2>2. \A u \in Servers : u \in Threads /\ u \notin Workers
    BY KindsOfThreads DEF Servers
  <2>3. /\ pc'[t] = LoopOf(t)
        /\ \A u \in Servers \ {t} : pc'[u] = pc[u] \/ (pc[u] = "sleeps" /\ pc'[u] = "test")
    BY <2>1, <2>2 DEF Wakes
  <2>4. \A v \in Workers : Ended(v) => Ended(v)'
    BY <2>1, <2>2, KindsOfThreads DEF Ended, Wakes
  <2>5. Answered' = Answered /\ holding'[t] = None
    BY <1>3, <1>9 DEF Tell, eventVars, Answered
  <2>6. GoesOnWith(t, e)
    BY <1>1, <1>2, <1>3, <1>4, <1>5, <1>9, <2>3, <2>4, <2>5 DEF Tell, GoesOnWith, eventVars
  <2> QED BY <2>6, GoesOnWork DEF IInv
<1> QED BY <1>6, <1>7, <1>8, <1>9 DEF Serve

LEMMA PoolStepWork ==
    ASSUME IInv, NEW t \in Pool, PoolActs(t) PROVE WorkInv'
<1> USE DEF IInv, StartInv
<1>1. t \in Threads /\ t \in Servers
  BY KindsOfThreads DEF Servers
<1>2. holding \in [Servers -> Events \cup {None}]
  BY DEF WorkInv, WorkTypes
<1>3. ASSUME NEW l \in {"ask", "check", "pop", "popAgain", "blocks", "ended", "test"}, Go(t, l),
             pc[t] \notin WorkPlaces \cup {"ended"},
             pc[t] # "check" \/ holding[t] = None, UNCHANGED <<eventVars, queueVars>>
      PROVE  WorkInv'
  <2>1. \A x \in Threads : pc'[x] = IF x = t THEN l ELSE pc[x]
    BY <1>1, <1>3 DEF Go, StartTypes
  <2>2. l \notin WorkPlaces
    BY DEF WorkPlaces
  <2> QED BY <1>1, <1>3, <2>1, <2>2, QuietStep
<1>4. CASE Ask(t) \/ TestWork(t)
  BY <1>3, <1>4 DEF Ask, TestWork, Step, work, WorkPlaces, endVars
<1>5. ASSUME NEW l \in {"pop", "popAgain"}, NEW otherwise \in {"test", "ended"},
             Take(t, l, otherwise)
      PROVE  WorkInv'
  <2>1. CASE Go(t, otherwise) /\ UNCHANGED <<asyncQueue, holding>>
    BY <1>3, <1>5, <2>1 DEF Take, WorkPlaces, eventVars, queueVars
  <2>2. CASE /\ Ready /\ asyncQueue' = Tail(asyncQueue) /\ Go(t, "check")
             /\ holding' = [holding EXCEPT ![t] = Head(asyncQueue).event]
    <3>1. PICK e : e = Head(asyncQueue).event
      OBVIOUS
    <3>2. /\ asyncQueue # <<>> /\ asyncQueue' = Tail(asyncQueue) /\ mainQueue' = mainQueue
          /\ holding' = [holding EXCEPT ![t] = e] /\ Go(t, "check") /\ UNCHANGED eventVars
      BY <1>5, <2>2, <3>1 DEF Take, Ready, eventVars
    <3>3. holding[t] = None
      BY <1>1, <1>5 DEF Take, WorkInv, HeldSound, WorkPlaces
    <3>4. e \in Waiting /\ Shrinks
      BY <3>1, <3>2, TakenAsync
    <3>5. e \notin Waiting'
      <4>1. Head(asyncQueue).event \notin Waiting'
        BY <3>2, TakenAsync
      <4> QED BY <3>1, <4>1
    <3>6. TakesEvent(t, e)
      BY <1>1, <3>2, <3>3, <3>4, <3>5, ServerGoes DEF TakesEvent
    <3> QED BY <1>1, <3>6, TakesWork
  <2> QED BY <1>5, <2>1, <2>2 DEF Take
<1>6. CASE Pop(t) \/ PopAgain(t)
  BY <1>5, <1>6 DEF Pop, PopAgain
<1>7. CASE Check(t) /\ holding[t] = None
  <2>1. holding' = holding
    BY <1>1, <1>2, <1>7 DEF Check
  <2> QED BY <1>3, <1>7, <2>1 DEF Check, WorkPlaces, eventVars, queueVars
<1>8. CASE Check(t) /\ holding[t] # None
  <2>1. PICK e \in Events : holding[t] = e
    BY <1>1, <1>2, <1>8
  <2>2. PICK l \in {"ended", "work"} : Go(t, l) /\ (l = "ended" <=> ~ isRunning[t])
    BY <1>8 DEF Check
  <2>3. /\ pc'[t] = l /\ \A u \in Servers \ {t} : pc'[u] = pc[u]
        /\ \A v \in Workers : Ended(v) => Ended(v)'
    BY <1>1, <2>2, ServerGoes
  <2>4. /\ holding' \in {holding, [holding EXCEPT ![t] = None]}
        /\ holding'[t] = IF l = "ended" THEN None ELSE e
    BY <1>1, <1>2, <1>8, <2>1, <2>2 DEF Check
  <2>5. Alive(e) /\ e \notin done \cup Answered /\ e \notin worked
    BY <1>1, <1>8, <2>1 DEF Check, WorkInv, HeldSound
  <2>6. UNCHANGED <<inbox, posted, live, done, worked, asyncQueue, mainQueue>>
    BY <1>8 DEF Check, eventVars
  <2>7. Answered' = Answered /\ Alive(e)'
    BY <2>3, <2>5, <2>6, EventFields DEF Answered, Alive
  <2>8. GoesOnWith(t, e)
    BY <2>1, <2>3, <2>4, <2>5, <2>6, <2>7, EventFields
       DEF GoesOnWith, WorkPlaces, WorkInv, WorkTypes, ToldWorked
  <2> QED BY <1>1, <2>8, GoesOnWork
<1> QED BY <1>4, <1>6, <1>7, <1>8 DEF PoolActs

LEMMA MainPopWork == IInv /\ MainPop => WorkInv'
<1> SUFFICES ASSUME IInv, MainPop PROVE WorkInv'
  OBVIOUS
<1> USE DEF IInv, StartInv
<1>1. Main \in Servers /\ holding[Main] = None
  BY DEF MainPop, Servers, WorkInv, HeldSound, WorkPlaces
<1>2. PICK e : e = Head(mainQueue)
  OBVIOUS
<1>3. /\ mainQueue # <<>> /\ mainQueue' = Tail(mainQueue) /\ asyncQueue' = asyncQueue
      /\ UNCHANGED eventVars
  BY DEF MainPop
<1>4. e \in Waiting /\ Shrinks
  BY <1>2, <1>3, TakenMain
<1>5. e \notin Waiting'
  <2>1. Head(mainQueue) \notin Waiting'
    BY <1>3, TakenMain
  <2> QED BY <1>2, <2>1
<1>6. CASE UNCHANGED <<pc, holding>>
  <2>1. WorkTypes'
    BY <1>3, <1>4, <1>6, ShrunkQueues DEF WorkInv, WorkTypes, eventVars
  <2>2. posted' = posted /\ Answered' = Answered
    BY <1>3 DEF eventVars, Answered
  <2>3. Waiting' \subseteq Waiting /\ InAsync' \cap InMain' = {}
    BY <1>4, <2>2, ShrunkQueues DEF Waiting, WorkInv, OnePlace
  <2>4. OnePlace'
    BY <1>4, <1>6, <2>2, <2>3, ShrunkQueues DEF WorkInv, OnePlace
  <2>5. Numbered'
    BY <1>3, <1>4, <1>6, <2>2, ShrunkQueues DEF WorkInv, Numbered, eventVars
  <2>6. WaitingIsNew' /\ HeldSound' /\ ToldWorked'
    BY <1>3, <1>6, <2>2, <2>3
       DEF WorkInv, WaitingIsNew, HeldSound, ToldWorked, Alive, Ended, eventVars
  <2> QED BY <2>1, <2>4, <2>5, <2>6 DEF WorkInv
<1>7. CASE holding' = [holding EXCEPT ![Main] = e] /\ Go(Main, "work")
  <2>1. TakesEvent(Main, e)
    BY <1>1, <1>3, <1>4, <1>5, <1>7, ServerGoes DEF TakesEvent
  <2> QED BY <1>1, <2>1, TakesWork
<1> QED BY <1>2, <1>6, <1>7 DEF MainPop
-----------------------------------------------------------------------------
LEMMA InitInv == Init => IInv
<1> SUFFICES ASSUME Init PROVE IInv
  OBVIOUS
<1>1. \A t \in Threads : pc[t] = IF t = Main THEN "spawn" ELSE "none"
  BY DEF Init
<1>2. \A t \in Threads : pc[t] \in PlacesOf(t) /\ pc[t] \in Places
  <2>1. \A t \in Threads : t = Main \/ t \in Pool \/ t \in Workers
    BY DEF Threads
  <2>2. \A t \in Threads : pc[t] \in PlacesOf(t)
    BY <1>1, <2>1, KindsOfThreads DEF MainPlaces, PoolPlaces, WorkerPlaces
  <2> QED BY <2>2, KindsOfThreads
<1>3. StartTypes
  BY <1>2 DEF Init, StartTypes
<1>4. InConstructor /\ FlagsAgree
  BY <1>1, KindsOfThreads DEF Init, InConstructor, FlagsAgree, StartPlaces, EndPlaces, Unstarted
<1>5. WorkTypes
  BY BoundsAssumption DEF Init, WorkTypes
<1>6. InAsync = {} /\ InMain = {} /\ Answered = {} /\ Waiting = {}
  BY DEF Init, InAsync, InMain, Answered, Waiting, Range
<1>7. OnePlace /\ Numbered /\ WaitingIsNew /\ ToldWorked
  BY <1>6 DEF Init, OnePlace, Numbered, WaitingIsNew, ToldWorked
<1>8. \A t \in Servers : pc[t] \in {"spawn", "none"} /\ holding[t] = None
  BY <1>1 DEF Init, Servers, Threads
<1>9. HeldSound
  BY <1>8, NoneAssumption DEF HeldSound, WorkPlaces
<1>10. Sides
  BY DEF Init, Sides
<1> QED BY <1>3, <1>4, <1>5, <1>7, <1>9, <1>10 DEF IInv, StartInv, WorkInv

LEMMA SidesKept == Sides /\ [Next]_vars => Sides'
<1> SUFFICES ASSUME Sides, [Next]_vars PROVE Sides'
  OBVIOUS
<1> USE DEF Sides
<1>1. ASSUME NEW t \in Pool, Pop(t) \/ PopAgain(t) PROVE Sides'
  BY <1>1 DEF Pop, PopAgain, Take, Popping, endVars
<1>2. ASSUME NEW t, Enter(t) \/ SetRunning(t) \/ Announce(t) \/ Block(t) \/ Ask(t) \/ TestWork(t)
      PROVE  Sides'
  BY <1>2 DEF Enter, SetRunning, Announce, Tells, Block, Ask, TestWork, Step, work, data, endVars
<1>3. ASSUME NEW t, Check(t) \/ Serve(t) PROVE Sides'
  BY <1>3 DEF Check, Serve, Perform, Answer, SetDone, Tell, calm, endVars
<1>4. ASSUME NEW w \in Workers,
             \/ Publish(w) \/ Notify(w) \/ TestDone(w) \/ Resolve(w) \/ PostToMain(w)
             \/ WorkerAsks(w)
      PROVE  Sides'
  BY <1>4 DEF Publish, Notify, TestDone, Resolve, PostToMain, WorkerAsks, PostToPool, Refused,
              calm, data, endVars
<1>5. ASSUME NEW w \in Workers, JoinWorker(w) \/ EndWorker(w) PROVE Sides'
  BY <1>5 DEF JoinWorker, EndWorker
<1>6. ASSUME NEW t, Start(t, "spawn") \/ Start(t, "loop") \/ StopThread(t) \/ SpuriousWakeup(t)
      PROVE  Sides'
  BY <1>6 DEF Start, StopThread, SpuriousWakeup, work, data, endVars
<1>7. CASE InitRunning \/ InitQueue \/ TestStarted
  BY <1>7 DEF InitRunning, InitQueue, TestStarted, work, endVars
<1>8. CASE Quit \/ WorkersEnded \/ NotifyPool \/ JoinPool \/ MainPop
  BY <1>8 DEF Quit, WorkersEnded, NotifyPool, JoinPool, MainPop, Step, Tells, work, data, calm,
              endVars
<1>9. CASE UNCHANGED vars
  BY <1>9 DEF vars, work, endVars
<1>10. CASE MainStep
  BY <1>2, <1>3, <1>6, <1>7, <1>8, <1>10 DEF MainStep, StartPoolThread
<1>11. ASSUME NEW t \in Pool, PoolStep(t) PROVE Sides'
  BY <1>1, <1>2, <1>3, <1>11 DEF PoolStep
<1>12. ASSUME NEW w \in Workers, WorkerStep(w) \/ StartWorker(w) PROVE Sides'
  BY <1>2, <1>4, <1>6, <1>12 DEF WorkerStep, StartWorker
<1> QED BY <1>4, <1>5, <1>6, <1>8, <1>9, <1>10, <1>11, <1>12 DEF Next

LEMMA StepInv == IInv /\ [Next]_vars => IInv'
<1> SUFFICES ASSUME IInv, [Next]_vars PROVE IInv'
  OBVIOUS
<1>0. Sides'
  BY SidesKept DEF IInv
<1>1. CASE UNCHANGED vars
  BY <1>0, <1>1, StillStep, QuietStep DEF vars, startVars, work, endVars, IInv, calm
<1>2. CASE \/ \E t \in Pool \cup Workers : \E l \in {"spawn", "loop"} : Start(t, l)
           \/ \E t \in Pool \cup Workers : Enter(t) \/ SetRunning(t) \/ Announce(t)
           \/ InitRunning \/ InitQueue \/ TestStarted
           \/ \E t \in Threads : Block(t) \/ SpuriousWakeup(t)
           \/ \E t \in Pool : StopThread(t)
           \/ MainActs \/ Joins
  <2>1. WorkInv'
    BY <1>2, ConstructorStepWork
  <2>2. StartInv'
    BY <1>2, StartStep, InitStep, TestStartedStep, EntryStep, AnnounceStep, WaitStep,
       StopThreadStep, MainStepStart DEF IInv
  <2> QED BY <1>0, <2>1, <2>2 DEF IInv
<1>3. ASSUME NEW w \in Workers, WorkerActs(w) PROVE IInv'
  BY <1>0, <1>3, WorkerStepStart, WorkerStepWork DEF IInv
<1>4. ASSUME NEW t \in Servers, Serve(t) PROVE IInv'
  BY <1>0, <1>4, ServeStepStart, ServeWork DEF IInv
<1>5. ASSUME NEW t \in Pool, PoolActs(t) PROVE IInv'
  BY <1>0, <1>5, PoolStepStart, PoolStepWork DEF IInv
<1>6. CASE MainPop
  BY <1>0, <1>6, MainStepStart, MainPopWork DEF IInv
<1>7. CASE MainStep
  BY <1>2, <1>4, <1>6, <1>7, KindsOfThreads DEF MainStep, MainActs, StartPoolThread, Servers
<1>8. ASSUME NEW t \in Pool, PoolStep(t) PROVE IInv'
  <2>1. t \in Servers /\ t \in Threads
    BY KindsOfThreads DEF Servers
  <2> QED BY <1>2, <1>4, <1>5, <1>8, <2>1 DEF PoolStep, PoolActs
<1>9. ASSUME NEW w \in Workers,
             \/ WorkerStep(w) \/ WorkerAsks(w) \/ PostToMain(w)
             \/ StartWorker(w) \/ Resolve(w) \/ JoinWorker(w) \/ EndWorker(w)
      PROVE  IInv'
  <2>1. w \in Threads
    BY KindsOfThreads
  <2>2. EndWorker(w) => IInv'
    BY <1>0, EndStepStart, EndStepWork DEF IInv
  <2> QED BY <1>2, <1>3, <1>9, <2>1, <2>2 DEF WorkerStep, WorkerActs, StartWorker, Joins
<1> QED BY <1>1, <1>2, <1>7, <1>8, <1>9 DEF Next, MainActs
-----------------------------------------------------------------------------
(* What each thread may rely on at its place in the code. *)
THEOREM Invariant == Spec => []IInv
<1>1. Init => IInv
  BY InitInv
<1>2. IInv /\ [Next]_vars => IInv'
  BY StepInv
<1> QED BY <1>1, <1>2, PTL DEF Spec

(* A constructor that has returned leaves a thread that runs and has its    *)
(* queue, unless its own initialisation came after what the thread had set, *)
(* however many threads and workers there are.                              *)
THEOREM StartsAreSound == Spec => []StartsSound
<1>1. IInv => StartsSound
  <2> SUFFICES ASSUME IInv PROVE StartsSound
    OBVIOUS
  <2>1. TypeOK
    <3>1. Places \subseteq {"none", "spawn", "init", "initQueue", "test", "blocks", "sleeps",
                            "loop", "joinWorker", "endWorkers", "stop", "join", "over",
                            "born", "enter", "announce", "ask", "pop", "popAgain", "check",
                            "work", "answer", "setDone", "tell",
                            "free", "publish", "notify", "ended"}
      BY DEF Places, MainPlaces, StartPlaces, WorkPlaces, EndPlaces, PoolPlaces, WorkerPlaces
    <3>2. StartTypes /\ WorkTypes /\ Sides
      BY DEF IInv, StartInv, WorkInv
    <3> QED BY <3>1, <3>2 DEF StartTypes, WorkTypes, Sides, TypeOK, Entry
  <2>2. ReadyWhenStarted
    BY DEF IInv, StartInv, InConstructor, FlagsAgree, ReadyWhenStarted, Unstarted
  <2> QED BY <2>1, <2>2 DEF StartsSound
<1> QED BY <1>1, Invariant, PTL

(* The work of an event is done at most once, on an event that still exists *)
(* or whose worker has ended, and before its worker is told, whichever      *)
(* thread of the pool or the main thread does it.                           *)
THEOREM WorkDoneOnce == Spec => []WorkIsSound
<1>1. IInv => WorkIsSound
  <2> SUFFICES ASSUME IInv PROVE WorkIsSound
    OBVIOUS
  <2> USE DEF IInv, WorkInv
  <2>1. ASSUME NEW t \in Servers, pc[t] \in WorkPlaces
        PROVE  holding[t] \in Events /\ holding[t] # None
    BY <2>1, HeldIsEvent
  <2>2. WorkedOnce
    <3> SUFFICES ASSUME NEW t \in Servers, pc[t] = "work"
                 PROVE  /\ holding[t] \notin worked
                        /\ \A u \in Servers \ {t} : holding[u] # holding[t]
      BY DEF WorkedOnce
    <3>1. holding[t] \in Events /\ holding[t] # None
      BY <2>1 DEF WorkPlaces
    <3> QED BY <3>1 DEF HeldSound, OnePlace
  <2>3. HeldIsLive
    <3> SUFFICES ASSUME NEW t \in Servers, pc[t] \in {"work", "answer", "setDone"}
                 PROVE  holding[t] \in live \/ Ended(holding[t].owner)
      BY DEF HeldIsLive
    <3>1. PICK e \in Events : holding[t] = e
      BY <2>1 DEF WorkPlaces
    <3>2. Alive(e)
      BY <3>1 DEF HeldSound
    <3> QED BY <3>1, <3>2 DEF Alive
  <2>4. ToldIsWorked
    BY DEF ToldWorked, Answered, ToldIsWorked
  <2> QED BY <2>2, <2>3, <2>4 DEF WorkIsSound
<1> QED BY <1>1, Invariant, PTL
=============================================================================
