--------------------------- MODULE Consumers_proof ---------------------------
(***************************************************************************)
(* Proofs about the two queues with one consumer that sleeps on a          *)
(* condition variable or on its messages: EventQueue, for every set of     *)
(* producers, every capacity and any number of posts, of kept messages and *)
(* of messages of the system; and Logger, for every set of threads and any *)
(* number of logs.                                                         *)
(***************************************************************************)
EXTENDS EventQueue, Logger, SequenceTheorems, TLAPS

(***************************************************************************)
(* The event queue                                                         *)
(***************************************************************************)

(* An unpublished place belongs to a thread that is about to publish it.    *)
Unpublished ==
    \A i \in DOMAIN queue :
        ~ queue[i].ready => /\ ppc[queue[i].from] = "publish"
                            /\ queue[i].nr = posted[queue[i].from]

(* Nobody but the worker takes events out.                                  *)
StillThere == cpc = "popAgain" => queue # <<>>

(* What the main thread knows from its test of the queue on: whatever has   *)
(* come since then has a message that has not been posted yet, or one that  *)
(* it has not seen.                                                         *)
Unseen ==
    /\ (cpc = "msgWait" /\ ~ fresh) => notes = 0
    /\ (notes = 0 /\ (cpc = "peek" \/ (cpc = "msgWait" /\ ~ fresh))) =>
            \A i \in DOMAIN queue : InCall(queue[i])

IInv == /\ TypeOK
        /\ inputs <= arrived
        /\ Unpublished
        /\ StillThere
        /\ Unseen

Place == [from : Producers, nr : 1 .. MaxPosts, ready : BOOLEAN]

LEMMA PlaceTypes == TypeOK => /\ queue \in Seq(Place)
                              /\ \A i \in DOMAIN queue :
                                    queue[i] \in Place /\ queue[i].from \in Producers
<1> SUFFICES ASSUME TypeOK
             PROVE  /\ queue \in Seq(Place)
                    /\ \A i \in DOMAIN queue :
                          queue[i] \in Place /\ queue[i].from \in Producers
  OBVIOUS
<1>1. queue \in Seq(Place)
  BY DEF TypeOK, Place
<1>2. \A i \in DOMAIN queue : queue[i] \in Place
  BY <1>1
<1>3. \A x \in Place : x.from \in Producers
  BY DEF Place
<1> QED BY <1>1, <1>2, <1>3

LEMMA PublishPlace == \A x \in Place : LET y == [x EXCEPT !.ready = TRUE]
                                      IN  y \in Place /\ y.from = x.from /\ y.nr = x.nr /\ y.ready
BY DEF Place
-----------------------------------------------------------------------------
LEMMA InitInv == Init => IInv
<1> SUFFICES ASSUME Init PROVE IInv
  OBVIOUS
<1>1. /\ queue \in Seq(Place) /\ Len(queue) <= Capacity
      /\ posted \in [Producers -> 0 .. MaxPosts]
      /\ ppc \in [Producers -> {"idle", "push", "publish", "notify"}]
      /\ ticket \in [Producers -> Nat]
      /\ \A p \in Producers : ppc[p] # "push"
      /\ handled \in Seq(Events)
  BY BoundsAssumption DEF Init
<1>2. owner \in {"ticking", "waiting", "main"}
  BY DEF Init
<1>3. cpc \in IF owner = "main" THEN MainPcs ELSE WorkerPcs
  BY DEF Init, WorkerPcs, MainPcs
<1>4. /\ refused \subseteq Events
      /\ notes \in 0 .. MaxNotes /\ arrived \in 0 .. MaxInputs /\ inputs \in 0 .. MaxInputs
  BY BoundsAssumption DEF Init
<1>5. missed \in BOOLEAN /\ fresh \in BOOLEAN
  BY DEF Init
<1>6. TypeOK
  BY <1>1, <1>2, <1>3, <1>4, <1>5 DEF TypeOK, Place
<1>7. Unpublished /\ StillThere /\ Unseen
  BY DEF Init, Unpublished, StillThere, Unseen
<1> QED BY <1>6, <1>7, BoundsAssumption DEF Init, IInv

(* A producer's step. *)
LEMMA ProduceInv == \A p \in Producers : IInv /\ Produce(p) => IInv'
<1> SUFFICES ASSUME NEW p \in Producers, IInv, Produce(p) PROVE IInv'
  OBVIOUS
<1> USE BoundsAssumption DEF IInv
<1>1. CASE Claim(p)
  <2> DEFINE e == [from |-> p, nr |-> posted'[p], ready |-> FALSE]
  <2>1. e \in Place /\ queue \in Seq(Place) /\ queue' = Append(queue, e)
    BY <1>1 DEF Claim, TypeOK, Place
  <2>2. /\ Len(queue') = Len(queue) + 1
        /\ queue' \in Seq(Place)
        /\ \A i \in DOMAIN queue : i \in DOMAIN queue' /\ queue'[i] = queue[i]
        /\ \A i \in DOMAIN queue' : i \in DOMAIN queue \/ queue'[i] = e
    BY <2>1
  <2>3. TypeOK'
    <3>1. queue' \in Seq(Place) /\ Len(queue') <= Capacity
      BY <1>1, <2>1, <2>2 DEF Claim, TypeOK
    <3>2. /\ posted' \in [Producers -> 0 .. MaxPosts]
          /\ ppc' \in [Producers -> {"idle", "push", "publish", "notify"}]
          /\ ticket' \in [Producers -> Nat]
          /\ \A q \in Producers : ppc'[q] = "push" => posted'[q] < MaxPosts
      BY <1>1 DEF Claim, TypeOK
    <3>3. UNCHANGED <<refused, cpc, handled, missed, owner, notes, arrived, inputs, fresh>>
      BY <1>1 DEF Claim, messageVars
    <3> QED BY <3>1, <3>2, <3>3 DEF TypeOK, Place
  <2>4. \A i \in DOMAIN queue : queue[i].from \in Producers
    BY PlaceTypes
  <2>5. Unpublished'
    <3>1. /\ ppc[p] = "push" /\ ppc'[p] = "publish"
          /\ \A q \in Producers \ {p} : ppc'[q] = ppc[q] /\ posted'[q] = posted[q]
      BY <1>1 DEF Claim, TypeOK
    <3>2. ASSUME NEW i \in DOMAIN queue, ~ queue[i].ready
          PROVE  /\ queue[i].from \in Producers \ {p}
                 /\ ppc[queue[i].from] = "publish" /\ queue[i].nr = posted[queue[i].from]
      BY <2>4, <3>1, <3>2 DEF Unpublished
    <3>3. e.from = p /\ e.nr = posted'[p]
      OBVIOUS
    <3> HIDE DEF e
    <3> QED BY <2>2, <3>1, <3>2, <3>3 DEF Unpublished
  <2>6. StillThere'
    BY <1>1, <2>2 DEF Claim, StillThere
  <2>7. Unseen'
    <3>1. /\ UNCHANGED <<cpc, notes, fresh>>
          /\ ppc'[p] = "publish" /\ e.from = p /\ e.nr = posted'[p]
      BY <1>1 DEF Claim, TypeOK, messageVars
    <3> HIDE DEF e
    <3>2. ASSUME NEW i \in DOMAIN queue, InCall(queue[i])
          PROVE  /\ ppc'[queue[i].from] \in {"publish", "notify"}
                 /\ queue[i].nr = posted'[queue[i].from]
      <4>1. queue[i].from \in Producers \ {p}
        BY <1>1, <2>4, <3>2 DEF Claim, InCall
      <4> QED BY <1>1, <3>2, <4>1 DEF Claim, InCall, TypeOK
    <3>3. (\A i \in DOMAIN queue : InCall(queue[i])) => (\A i \in DOMAIN queue : InCall(queue[i]))'
      BY <2>2, <3>1, <3>2 DEF InCall
    <3> QED BY <3>1, <3>3 DEF Unseen
  <2> QED BY <1>1, <2>3, <2>5, <2>6, <2>7 DEF Claim, messageVars
<1>2. CASE Refuse(p)
  <2>1. TypeOK'
    <3>1. posted' \in [Producers -> 0 .. MaxPosts] /\ <<p, posted'[p]>> \in Events
      BY <1>2 DEF Refuse, TypeOK, Events
    <3>2. /\ ppc' \in [Producers -> {"idle", "push", "publish", "notify"}]
          /\ ticket' \in [Producers -> Nat]
          /\ \A q \in Producers : ppc'[q] = "push" => posted'[q] < MaxPosts
      BY <1>2 DEF Refuse, TypeOK
    <3>3. /\ refused' \subseteq Events
          /\ UNCHANGED <<queue, cpc, handled, missed, owner, notes, arrived, inputs, fresh>>
      BY <1>2, <3>1 DEF Refuse, TypeOK, messageVars
    <3> QED BY <3>1, <3>2, <3>3 DEF TypeOK
  <2>2. \A i \in DOMAIN queue : queue[i].from \in Producers
    BY PlaceTypes
  <2>3. /\ ppc[p] = "push"
        /\ \A q \in Producers \ {p} : ppc'[q] = ppc[q] /\ posted'[q] = posted[q]
    BY <1>2 DEF Refuse, TypeOK
  <2>4. Unpublished'
    BY <1>2, <2>2, <2>3 DEF Refuse, Unpublished
  <2>5. \A i \in DOMAIN queue : InCall(queue[i]) => InCall(queue[i])'
    BY <1>2, <2>2, <2>3 DEF Refuse, InCall
  <2>6. Unseen'
    BY <1>2, <2>5 DEF Refuse, Unseen, messageVars
  <2> QED BY <1>2, <2>1, <2>4, <2>6 DEF Refuse, StillThere, messageVars
<1>3. CASE Publish(p)
  <2>1. queue \in Seq(Place) /\ queue' = Published(p)
    BY <1>3, PlaceTypes DEF Publish
  <2>2. ASSUME NEW i \in DOMAIN queue
        PROVE  /\ queue'[i].from = queue[i].from
               /\ queue'[i].nr = queue[i].nr
               /\ queue'[i] \in Place
               /\ ~ queue'[i].ready =>
                     /\ ~ queue[i].ready
                     /\ ~ (queue[i].from = p /\ queue[i].nr = posted[p])
    <3>1. queue[i] \in Place
      BY PlaceTypes
    <3>2. CASE queue[i].from = p /\ queue[i].nr = posted[p]
      <4>1. queue'[i] = [queue[i] EXCEPT !.ready = TRUE]
        BY <2>1, <3>2 DEF Published
      <4> QED BY <3>1, <4>1, PublishPlace
    <3>3. CASE ~ (queue[i].from = p /\ queue[i].nr = posted[p])
      <4>1. queue'[i] = queue[i]
        BY <2>1, <3>3 DEF Published
      <4> QED BY <3>1, <3>3, <4>1
    <3> QED BY <3>2, <3>3
  <2>3. /\ DOMAIN queue' = DOMAIN queue
        /\ queue' \in Seq(Place) /\ Len(queue') = Len(queue)
    <3>1. DOMAIN queue = 1 .. Len(queue) /\ Len(queue) \in Nat
      BY <2>1
    <3>2. queue' \in [1 .. Len(queue) -> Place]
      <4>1. queue' = [i \in 1 .. Len(queue) |-> queue'[i]]
        BY <2>1, <3>1 DEF Published
      <4>2. \A i \in 1 .. Len(queue) : queue'[i] \in Place
        BY <2>2, <3>1
      <4> QED BY <4>1, <4>2
    <3> QED BY <3>1, <3>2
  <2>4. TypeOK'
    <3>1. /\ ppc' \in [Producers -> {"idle", "push", "publish", "notify"}]
          /\ \A q \in Producers : ppc'[q] = "push" => posted'[q] < MaxPosts
      BY <1>3 DEF Publish, TypeOK
    <3>2. UNCHANGED <<posted, refused, ticket, cpc, handled, missed, owner,
                      notes, arrived, inputs, fresh>>
      BY <1>3 DEF Publish, messageVars
    <3> QED BY <2>3, <3>1, <3>2 DEF TypeOK, Place
  <2>5. Unpublished'
    <3> SUFFICES ASSUME NEW i \in DOMAIN queue, ~ queue'[i].ready
                 PROVE  /\ ppc'[queue[i].from] = "publish"
                        /\ queue[i].nr = posted[queue[i].from]
      BY <1>3, <2>2, <2>3 DEF Publish, Unpublished
    <3>1. /\ ppc[queue[i].from] = "publish" /\ queue[i].nr = posted[queue[i].from]
          /\ queue[i].from # p
      BY <2>2 DEF Unpublished
    <3> QED BY <1>3, <3>1 DEF Publish, TypeOK
  <2>6. StillThere'
    BY <1>3, <2>1, <2>3 DEF Publish, StillThere
  <2>7. Unseen'
    BY <1>3, <2>2, <2>3, PlaceTypes DEF Publish, Unseen, InCall, TypeOK, messageVars
  <2> QED BY <1>3, <2>4, <2>5, <2>6, <2>7 DEF Publish, messageVars
<1>4. CASE Notify(p)
  <2>1. TypeOK'
    BY <1>4 DEF Notify, TypeOK, WorkerPcs, messageVars
  <2>2. Unpublished'
    <3>1. \A q \in Producers \ {p} : ppc'[q] = ppc[q]
      BY <1>4 DEF Notify, TypeOK
    <3>2. \A i \in DOMAIN queue : queue[i].from \in Producers
      BY PlaceTypes
    <3> QED BY <1>4, <3>1, <3>2 DEF Notify, Unpublished
  <2>3. cpc' \notin {"peek", "msgWait"}
    BY <1>4 DEF Notify, TypeOK, WorkerPcs
  <2> QED BY <1>4, <2>1, <2>2, <2>3 DEF Notify, StillThere, Unseen, messageVars
<1>5. CASE PostNote(p)
  <2>1. TypeOK'
    <3>1. ppc' \in [Producers -> {"idle", "push", "publish", "notify"}]
      BY <1>5 DEF PostNote, TypeOK
    <3>2. notes' \in 0 .. MaxNotes
      BY <1>5 DEF PostNote, TypeOK
    <3>3. fresh' \in BOOLEAN
      BY <1>5 DEF PostNote, TypeOK
    <3> QED BY <1>5, <3>1, <3>2, <3>3 DEF PostNote, TypeOK
  <2>2. Unpublished'
    <3> SUFFICES ASSUME NEW i \in DOMAIN queue, ~ queue[i].ready
                 PROVE  /\ ppc'[queue[i].from] = "publish"
                        /\ queue[i].nr = posted[queue[i].from]
      BY <1>5 DEF PostNote, Unpublished
    <3>1. /\ ppc[queue[i].from] = "publish" /\ queue[i].nr = posted[queue[i].from]
      BY DEF Unpublished
    <3>2. queue[i].from \in Producers /\ queue[i].from # p
      BY <1>5, <3>1, PlaceTypes DEF PostNote
    <3> QED BY <1>5, <3>1, <3>2 DEF PostNote, TypeOK
  <2>3. notes' # 0 /\ ~ (cpc' = "msgWait" /\ ~ fresh')
    BY <1>5 DEF PostNote, TypeOK, Unseen
  <2> QED BY <1>5, <2>1, <2>2, <2>3 DEF PostNote, StillThere, Unseen
<1>6. CASE Load(p) \/ Reload(p)
  <2>1. /\ ppc[p] \in {"idle", "push"} /\ posted[p] < MaxPosts
        /\ ppc' \in [Producers -> {"idle", "push", "publish", "notify"}]
        /\ \A q \in Producers \ {p} : ppc'[q] = ppc[q]
        /\ UNCHANGED <<queue, posted, refused, cpc, handled, missed, owner>>
        /\ UNCHANGED <<notes, arrived, inputs, fresh>>
    BY <1>6 DEF Load, Reload, TypeOK, messageVars
  <2>2. NextPlace \in Nat
    <3>1. handled \in Seq(Events) /\ queue \in Seq(Place)
      BY PlaceTypes DEF TypeOK
    <3> QED BY <3>1, LenProperties DEF NextPlace
  <2>3. ticket' \in [Producers -> Nat]
    BY <1>6, <2>2 DEF Load, Reload, TypeOK
  <2>4. \A q \in Producers : ppc'[q] = "push" => posted'[q] < MaxPosts
    BY <2>1 DEF TypeOK
  <2>5. TypeOK'
    BY <2>1, <2>3, <2>4 DEF TypeOK
  <2>6. \A i \in DOMAIN queue : queue[i].from \in Producers
    BY PlaceTypes
  <2>7. Unpublished'
    BY <2>1, <2>6 DEF Unpublished
  <2>8. \A i \in DOMAIN queue : InCall(queue[i]) => InCall(queue[i])'
    BY <2>1, <2>6 DEF InCall
  <2>9. Unseen'
    BY <2>1, <2>8 DEF Unseen
  <2> QED BY <2>1, <2>5, <2>7, <2>9 DEF StillThere
<1> QED BY <1>1, <1>2, <1>3, <1>4, <1>5, <1>6 DEF Produce, Post

(* A pop, wherever the consumer makes it and goes on. *)
LEMMA PopInv ==
    ASSUME IInv, NEW l, NEW onSuccess, NEW onFailure, TryPop(l, onSuccess, onFailure),
           {onSuccess, onFailure} \subseteq
                (IF owner = "main" THEN {"testEmpty"} ELSE {"pop", "wakes"})
    PROVE  IInv'
<1> USE BoundsAssumption DEF IInv
<1>1. cpc' \in (IF owner = "main" THEN {"testEmpty"} ELSE {"pop", "wakes"})
  BY DEF TryPop
<1>2. CASE Ready
  <2>1. queue \in Seq(Place) /\ queue # <<>> /\ queue' = Tail(queue)
    BY <1>2 DEF Ready, TryPop, TypeOK, Place
  <2>2. /\ Head(queue) \in Place
        /\ queue' \in Seq(Place)
        /\ Len(queue') = Len(queue) - 1
        /\ \A i \in DOMAIN queue' : i + 1 \in DOMAIN queue /\ queue'[i] = queue[i + 1]
    BY <2>1
  <2>3. TypeOK'
    <3>1. queue' \in Seq(Place) /\ Len(queue') <= Capacity
      BY <2>1, <2>2 DEF TypeOK
    <3>2. handled' \in Seq(Events)
      <4>1. <<Head(queue).from, Head(queue).nr>> \in Events
        BY <2>2 DEF Place, Events
      <4>2. handled \in Seq(Events) /\ handled' = Append(handled, <<Head(queue).from, Head(queue).nr>>)
        BY <1>2 DEF TryPop, TypeOK
      <4> QED BY <4>1, <4>2
    <3>3. cpc' \in IF owner = "main" THEN MainPcs ELSE WorkerPcs
      BY <1>1 DEF WorkerPcs, MainPcs
    <3> QED BY <3>1, <3>2, <3>3 DEF TryPop, TypeOK, Place, messageVars
  <2>4. Unpublished'
    BY <1>2, <2>2 DEF TryPop, Unpublished
  <2> QED BY <1>1, <2>3, <2>4 DEF TryPop, StillThere, Unseen, messageVars
<1>3. CASE ~ Ready
  <2>1. TypeOK'
    BY <1>1, <1>3 DEF TryPop, TypeOK, WorkerPcs, MainPcs, messageVars
  <2> QED BY <1>1, <1>3, <2>1 DEF TryPop, Unpublished, StillThere, Unseen, messageVars
<1> QED BY <1>2, <1>3

(* The steps of a worker's thread. *)
LEMMA ConsumeInv == IInv /\ (Consume \/ SpuriousWakeup) => IInv'
<1> SUFFICES ASSUME IInv, Consume \/ SpuriousWakeup PROVE IInv'
  OBVIOUS
<1> USE DEF IInv
<1>1. CASE FastPop
  <2>1. owner # "main"
    BY <1>1 DEF FastPop, TryPop, TypeOK, MainPcs
  <2> QED BY <1>1, <2>1, PopInv DEF FastPop
<1>2. CASE PopAgain
  <2>1. owner # "main"
    BY <1>2 DEF PopAgain, TryPop, TypeOK, MainPcs
  <2> QED BY <1>2, <2>1, PopInv DEF PopAgain
<1>3. CASE TestSize \/ Block \/ Timeout \/ SpuriousWakeup
  <2>1. TypeOK'
    BY <1>3 DEF TestSize, Block, Timeout, SpuriousWakeup, ConsumerGoes, TypeOK,
                WorkerPcs, MainPcs, messageVars
  <2>2. StillThere' /\ cpc' \notin {"peek", "msgWait"}
    BY <1>3 DEF TestSize, Block, Timeout, SpuriousWakeup, ConsumerGoes, StillThere
  <2>3. Unpublished'
    BY <1>3 DEF TestSize, Block, Timeout, SpuriousWakeup, ConsumerGoes, Unpublished
  <2> QED BY <1>3, <2>1, <2>2, <2>3
          DEF TestSize, Block, Timeout, SpuriousWakeup, ConsumerGoes, Unseen, messageVars
<1> QED BY <1>1, <1>2, <1>3 DEF Consume

(* The steps of the main thread and of the system. *)
LEMMA TurnInv == IInv /\ (Turn \/ ModalEnds \/ Input) => IInv'
<1> SUFFICES ASSUME IInv, Turn \/ ModalEnds \/ Input PROVE IInv'
  OBVIOUS
<1> USE DEF IInv
<1> DEFINE Goes == TestEmpty \/ Peek \/ MsgWakes \/ TakeMessage \/ ModalTakes
                   \/ TrySize \/ ModalEnds
<1>1. CASE Goes
  <2>1. UNCHANGED <<queue, posted, refused, ppc, ticket, handled, missed, owner>>
    BY <1>1 DEF TestEmpty, Peek, MsgWakes, TakeMessage, ModalTakes, TrySize, ModalEnds,
                ConsumerGoes
  <2>2. cpc \in MainPcs /\ cpc' \in MainPcs
    BY <1>1 DEF TestEmpty, Peek, MsgWakes, TakeMessage, ModalTakes, TrySize, ModalEnds,
                ConsumerGoes, MainPcs
  <2>3. owner = "main"
    BY <2>2 DEF TypeOK, WorkerPcs, MainPcs
  <2>4. /\ notes' \in 0 .. MaxNotes /\ inputs' \in 0 .. MaxInputs
        /\ fresh' \in BOOLEAN /\ arrived' = arrived /\ inputs' <= arrived
    <3>1. CASE UNCHANGED messageVars
      BY <3>1 DEF TypeOK, messageVars
    <3>2. CASE TakeNote
      <4>1. fresh' \in BOOLEAN
        BY <3>2 DEF TakeNote
      <4> QED BY <3>2, <4>1, BoundsAssumption DEF TakeNote, TypeOK
    <3>3. CASE TakeInput
      <4>1. fresh' \in BOOLEAN
        BY <3>3 DEF TakeInput
      <4> QED BY <3>3, <4>1, BoundsAssumption DEF TakeInput, TypeOK
    <3>4. CASE fresh' = FALSE /\ UNCHANGED <<notes, inputs, arrived>>
      BY <3>4 DEF TypeOK
    <3> QED BY <1>1, <3>1, <3>2, <3>3, <3>4
            DEF TestEmpty, Peek, MsgWakes, TakeMessage, ModalTakes, TrySize, ModalEnds
  <2>5. TypeOK'
    BY <2>1, <2>2, <2>3, <2>4 DEF TypeOK
  <2>6. Unpublished' /\ StillThere'
    BY <2>1, <2>2 DEF Unpublished, StillThere, MainPcs
  <2>7. Unseen'
    <3>1. CASE TestEmpty
      BY <3>1, <2>1 DEF TestEmpty, ConsumerGoes, Unseen, messageVars
    <3>2. CASE Peek
      BY <3>2, <2>1 DEF Peek, ConsumerGoes, Unseen, InCall, TypeOK
    <3>3. CASE MsgWakes \/ TakeMessage \/ ModalTakes \/ TrySize \/ ModalEnds
      <4>1. cpc' \notin {"peek", "msgWait"}
        BY <3>3 DEF MsgWakes, TakeMessage, ModalTakes, TrySize, ModalEnds, ConsumerGoes
      <4> QED BY <4>1 DEF Unseen
    <3> QED BY <1>1, <3>1, <3>2, <3>3
  <2> QED BY <2>4, <2>5, <2>6, <2>7
<1>2. CASE TryPopEvent
  <2>1. owner = "main"
    BY <1>2 DEF TryPopEvent, TryPop, TypeOK, WorkerPcs
  <2> QED BY <1>2, <2>1, PopInv DEF TryPopEvent
<1>3. CASE Input
  <2>1. TypeOK' /\ inputs' <= arrived'
    BY <1>3, BoundsAssumption DEF Input, TypeOK
  <2>2. Unpublished' /\ StillThere'
    BY <1>3 DEF Input, Unpublished, StillThere
  <2>3. Unseen'
    BY <1>3 DEF Input, Unseen, InCall
  <2> QED BY <2>1, <2>2, <2>3
<1> QED BY <1>1, <1>2, <1>3 DEF Turn

LEMMA StepInv == IInv /\ [Next]_vars => IInv'
<1> SUFFICES ASSUME IInv, [Next]_vars PROVE IInv'
  OBVIOUS
<1>1. CASE UNCHANGED vars
  BY <1>1 DEF vars, messageVars, IInv, TypeOK, Unpublished, StillThere, Unseen, InCall
<1> QED BY <1>1, ProduceInv, ConsumeInv, TurnInv DEF Next
-----------------------------------------------------------------------------
(* What each thread knows at its place in the code. *)
THEOREM Invariant == Spec => []IInv
<1>1. Init => IInv
  BY InitInv
<1>2. IInv /\ [Next]_vars => IInv'
  BY StepInv
<1> QED BY <1>1, <1>2, PTL DEF Spec

(* The queue, the counters and the positions of all threads have their types *)
(* and keep to their bounds.                                                 *)
THEOREM TypeCorrect == Spec => []TypeOK
<1>1. IInv => TypeOK
  BY DEF IInv
<1> QED BY <1>1, Invariant, PTL

(* App::run never sleeps on an event whose post has returned, although       *)
(* App::postEvent and the modal loops of the system are not synchronised     *)
(* with it.                                                                  *)
THEOREM MainNeverSleepsOnEvents == Spec => []MainAwake
<1>1. IInv => MainAwake
  BY DEF IInv, Unseen, MainAwake
<1> QED BY <1>1, Invariant, PTL

(* popEvent() without a timeout fails only while a push is under way. *)
THEOREM TicksWhilePublishing == Spec => TickOnlyWhilePublishing
<1>1. IInv /\ [Next]_vars =>
        [(owner = "waiting" /\ cpc = "popAgain" /\ cpc' = "pop" /\ handled' = handled) =>
             \E p \in Producers : /\ ppc[p] = "publish"
                                  /\ Head(queue).from = p]_vars
  <2> SUFFICES ASSUME IInv, [Next]_vars, owner = "waiting", cpc = "popAgain",
                      cpc' = "pop", handled' = handled
               PROVE  \E p \in Producers : ppc[p] = "publish" /\ Head(queue).from = p
    OBVIOUS
  <2>1. queue \in Seq(Place) /\ queue # <<>>
    BY DEF IInv, TypeOK, StillThere, Place
  <2>2. Head(queue) = queue[1] /\ 1 \in DOMAIN queue /\ queue[1] \in Place
    BY <2>1
  <2>3. CASE Ready
    <3>1. handled \in Seq(Events)
      BY DEF IInv, TypeOK
    <3>2. PopAgain
      BY DEF Next, vars, Produce, Post, Load, Reload, Claim, Refuse, Publish, Notify, PostNote, Consume, FastPop,
             TestSize, Block, Timeout, SpuriousWakeup, Turn, TestEmpty, Peek, MsgWakes,
             TakeMessage, ModalTakes, TrySize, TryPopEvent, ModalEnds, Input, ConsumerGoes, TryPop
    <3>3. handled' = Append(handled, <<Head(queue).from, Head(queue).nr>>)
      BY <2>3, <3>2 DEF PopAgain, TryPop
    <3>4. <<Head(queue).from, Head(queue).nr>> \in Events
      BY <2>2 DEF Place, Events
    <3>5. Len(handled') = Len(handled) + 1
      BY <3>1, <3>3, <3>4
    <3> QED BY <3>1, <3>5
  <2>4. CASE ~ Ready
    <3>1. ~ queue[1].ready
      BY <2>1, <2>2, <2>4 DEF Ready
    <3>2. ppc[queue[1].from] = "publish"
      BY <2>2, <3>1 DEF IInv, Unpublished
    <3> QED BY <2>2, <3>2 DEF Place
  <2> QED BY <2>3, <2>4
<1> QED BY <1>1, Invariant, PTL DEF Spec, TickOnlyWhilePublishing

-----------------------------------------------------------------------------
(* The order of the events.  A post is refused when it has begun.           *)
RefusedBegan == \A e \in refused : e[2] <= posted[e[1]]

OrderInv == RefusedBegan /\ PerProducerOrder

LEMMA ConcatOf ==
    ASSUME NEW S, NEW h \in Seq(S), NEW q \in Seq(S)
    PROVE  /\ h \o q \in Seq(S) /\ Len(h \o q) = Len(h) + Len(q)
           /\ \A k \in 1 .. Len(h) + Len(q) :
                 (h \o q)[k] = IF k <= Len(h) THEN h[k] ELSE q[k - Len(h)]
OBVIOUS

LEMMA AppendLater ==
    ASSUME NEW S, NEW h \in Seq(S), NEW q \in Seq(S), NEW x \in S
    PROVE  h \o Append(q, x) = Append(h \o q, x)
OBVIOUS

LEMMA HeadMoves ==
    ASSUME NEW S, NEW h \in Seq(S), NEW q \in Seq(S), q # <<>>
    PROVE  Append(h, Head(q)) \o Tail(q) = h \o q
OBVIOUS

LEMMA PlacesOf ==
    ASSUME TypeOK
    PROVE  /\ Places \in Seq(Events) /\ Len(Places) = Len(queue) /\ DOMAIN Places = DOMAIN queue
           /\ \A i \in DOMAIN queue : Places[i] = <<queue[i].from, queue[i].nr>>
           /\ handled \in Seq(Events) /\ OnTheWay \in Seq(Events)
<1>1. /\ queue \in Seq(Place) /\ DOMAIN queue = 1 .. Len(queue) /\ Len(queue) \in Nat
      /\ \A i \in DOMAIN queue : queue[i] \in Place
  BY PlaceTypes
<1>2. \A i \in DOMAIN queue : <<queue[i].from, queue[i].nr>> \in Events
  BY <1>1 DEF Place, Events
<1>3. Places \in [1 .. Len(queue) -> Events]
  BY <1>1, <1>2 DEF Places
<1>4. Places \in Seq(Events) /\ Len(Places) = Len(queue)
  BY <1>1, <1>3
<1>5. handled \in Seq(Events)
  BY DEF TypeOK
<1>6. OnTheWay \in Seq(Events)
  BY <1>4, <1>5, ConcatOf DEF OnTheWay
<1> QED BY <1>1, <1>4, <1>5, <1>6 DEF Places

LEMMA OrderInit == Init => OrderInv
<1> SUFFICES ASSUME Init PROVE OrderInv
  OBVIOUS
<1>1. Places = <<>>
  BY DEF Init, Places
<1>2. OnTheWay = <<>> /\ DOMAIN OnTheWay = {}
  BY <1>1 DEF Init, OnTheWay
<1>3. \A e \in Events : ~ (e[2] <= posted[e[1]])
  BY BoundsAssumption DEF Init, Events
<1>4. PerProducerOrder
  BY <1>2, <1>3 DEF PerProducerOrder, Range
<1> QED BY <1>4 DEF OrderInv, RefusedBegan, Init

(* Steps that only move events along.                                       *)
LEMMA OrderStays ==
    ASSUME OrderInv, OnTheWay' = OnTheWay, UNCHANGED <<posted, refused>>
    PROVE  OrderInv'
BY DEF OrderInv, RefusedBegan, PerProducerOrder

LEMMA OrderClaim == ASSUME TypeOK, OrderInv, NEW p \in Producers, Claim(p) PROVE OrderInv'
<1>1. PICK n : n = posted[p] + 1
  OBVIOUS
<1>2. PICK e : e = [from |-> p, nr |-> n, ready |-> FALSE]
  OBVIOUS
<1>3. /\ n \in 1 .. MaxPosts /\ <<p, n>> \in Events /\ e \in Place
      /\ posted \in [Producers -> 0 .. MaxPosts]
  BY <1>1, <1>2, BoundsAssumption DEF Claim, TypeOK, Events, Place
<1>4. posted'[p] = n /\ \A r \in Producers \ {p} : posted'[r] = posted[r]
  BY <1>1, <1>3 DEF Claim
<1>5. queue' = Append(queue, e) /\ UNCHANGED <<handled, refused>>
  BY <1>2, <1>4 DEF Claim
<1>6. Places' = Append(Places, <<p, n>>)
  <2>1. /\ queue \in Seq(Place) /\ Places \in Seq(Events) /\ Len(Places) = Len(queue)
        /\ \A i \in DOMAIN queue : Places[i] = <<queue[i].from, queue[i].nr>>
    BY PlacesOf, PlaceTypes
  <2>2. /\ DOMAIN queue' = 1 .. Len(queue) + 1 /\ DOMAIN queue = 1 .. Len(queue)
        /\ Len(queue) \in Nat /\ queue'[Len(queue) + 1] = e
        /\ \A i \in DOMAIN queue : queue'[i] = queue[i]
    BY <1>3, <1>5, <2>1
  <2>3. Places' = [i \in 1 .. Len(queue) + 1 |-> <<queue'[i].from, queue'[i].nr>>]
    BY <2>2 DEF Places
  <2>4. PICK s : s = Append(Places, <<p, n>>)
    OBVIOUS
  <2>5. s = [i \in 1 .. Len(queue) + 1 |-> s[i]]
    BY <1>3, <2>1, <2>4
  <2>6. /\ s[Len(queue) + 1] = <<p, n>>
        /\ \A i \in 1 .. Len(queue) : s[i] = Places[i]
    BY <1>3, <2>1, <2>4
  <2>7. \A i \in 1 .. Len(queue) + 1 : s[i] = <<queue'[i].from, queue'[i].nr>>
    BY <1>2, <2>1, <2>2, <2>6
  <2> QED BY <2>3, <2>4, <2>5, <2>7
<1>7. OnTheWay' = Append(OnTheWay, <<p, n>>)
  BY <1>3, <1>5, <1>6, PlacesOf, AppendLater DEF OnTheWay
<1>8. PICK s, t : s = OnTheWay /\ t = OnTheWay'
  OBVIOUS
<1>9. /\ s \in Seq(Events) /\ DOMAIN t = DOMAIN s \cup {Len(s) + 1}
      /\ DOMAIN s = 1 .. Len(s) /\ Len(s) \in Nat
      /\ t[Len(s) + 1] = <<p, n>> /\ \A i \in DOMAIN s : t[i] = s[i]
  BY <1>3, <1>7, <1>8, PlacesOf
<1>10. \A x \in Events : x[1] \in Producers /\ x[2] \in 1 .. MaxPosts /\ x = <<x[1], x[2]>>
  BY DEF Events
<1>11. \A x \in Events : x[2] <= posted'[x[1]] <=> (x[2] <= posted[x[1]] \/ x = <<p, n>>)
  <2> TAKE x \in Events
  <2>1. CASE x[1] = p
    BY <1>1, <1>3, <1>4, <1>10, <2>1, BoundsAssumption
  <2>2. CASE x[1] # p
    BY <1>4, <1>10, <2>2
  <2> QED BY <2>1, <2>2
<1>12. <<p, n>> \notin refused /\ ~ (n <= posted[p])
  BY <1>1, <1>3 DEF OrderInv, RefusedBegan
<1>13. RefusedBegan'
  BY <1>1, <1>3, <1>4, <1>5, <1>11 DEF OrderInv, RefusedBegan, TypeOK
<1>14. Range(t) = Range(s) \cup {<<p, n>>}
  BY <1>9 DEF Range
<1>15. Range(t) = {x \in Events : x[2] <= posted'[x[1]]} \ refused'
  BY <1>3, <1>5, <1>8, <1>11, <1>12, <1>14 DEF OrderInv, PerProducerOrder
<1>16. ASSUME NEW i \in DOMAIN s
       PROVE  s[i] \in Events /\ (s[i][1] = p => s[i][2] < n)
  <2>1. s[i] \in Range(s)
    BY DEF Range
  <2>2. s[i] \in Events /\ s[i][2] <= posted[s[i][1]]
    BY <1>8, <2>1 DEF OrderInv, PerProducerOrder
  <2> QED BY <1>1, <1>3, <1>10, <2>2
<1>17. \A i, j \in DOMAIN t : (i < j /\ t[i][1] = t[j][1]) => t[i][2] < t[j][2]
  <2> TAKE i, j \in DOMAIN t
  <2>1. i < j => i \in DOMAIN s /\ t[i] = s[i]
    BY <1>9
  <2>2. CASE j \in DOMAIN s
    BY <1>8, <1>9, <2>1, <2>2 DEF OrderInv, PerProducerOrder
  <2>3. CASE j = Len(s) + 1
    <3>1. t[j] = <<p, n>> /\ t[j][1] = p /\ t[j][2] = n
      BY <1>9, <2>3
    <3> QED BY <1>16, <2>1, <3>1
  <2> QED BY <1>9, <2>2, <2>3
<1> QED BY <1>8, <1>13, <1>15, <1>17 DEF OrderInv, PerProducerOrder

LEMMA OrderRefuse == ASSUME TypeOK, OrderInv, NEW p \in Producers, Refuse(p) PROVE OrderInv'
<1>1. PICK n : n = posted[p] + 1
  OBVIOUS
<1>2. /\ n \in 1 .. MaxPosts /\ <<p, n>> \in Events
      /\ posted \in [Producers -> 0 .. MaxPosts] /\ refused \subseteq Events
  BY <1>1, BoundsAssumption DEF Refuse, TypeOK, Events
<1>3. posted'[p] = n /\ \A r \in Producers \ {p} : posted'[r] = posted[r]
  BY <1>1, <1>2 DEF Refuse
<1>4. refused' = refused \cup {<<p, n>>} /\ OnTheWay' = OnTheWay
  BY <1>3 DEF Refuse, OnTheWay, Places
<1>5. \A x \in Events : x[1] \in Producers /\ x[2] \in 1 .. MaxPosts /\ x = <<x[1], x[2]>>
  BY DEF Events
<1>6. \A x \in Events : x[2] <= posted'[x[1]] <=> (x[2] <= posted[x[1]] \/ x = <<p, n>>)
  <2> TAKE x \in Events
  <2>1. CASE x[1] = p
    BY <1>1, <1>2, <1>3, <1>5, <2>1, BoundsAssumption
  <2>2. CASE x[1] # p
    BY <1>3, <1>5, <2>2
  <2> QED BY <2>1, <2>2
<1>7. ~ (n <= posted[p])
  BY <1>1, <1>2
<1>8. RefusedBegan'
  BY <1>2, <1>4, <1>6 DEF OrderInv, RefusedBegan
<1>9. {x \in Events : x[2] <= posted'[x[1]]} \ refused' =
          {x \in Events : x[2] <= posted[x[1]]} \ refused
  <2>1. ~ (<<p, n>>[2] <= posted[<<p, n>>[1]])
    BY <1>7
  <2> QED BY <1>4, <1>6, <2>1
<1> QED BY <1>4, <1>8, <1>9 DEF OrderInv, PerProducerOrder

LEMMA OrderPublish == ASSUME TypeOK, OrderInv, NEW p \in Producers, Publish(p) PROVE OrderInv'
<1>1. /\ queue' = Published(p) /\ UNCHANGED <<handled, posted, refused>>
      /\ \A i \in DOMAIN queue : queue[i] \in Place
  BY PlaceTypes DEF Publish
<1>2. DOMAIN queue' = DOMAIN queue
  BY <1>1 DEF Published
<1>3. \A i \in DOMAIN queue : queue'[i].from = queue[i].from /\ queue'[i].nr = queue[i].nr
  BY <1>1, PublishPlace DEF Published
<1>4. Places' = Places
  BY <1>2, <1>3 DEF Places
<1> QED BY <1>1, <1>4, OrderStays DEF OnTheWay

LEMMA OrderPop ==
    ASSUME TypeOK, OrderInv, NEW l, NEW onSuccess, NEW onFailure,
           TryPop(l, onSuccess, onFailure)
    PROVE  OrderInv'
<1>1. CASE ~ Ready
  BY <1>1, OrderStays DEF TryPop, OnTheWay, Places
<1>2. CASE Ready
  <2>1. /\ queue # <<>> /\ queue' = Tail(queue) /\ UNCHANGED <<posted, refused>>
        /\ handled' = Append(handled, <<Head(queue).from, Head(queue).nr>>)
    BY <1>2 DEF TryPop, Ready
  <2>2. /\ queue \in Seq(Place) /\ Places \in Seq(Events) /\ Len(Places) = Len(queue)
        /\ \A i \in DOMAIN queue : Places[i] = <<queue[i].from, queue[i].nr>>
        /\ handled \in Seq(Events)
    BY PlacesOf, PlaceTypes
  <2>3. /\ DOMAIN queue' = 1 .. Len(queue) - 1 /\ DOMAIN queue = 1 .. Len(queue)
        /\ Len(queue) \in Nat \ {0} /\ Head(queue) = queue[1]
        /\ \A i \in 1 .. Len(queue) - 1 : queue'[i] = queue[i + 1]
    BY <2>1, <2>2
  <2>4. Places # <<>> /\ Head(Places) = <<Head(queue).from, Head(queue).nr>>
    BY <2>2, <2>3
  <2>5. Places' = Tail(Places)
    <3>1. PICK s : s = Tail(Places)
      OBVIOUS
    <3>2. /\ s = [i \in 1 .. Len(queue) - 1 |-> s[i]]
          /\ \A i \in 1 .. Len(queue) - 1 : s[i] = Places[i + 1]
      <4>1. PICK q : q = Places
        OBVIOUS
      <4>2. q \in Seq(Events) /\ q # <<>> /\ Len(q) = Len(queue)
        BY <2>2, <2>4, <4>1
      <4>3. s \in Seq(Events) /\ Len(s) = Len(q) - 1
        BY <3>1, <4>1, <4>2
      <4>4. \A i \in 1 .. Len(q) - 1 : s[i] = q[i + 1]
        BY <3>1, <4>1, <4>2
      <4>5. DOMAIN s = 1 .. Len(q) - 1
        BY <4>3
      <4>6. s = [i \in 1 .. Len(q) - 1 |-> s[i]]
        BY <4>3, <4>5
      <4> QED BY <4>1, <4>2, <4>4, <4>6
    <3>3. ASSUME NEW i \in 1 .. Len(queue) - 1
          PROVE  s[i] = <<queue'[i].from, queue'[i].nr>>
      <4>1. i + 1 \in DOMAIN queue
        BY <2>3
      <4>2. s[i] = Places[i + 1] /\ queue'[i] = queue[i + 1]
        BY <2>3, <3>2
      <4> QED BY <2>2, <4>1, <4>2
    <3>4. Places' = [i \in 1 .. Len(queue) - 1 |-> <<queue'[i].from, queue'[i].nr>>]
      BY <2>3 DEF Places
    <3> QED BY <3>1, <3>2, <3>3, <3>4
  <2>6. OnTheWay' = Append(handled, Head(Places)) \o Tail(Places)
    BY <2>1, <2>4, <2>5 DEF OnTheWay
  <2>7. OnTheWay' = OnTheWay
    BY <2>2, <2>4, <2>6, HeadMoves DEF OnTheWay
  <2> QED BY <2>1, <2>7, OrderStays
<1> QED BY <1>1, <1>2

LEMMA OrderStep == TypeOK /\ OrderInv /\ [Next]_vars => OrderInv'
<1> SUFFICES ASSUME TypeOK, OrderInv, [Next]_vars PROVE OrderInv'
  OBVIOUS
<1>1. CASE UNCHANGED <<queue, handled, posted, refused>>
  BY <1>1, OrderStays DEF OnTheWay, Places
<1>2. CASE \E p \in Producers : Produce(p)
  <2>1. PICK p \in Producers : Produce(p)
    BY <1>2
  <2>2. CASE Load(p) \/ Reload(p) \/ Notify(p) \/ PostNote(p)
    BY <1>1, <2>2 DEF Load, Reload, Notify, PostNote
  <2> QED BY <2>1, <2>2, OrderClaim, OrderRefuse, OrderPublish DEF Produce, Post
<1>3. CASE FastPop \/ PopAgain \/ TryPopEvent
  BY <1>3, OrderPop DEF FastPop, PopAgain, TryPopEvent
<1>4. CASE TestSize \/ Block \/ Timeout \/ SpuriousWakeup
  BY <1>1, <1>4 DEF TestSize, Block, Timeout, SpuriousWakeup, ConsumerGoes
<1>5. CASE TestEmpty \/ Peek \/ MsgWakes \/ TakeMessage \/ ModalTakes \/ TrySize \/ ModalEnds
           \/ Input
  BY <1>1, <1>5 DEF TestEmpty, Peek, MsgWakes, TakeMessage, ModalTakes, TrySize, ModalEnds,
                    Input, ConsumerGoes
<1> QED BY <1>1, <1>2, <1>3, <1>4, <1>5 DEF Next, Consume, Turn, vars

(* Whatever a thread posts reaches the owner's loop in the order of the      *)
(* posts, each once, and only what EventQueue::postEvent has refused is      *)
(* missing, for any number of producers and any capacity.                    *)
THEOREM EventsInOrder == Spec => []PerProducerOrder
<1>1. OrderInv => PerProducerOrder
  BY DEF OrderInv
<1> QED BY <1>1, OrderInit, OrderStep, TypeCorrect, PTL DEF Spec
-----------------------------------------------------------------------------
(***************************************************************************)
(* The logger: what is written is what was logged, and termination loses   *)
(* only what was pushed while the log thread was deaf.                     *)
(***************************************************************************)

Logs == Log \cup {Farewell}
Unwritten == IF at = "pop" THEN Tail(logQueue) ELSE logQueue
Safe(n) == n <= Len(file) \/ n \in late

(* There is something to write or to pop when the log thread does so. *)
Busy == at \in {"write", "pop"} => logQueue # <<>>

(* From the log thread's last test of the queue on, all but what came late  *)
(* is in the file; an ended thread leaves only what came after terminate(). *)
Caught == at \in {"test", "wait", "asleep"} => \A n \in 1 .. Len(pushed) : Safe(n)
Left == at = "ended" => terminator # "idle" /\ \A n \in 1 .. owed : Safe(n)
Joined == terminator = "returned" => at = "ended"

LogInv == LogTypeOK /\ InOrder /\ Busy /\ Caught /\ Left /\ Joined

LEMMA LogInitInv == LogInit => LogInv
<1> SUFFICES ASSUME LogInit PROVE LogInv
  OBVIOUS
<1>1. <<>> \in Seq(Logs) /\ <<>> \o <<>> = <<>> /\ Len(<<>>) = 0
  BY EmptySeq, ConcatEmptySeq
<1>2. LogTypeOK
  <2>1. [w \in Writers |-> 0] \in [Writers -> 0 .. MaxLogs]
    BY BoundAssumption
  <2>2. late \subseteq Nat /\ owed \in 0 .. Len(pushed)
    BY <1>1 DEF LogInit
  <2>3. /\ shouldTerminate \in BOOLEAN /\ ~ shouldTerminate
        /\ terminator \notin {"notify", "join"}
    BY DEF LogInit
  <2>4. (shouldTerminate <=> terminator \in {"notify", "join"})
    BY <2>3
  <2>5. /\ at \in {"test", "wait", "asleep", "drain", "write", "pop", "ended"}
        /\ terminator \in {"idle", "notify", "join", "returned"}
        /\ deaf \in BOOLEAN
    BY DEF LogInit
  <2>6. /\ logQueue \in Seq(Logs) /\ file \in Seq(Logs) /\ pushed \in Seq(Logs)
        /\ logged \in [Writers -> 0 .. MaxLogs]
    BY <1>1, <2>1 DEF LogInit
  <2> QED BY <2>2, <2>3, <2>4, <2>5, <2>6 DEF LogTypeOK, Logs
<1>3. InOrder /\ Busy /\ Left /\ Joined
  BY <1>1 DEF LogInit, InOrder, Busy, Left, Joined
<1>4. Caught
  BY <1>1 DEF LogInit, Caught
<1> QED BY <1>2, <1>3, <1>4 DEF LogInv

(* The lengths that go with InOrder. *)
LEMMA LogSequences ==
    ASSUME LogInv
    PROVE  /\ logQueue \in Seq(Logs) /\ file \in Seq(Logs) /\ pushed \in Seq(Logs)
           /\ Unwritten \in Seq(Logs)
           /\ pushed = file \o Unwritten
           /\ Len(file) \in Nat /\ Len(pushed) \in Nat /\ Len(Unwritten) \in Nat
           /\ Len(pushed) = Len(file) + Len(Unwritten)
<1>1. logQueue \in Seq(Logs) /\ file \in Seq(Logs) /\ pushed \in Seq(Logs)
  BY DEF LogInv, LogTypeOK, Logs
<1>2. Unwritten \in Seq(Logs)
  BY <1>1, HeadTailProperties DEF Unwritten, LogInv, Busy
<1>3. pushed = file \o Unwritten
  BY DEF LogInv, InOrder, Unwritten
<1>4. Len(pushed) = Len(file) + Len(Unwritten)
  BY <1>1, <1>2, <1>3, ConcatProperties
<1> QED BY <1>1, <1>2, <1>3, <1>4, LenProperties

(* A push keeps the order, and is late if the log thread is deaf.           *)
LEMMA PushStep ==
    ASSUME LogInv, NEW log \in Logs, Push(log), at' = at \/ (at = "asleep" /\ at' = "drain")
                                              \/ (at = "test" /\ at' = "ended"),
           file' = file
    PROVE  /\ logQueue' \in Seq(Logs) /\ pushed' \in Seq(Logs)
           /\ Len(pushed') = Len(pushed) + 1
           /\ late' \subseteq Nat
           /\ InOrder' /\ Busy'
           /\ \A n \in 1 .. Len(pushed) : Safe(n) => Safe(n)'
           /\ Deaf => Len(pushed) + 1 \in late'
<1>1. /\ logQueue' = Append(logQueue, log) /\ pushed' = Append(pushed, log)
      /\ late' = IF Deaf THEN late \cup {Len(pushed) + 1} ELSE late
  BY DEF Push
<1>2. /\ logQueue' \in Seq(Logs) /\ pushed' \in Seq(Logs) /\ logQueue' # <<>>
      /\ Len(pushed') = Len(pushed) + 1
  BY <1>1, LogSequences, AppendProperties
<1>3. late' \subseteq Nat
  <2>1. late \subseteq Nat /\ Len(pushed) + 1 \in Nat
    BY LogSequences DEF LogInv, LogTypeOK
  <2> QED BY <1>1, <2>1
<1>4. Unwritten' = Append(Unwritten, log)
  <2>1. CASE at = "pop"
    <3>1. at' = "pop"
      BY <2>1
    <3>2. logQueue # <<>>
      BY <2>1 DEF LogInv, Busy
    <3>3. Tail(Append(logQueue, log)) = Append(Tail(logQueue), log)
      BY <3>2, LogSequences, HeadTailAppend
    <3> QED BY <1>1, <2>1, <3>1, <3>3 DEF Unwritten
  <2>2. CASE at # "pop"
    BY <1>1, <2>2 DEF Unwritten
  <2> QED BY <2>1, <2>2
<1>5. file \o Append(Unwritten, log) = Append(pushed, log)
  <2>1. Append(Unwritten, log) = Unwritten \o <<log>> /\ Append(pushed, log) = pushed \o <<log>>
    BY LogSequences, AppendIsConcat
  <2>2. <<log>> \in Seq(Logs) /\ file \in Seq(Logs) /\ Unwritten \in Seq(Logs)
    BY LogSequences
  <2>3. (file \o Unwritten) \o <<log>> = file \o (Unwritten \o <<log>>)
    BY <2>2, ConcatAssociative
  <2> QED BY <2>1, <2>3, LogSequences
<1>6. InOrder'
  BY <1>1, <1>4, <1>5 DEF InOrder, Unwritten
<1>7. Busy'
  BY <1>2 DEF Busy
<1>8. \A n \in 1 .. Len(pushed) : Safe(n) => Safe(n)'
  BY <1>1 DEF Safe
<1>9. Deaf => Len(pushed) + 1 \in late'
  BY <1>1
<1> QED BY <1>2, <1>3, <1>6, <1>7, <1>8, <1>9

LEMMA ForwardStep == ASSUME LogInv, NEW w \in Writers, Forward(w) PROVE LogInv'
<1> DEFINE log == [writer |-> w, nr |-> logged[w] + 1]
<1>1. /\ logged[w] < MaxLogs /\ Push(log) /\ logged' = [logged EXCEPT ![w] = @ + 1]
      /\ at' = Notified /\ file' = file /\ UNCHANGED terminating
  BY DEF Forward, PushBy
<1>2. logged[w] + 1 \in 1 .. MaxLogs /\ log \in Logs
  BY <1>1, BoundAssumption DEF LogInv, LogTypeOK, Logs, Log
<1>3. /\ logQueue' \in Seq(Logs) /\ pushed' \in Seq(Logs)
      /\ Len(pushed') = Len(pushed) + 1
      /\ late' \subseteq Nat
      /\ InOrder' /\ Busy'
      /\ \A n \in 1 .. Len(pushed) : Safe(n) => Safe(n)'
      /\ Deaf => Len(pushed) + 1 \in late'
  BY <1>1, <1>2, PushStep DEF Notified
<1>4. LogTypeOK'
  <2>1. at' \in {"test", "wait", "asleep", "drain", "write", "pop", "ended"}
    BY <1>1 DEF Notified, LogInv, LogTypeOK
  <2>2. logged' \in [Writers -> 0 .. MaxLogs]
    BY <1>1, <1>2, BoundAssumption DEF LogInv, LogTypeOK
  <2>3. owed' \in 0 .. Len(pushed')
    BY <1>1, <1>3, LogSequences DEF terminating, LogInv, LogTypeOK
  <2> QED BY <1>1, <1>3, <2>1, <2>2, <2>3 DEF terminating, LogInv, LogTypeOK, Logs
<1>5. Caught'
  <2> SUFFICES ASSUME at' \in {"test", "wait", "asleep"}, NEW n \in 1 .. Len(pushed')
               PROVE  Safe(n)'
    BY DEF Caught
  <2>1. at' = at /\ Deaf
    BY <1>1 DEF Notified, Deaf
  <2>2. n \in 1 .. Len(pushed) \/ n = Len(pushed) + 1
    BY <1>3, LogSequences
  <2> QED BY <1>3, <2>1, <2>2 DEF LogInv, Caught, Deaf, Safe
<1>6. Left'
  <2> SUFFICES ASSUME at' = "ended" PROVE terminator' # "idle" /\ \A n \in 1 .. owed' : Safe(n)'
    BY DEF Left
  <2>1. at = "ended" /\ terminator' = terminator /\ owed' = owed
    BY <1>1 DEF Notified, terminating
  <2>2. 1 .. owed \subseteq 1 .. Len(pushed)
    BY LogSequences DEF LogInv, LogTypeOK
  <2> QED BY <1>3, <2>1, <2>2 DEF LogInv, Left
<1>7. Joined'
  BY <1>1 DEF Notified, terminating, LogInv, Joined
<1> QED BY <1>3, <1>4, <1>5, <1>6, <1>7 DEF LogInv

(* A step of the log thread that does not touch the queue or the file.      *)
LEMMA LogGoes ==
    ASSUME LogInv, UNCHANGED <<logQueue, file, logs, terminating>>,
           \/ at = "wait" /\ at' = "asleep"
           \/ at = "asleep" /\ at' = "drain"
           \/ at = "test" /\ at' = "wait"
           \/ at = "drain" /\ logQueue # <<>> /\ at' = "write"
           \/ at = "drain" /\ logQueue = <<>> /\ at' = "test"
    PROVE  LogInv'
<1>1. /\ logQueue' = logQueue /\ file' = file /\ logged' = logged /\ pushed' = pushed
      /\ late' = late /\ terminator' = terminator /\ owed' = owed
      /\ shouldTerminate' = shouldTerminate /\ deaf' = deaf
  BY DEF logs, terminating
<1>2. LogTypeOK'
  BY <1>1 DEF LogInv, LogTypeOK
<1>3. InOrder'
  BY <1>1 DEF LogInv, InOrder
<1>4. Busy'
  BY <1>1 DEF LogInv, Busy
<1>5. Caught'
  <2> SUFFICES ASSUME at' \in {"test", "wait", "asleep"}, NEW n \in 1 .. Len(pushed)
               PROVE  Safe(n)'
    BY <1>1 DEF Caught
  <2>1. CASE at = "drain"
    <3>1. Unwritten = <<>>
      BY <2>1 DEF Unwritten
    <3>2. Len(pushed) = Len(file)
      BY <3>1, LogSequences, EmptySeq
    <3> QED BY <1>1, <3>2, LogSequences DEF Safe
  <2>2. CASE at \in {"wait", "test"}
    BY <1>1, <2>2 DEF LogInv, Caught, Safe
  <2> QED BY <2>1, <2>2
<1>6. Left' /\ Joined'
  BY <1>1 DEF LogInv, Left, Joined
<1> QED BY <1>2, <1>3, <1>4, <1>5, <1>6 DEF LogInv

LEMMA LogEnds == ASSUME LogInv, TestTerminate, shouldTerminate PROVE LogInv'
<1>1. /\ at = "test" /\ at' = "ended" /\ Push(Farewell)
      /\ file' = file /\ logged' = logged /\ terminator' = terminator
      /\ shouldTerminate' = shouldTerminate /\ owed' = owed /\ deaf' = deaf
  BY DEF TestTerminate, terminating
<1>2. Farewell \in Logs
  BY DEF Logs
<1>3. /\ logQueue' \in Seq(Logs) /\ pushed' \in Seq(Logs)
      /\ Len(pushed') = Len(pushed) + 1
      /\ late' \subseteq Nat
      /\ InOrder' /\ Busy'
      /\ \A n \in 1 .. Len(pushed) : Safe(n) => Safe(n)'
  BY <1>1, <1>2, PushStep
<1>4. LogTypeOK'
  <2>1. owed' \in 0 .. Len(pushed')
    BY <1>1, <1>3, LogSequences DEF LogInv, LogTypeOK
  <2> QED BY <1>1, <1>3, <2>1 DEF LogInv, LogTypeOK, Logs
<1>5. Caught'
  BY <1>1 DEF Caught
<1>6. Left'
  <2>1. terminator # "idle"
    BY DEF LogInv, LogTypeOK
  <2>2. 1 .. owed \subseteq 1 .. Len(pushed)
    BY LogSequences DEF LogInv, LogTypeOK
  <2>3. \A n \in 1 .. owed : Safe(n)
    BY <1>1, <2>2 DEF LogInv, Caught
  <2> QED BY <1>1, <1>3, <2>1, <2>2, <2>3 DEF Left
<1>7. Joined'
  BY <1>1 DEF Joined
<1> QED BY <1>3, <1>4, <1>5, <1>6, <1>7 DEF LogInv

(* The first of the queue goes to the end of the file. *)
LEMMA WriteStep == ASSUME LogInv, Write PROVE LogInv'
<1>1. /\ at = "write" /\ at' = "pop" /\ file' = Append(file, Head(logQueue))
      /\ logQueue' = logQueue /\ logged' = logged /\ pushed' = pushed /\ late' = late
      /\ terminator' = terminator /\ shouldTerminate' = shouldTerminate
      /\ owed' = owed /\ deaf' = deaf
  BY DEF Write, logs, terminating
<1>2. logQueue # <<>> /\ logQueue \in Seq(Logs) /\ file \in Seq(Logs)
  BY <1>1, LogSequences DEF LogInv, Busy
<1> DEFINE h == Head(logQueue)
           t == Tail(logQueue)
<1>3. h \in Logs /\ t \in Seq(Logs) /\ <<h>> \in Seq(Logs)
  BY <1>2, HeadTailProperties
<1>4. logQueue = <<h>> \o t
  <2>1. Len(logQueue) \in Nat \ {0}
    BY <1>2, EmptySeq
  <2>2. SubSeq(logQueue, 1, Len(logQueue)) = <<logQueue[1]>> \o SubSeq(logQueue, 1 + 1, Len(logQueue))
    BY <1>2, <2>1, SubSeqRecursiveFirst
  <2>3. SubSeq(logQueue, 1, Len(logQueue)) = logQueue
    BY <1>2, SubSeqFull
  <2>4. t = SubSeq(logQueue, 2, Len(logQueue)) /\ 1 + 1 = 2
    BY <1>2, TailIsSubSeq
  <2>5. h = logQueue[1]
    OBVIOUS
  <2> QED BY <2>2, <2>3, <2>4, <2>5
<1>5. file' \in Seq(Logs) /\ file' = file \o <<h>> /\ Len(file') = Len(file) + 1
  BY <1>1, <1>2, <1>3, AppendProperties, AppendIsConcat
<1>6. InOrder'
  <2>1. pushed = file \o logQueue
    BY <1>1 DEF LogInv, InOrder
  <2>2. (file \o <<h>>) \o t = file \o (<<h>> \o t)
    BY <1>2, <1>3, ConcatAssociative
  <2>3. pushed' = file' \o t
    BY <1>1, <1>4, <1>5, <2>1, <2>2
  <2> QED BY <1>1, <2>3 DEF InOrder
<1>7. LogTypeOK'
  BY <1>1, <1>5 DEF LogInv, LogTypeOK, Logs
<1> QED BY <1>1, <1>2, <1>6, <1>7 DEF LogInv, Busy, Caught, Left, Joined

LEMMA PopStep == ASSUME LogInv, Pop PROVE LogInv'
<1>1. /\ at = "pop" /\ at' = "drain" /\ logQueue' = Tail(logQueue) /\ file' = file
      /\ logged' = logged /\ pushed' = pushed /\ late' = late
      /\ terminator' = terminator /\ shouldTerminate' = shouldTerminate
      /\ owed' = owed /\ deaf' = deaf
  BY DEF Pop, logs, terminating
<1>2. Tail(logQueue) \in Seq(Logs)
  BY <1>1, LogSequences DEF Unwritten
<1>3. LogTypeOK'
  BY <1>1, <1>2 DEF LogInv, LogTypeOK, Logs
<1>4. InOrder'
  BY <1>1 DEF LogInv, InOrder
<1> QED BY <1>1, <1>3, <1>4 DEF LogInv, Busy, Caught, Left, Joined

LEMMA TerminateStep ==
    ASSUME LogInv, SetTerminate \/ NotifyTerminate \/ Join
    PROVE  LogInv'
<1>1. logQueue' = logQueue /\ file' = file /\ logged' = logged /\ pushed' = pushed /\ late' = late
  BY DEF SetTerminate, NotifyTerminate, Join, logs
<1>2. at' = at \/ (at = "asleep" /\ at' = "drain")
  BY DEF SetTerminate, NotifyTerminate, Join, Notified
<1>3. LogTypeOK'
  <2>1. CASE SetTerminate
    <3>1. owed' \in 0 .. Len(pushed')
      BY <1>1, <2>1, LogSequences DEF SetTerminate
    <3> QED BY <1>1, <2>1, <3>1 DEF SetTerminate, LogInv, LogTypeOK
  <2>2. CASE NotifyTerminate
    BY <1>1, <1>2, <2>2 DEF NotifyTerminate, LogInv, LogTypeOK
  <2>3. CASE Join
    BY <1>1, <2>3 DEF Join, LogInv, LogTypeOK
  <2> QED BY <2>1, <2>2, <2>3
<1>4. InOrder' /\ Busy' /\ Caught'
  BY <1>1, <1>2 DEF LogInv, InOrder, Busy, Caught, Safe
<1>5. Left' /\ Joined'
  <2>1. CASE SetTerminate
    BY <1>1, <2>1 DEF SetTerminate, LogInv, Left, Joined
  <2>2. CASE NotifyTerminate \/ Join
    BY <1>1, <1>2, <2>2 DEF NotifyTerminate, Join, LogInv, Left, Joined, Safe
  <2> QED BY <2>1, <2>2
<1> QED BY <1>3, <1>4, <1>5 DEF LogInv

LEMMA LogStepInv == ASSUME LogInv, [LogNext]_logVars PROVE LogInv'
<1>1. CASE \E w \in Writers : Forward(w)
  BY <1>1, ForwardStep
<1>2. CASE TestTerminate
  <2>1. CASE shouldTerminate
    BY <1>2, <2>1, LogEnds
  <2>2. CASE ~ shouldTerminate
    <3>1. /\ at = "test" /\ at' = "wait"
          /\ UNCHANGED <<logQueue, file, logs, terminating>>
      BY <1>2, <2>2 DEF TestTerminate, logs
    <3> QED BY <3>1, LogGoes
  <2> QED BY <2>1, <2>2
<1>3. CASE Wait \/ LogWakeup \/ TestQueue
  <2>1. /\ UNCHANGED <<logQueue, file, logs, terminating>>
        /\ \/ at = "wait" /\ at' = "asleep"
           \/ at = "asleep" /\ at' = "drain"
           \/ at = "drain" /\ logQueue # <<>> /\ at' = "write"
           \/ at = "drain" /\ logQueue = <<>> /\ at' = "test"
    BY <1>3 DEF Wait, LogWakeup, TestQueue
  <2> QED BY <2>1, LogGoes
<1>4. CASE Write
  BY <1>4, WriteStep
<1>5. CASE Pop
  BY <1>5, PopStep
<1>6. CASE SetTerminate \/ Terminate
  BY <1>6, TerminateStep DEF Terminate
<1>7. CASE UNCHANGED logVars
  BY <1>7 DEF logVars, LogInv, LogTypeOK, InOrder, Busy, Caught, Left, Joined, Safe
<1> QED BY <1>1, <1>2, <1>3, <1>4, <1>5, <1>6, <1>7 DEF LogNext, LogThread

LEMMA LogInvariant == LogSpec => []LogInv
<1> QED BY LogInitInv, LogStepInv, PTL DEF LogSpec

(* Every variable has its type. *)
THEOREM LogTyping == LogSpec => []LogTypeOK
<1>1. LogInv => LogTypeOK
  BY DEF LogInv
<1> QED BY <1>1, LogInvariant, PTL

(* However the threads that log interleave with the log thread, which reads *)
(* the queue outside the mutex, the file is what was pushed, in that order, *)
(* and the queue is the rest.                                               *)
THEOREM FileInOrder == LogSpec => []InOrder
<1>1. LogInv => InOrder
  BY DEF LogInv
<1> QED BY <1>1, LogInvariant, PTL

(* terminate() returns with everything in the file that was logged before,  *)
(* but what was pushed while the log thread was deaf.                       *)
THEOREM OnlyLateIsLost == LogSpec => []FlushedAtExit
<1>1. LogInv => FlushedAtExit
  BY DEF LogInv, FlushedAtExit, Joined, Left, Safe
<1> QED BY <1>1, LogInvariant, PTL
=============================================================================
