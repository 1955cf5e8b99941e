----------------------------- MODULE BoundedFifo -----------------------------
(***************************************************************************)
(* What LockFree::Queue promises its callers: one bounded FIFO queue that  *)
(* any number of threads fill and drain, each element handed to exactly    *)
(* one of the threads that pop.  A call that returns false is a stuttering *)
(* step here.                                                              *)
(***************************************************************************)
EXTENDS Naturals, Sequences

CONSTANTS Procs,      \* the threads that call the queue
          Data,       \* the elements
          NoData,     \* no element: the thread is not inside a pop
          Capacity    \* how many elements fit

VARIABLES queue,      \* the elements inside, oldest first
          out         \* out[p]: the element p has taken and not yet returned

vars == <<queue, out>>

Init == /\ queue = <<>>
        /\ out = [p \in Procs |-> NoData]

(* A push takes effect: it claims the next place. *)
Enqueue(d) == /\ Len(queue) < Capacity
              /\ queue' = Append(queue, d)
              /\ UNCHANGED out

(* A pop takes effect: the oldest element now belongs to p alone. *)
Dequeue(p) == /\ queue # <<>>
              /\ out[p] = NoData
              /\ out' = [out EXCEPT ![p] = Head(queue)]
              /\ queue' = Tail(queue)

(* p's pop returns. *)
Deliver(p) == /\ out[p] # NoData
              /\ out' = [out EXCEPT ![p] = NoData]
              /\ UNCHANGED queue

Next == \/ \E d \in Data : Enqueue(d)
        \/ \E p \in Procs : Dequeue(p) \/ Deliver(p)

Spec == Init /\ [][Next]_vars
=============================================================================
