----------------------------- MODULE BoundedLifo -----------------------------
(***************************************************************************)
(* What LockFree::Stack promises its callers: one bounded stack that any   *)
(* number of threads push to and pop from, each element handed to exactly  *)
(* one of them.  A call that returns false is a stuttering step here.      *)
(***************************************************************************)
EXTENDS Naturals, Sequences

CONSTANTS Procs,      \* the threads that call the stack
          Data,       \* the elements
          NoData,     \* no element: the thread is not inside a pop
          Capacity    \* how many elements fit

VARIABLES stack,      \* the elements inside, newest first
          out         \* out[p]: the element p has taken and not yet returned

vars == <<stack, out>>

Init == stack = << >> /\ out = [p \in Procs |-> NoData]

(* A push takes effect. *)
Put(d) == /\ Len(stack) < Capacity
          /\ stack' = <<d>> \o stack
          /\ UNCHANGED out

(* A pop takes effect: the newest element now belongs to p alone. *)
Take(p) == /\ stack # << >>
           /\ out[p] = NoData
           /\ out' = [out EXCEPT ![p] = Head(stack)]
           /\ stack' = Tail(stack)

(* p's pop returns. *)
Deliver(p) == /\ out[p] # NoData
              /\ out' = [out EXCEPT ![p] = NoData]
              /\ UNCHANGED stack

Next == \/ \E d \in Data : Put(d)
        \/ \E p \in Procs : Take(p) \/ Deliver(p)

Spec == Init /\ [][Next]_vars
=============================================================================
