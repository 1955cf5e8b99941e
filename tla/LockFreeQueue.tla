---------------------------- MODULE LockFreeQueue ----------------------------
(***************************************************************************)
(* LockFree::Queue<T> (include/lockfree/Queue.hpp), the ring every event   *)
(* queue of the runtime is made of.  One action per atomic access: a push  *)
(* loads the tail counter, checks that the cell is free for that ticket,   *)
(* claims the ticket with a weak CAS, writes the element and publishes it; *)
(* a pop does the mirror image on the head counter.                        *)
(*                                                                         *)
(* A ticket is a size_t that the code only increments; it is a natural     *)
(* number here, bounded for TLC by MaxTicket.  The initial head mark of a  *)
(* cell is -1 as in the code (2^64-1, a ticket never reached).  Relaxed    *)
(* loads and stores of one location are ordered on the x64 target.         *)
(***************************************************************************)
EXTENDS Integers, Sequences

CONSTANTS Procs,      \* the threads that call the queue
          Data,       \* the elements
          NoData,     \* not an element
          Capacity,   \* number of cells, a power of two in the code
          MaxTicket   \* bound: no push starts once this ticket is reached

ASSUME CapacityAssumption == Capacity \in Nat \ {0}
ASSUME DataAssumption == NoData \notin Data
ASSUME BoundAssumption == MaxTicket \in Nat

VARIABLES tail,       \* _tail: the next ticket to push
          head,       \* _head: the next ticket to pop
          cellTail,   \* Node::tail: the ticket the cell may be pushed for
          cellHead,   \* Node::head: the ticket whose element it holds
          cellData,   \* Node::data
          pc,         \* where each thread is
          ticket,     \* the local variable tail or head of the call
          item        \* the argument of push, the result of pop

vars == <<tail, head, cellTail, cellHead, cellData, pc, ticket, item>>

Cells == 0 .. Capacity - 1

(* tail & _capacityMask *)
Slot(t) == t % Capacity

PushPcs == {"pushCheck", "pushCas", "pushWrite", "pushPublish"}
PopPcs  == {"popCheck", "popCas", "popRead", "popRelease"}
SizePcs == {"sizeTail", "sizeReturn"}

Init == /\ tail = 0
        /\ head = 0
        /\ cellTail = [c \in Cells |-> c]
        /\ cellHead = [c \in Cells |-> -1]
        /\ cellData = [c \in Cells |-> NoData]
        /\ pc = [p \in Procs |-> "idle"]
        /\ ticket = [p \in Procs |-> 0]
        /\ item = [p \in Procs |-> NoData]

Goto(p, l) == pc' = [pc EXCEPT ![p] = l]
Return(p) == /\ Goto(p, "idle")
             /\ ticket' = [ticket EXCEPT ![p] = 0]
             /\ item' = [item EXCEPT ![p] = NoData]

counters == <<tail, head>>
cells == <<cellTail, cellHead, cellData>>
-----------------------------------------------------------------------------
(* push *)

PushLoad(p, d) ==
    /\ pc[p] = "idle"
    /\ tail < MaxTicket
    /\ ticket' = [ticket EXCEPT ![p] = tail]
    /\ item' = [item EXCEPT ![p] = d]
    /\ Goto(p, "pushCheck")
    /\ UNCHANGED <<counters, cells>>

PushCheckFails(p) ==
    /\ pc[p] = "pushCheck"
    /\ cellTail[Slot(ticket[p])] # ticket[p]
    /\ Return(p)
    /\ UNCHANGED <<counters, cells>>

PushCheckPasses(p) ==
    /\ pc[p] = "pushCheck"
    /\ cellTail[Slot(ticket[p])] = ticket[p]
    /\ Goto(p, "pushCas")
    /\ UNCHANGED <<counters, cells, ticket, item>>

(* Fault: the element is published before it is written. *)
PushCas_PublishFirst(p) ==
    /\ pc[p] = "pushCas"
    /\ tail = ticket[p]
    /\ tail' = tail + 1
    /\ cellHead' = [cellHead EXCEPT ![Slot(ticket[p])] = ticket[p]]
    /\ Goto(p, "pushWrite")
    /\ UNCHANGED <<head, cellTail, cellData, ticket, item>>

PushCas(p) ==
    /\ pc[p] = "pushCas"
    /\ tail = ticket[p]
    /\ tail' = tail + 1
    /\ Goto(p, "pushWrite")
    /\ UNCHANGED <<head, cells, ticket, item>>

(* The weak CAS may also fail while the counter still has the expected value. *)
PushCasFails(p) ==
    /\ pc[p] = "pushCas"
    /\ ticket' = [ticket EXCEPT ![p] = tail]
    /\ Goto(p, "pushCheck")
    /\ UNCHANGED <<counters, cells, item>>

PushWrite(p) ==
    /\ pc[p] = "pushWrite"
    /\ cellData' = [cellData EXCEPT ![Slot(ticket[p])] = item[p]]
    /\ Goto(p, "pushPublish")
    /\ UNCHANGED <<counters, cellTail, cellHead, ticket, item>>

PushPublish(p) ==
    /\ pc[p] = "pushPublish"
    /\ cellHead' = [cellHead EXCEPT ![Slot(ticket[p])] = ticket[p]]
    /\ Return(p)
    /\ UNCHANGED <<counters, cellTail, cellData>>
-----------------------------------------------------------------------------
(* pop *)

PopLoad(p) ==
    /\ pc[p] = "idle"
    /\ ticket' = [ticket EXCEPT ![p] = head]
    /\ Goto(p, "popCheck")
    /\ UNCHANGED <<counters, cells, item>>

PopCheckFails(p) ==
    /\ pc[p] = "popCheck"
    /\ cellHead[Slot(ticket[p])] # ticket[p]
    /\ Return(p)
    /\ UNCHANGED <<counters, cells>>

(* Fault: the cell is not checked. *)
PopCheckPasses_Unchecked(p) ==
    /\ pc[p] = "popCheck"
    /\ Goto(p, "popCas")
    /\ UNCHANGED <<counters, cells, ticket, item>>

PopCheckPasses(p) ==
    /\ pc[p] = "popCheck"
    /\ cellHead[Slot(ticket[p])] = ticket[p]
    /\ Goto(p, "popCas")
    /\ UNCHANGED <<counters, cells, ticket, item>>

PopCas(p) ==
    /\ pc[p] = "popCas"
    /\ head = ticket[p]
    /\ head' = head + 1
    /\ Goto(p, "popRead")
    /\ UNCHANGED <<tail, cells, ticket, item>>

PopCasFails(p) ==
    /\ pc[p] = "popCas"
    /\ ticket' = [ticket EXCEPT ![p] = head]
    /\ Goto(p, "popCheck")
    /\ UNCHANGED <<counters, cells, item>>

PopRead(p) ==
    /\ pc[p] = "popRead"
    /\ item' = [item EXCEPT ![p] = cellData[Slot(ticket[p])]]
    /\ Goto(p, "popRelease")
    /\ UNCHANGED <<counters, cells, ticket>>

(* Fault: the cell is released for the wrong ticket. *)
PopRelease_NextTicket(p) ==
    /\ pc[p] = "popRelease"
    /\ cellTail' = [cellTail EXCEPT ![Slot(ticket[p])] = ticket[p] + 1]
    /\ Return(p)
    /\ UNCHANGED <<counters, cellHead, cellData>>

PopRelease(p) ==
    /\ pc[p] = "popRelease"
    /\ cellTail' = [cellTail EXCEPT ![Slot(ticket[p])] = ticket[p] + Capacity]
    /\ Return(p)
    /\ UNCHANGED <<counters, cellHead, cellData>>
-----------------------------------------------------------------------------
(* size: the head counter first, then the tail counter *)

SizeLoadHead(p) ==
    /\ pc[p] = "idle"
    /\ ticket' = [ticket EXCEPT ![p] = head]
    /\ Goto(p, "sizeTail")
    /\ UNCHANGED <<counters, cells, item>>

SizeLoadTail(p) ==
    /\ pc[p] = "sizeTail"
    /\ ticket' = [ticket EXCEPT ![p] = tail - ticket[p]]
    /\ Goto(p, "sizeReturn")
    /\ UNCHANGED <<counters, cells, item>>

SizeReturn(p) ==
    /\ pc[p] = "sizeReturn"
    /\ Return(p)
    /\ UNCHANGED <<counters, cells>>
-----------------------------------------------------------------------------
Push(p) == \/ \E d \in Data : PushLoad(p, d)
           \/ PushCheckFails(p) \/ PushCheckPasses(p)
           \/ PushCas(p) \/ PushCasFails(p)
           \/ PushWrite(p) \/ PushPublish(p)

Pop(p) == \/ PopLoad(p)
          \/ PopCheckFails(p) \/ PopCheckPasses(p)
          \/ PopCas(p) \/ PopCasFails(p)
          \/ PopRead(p) \/ PopRelease(p)

Size(p) == SizeLoadHead(p) \/ SizeLoadTail(p) \/ SizeReturn(p)

Next == \E p \in Procs : Push(p) \/ Pop(p) \/ Size(p)

Spec == Init /\ [][Next]_vars
-----------------------------------------------------------------------------
(* Every variable keeps its type: the counters, the marks of the cells, and *)
(* the position and locals of each thread inside push, pop and size.        *)
TypeOK == /\ tail \in Nat
          /\ head \in Nat
          /\ cellTail \in [Cells -> Nat]
          /\ cellHead \in [Cells -> Nat \cup {-1}]
          /\ cellData \in [Cells -> Data \cup {NoData}]
          /\ pc \in [Procs -> {"idle"} \cup PushPcs \cup PopPcs \cup SizePcs]
          /\ ticket \in [Procs -> Int]
          /\ item \in [Procs -> Data \cup {NoData}]

(* The threads that have claimed a ticket to push and not published it, and *)
(* those that have claimed one to pop and not released its cell.            *)
Claimers == {p \in Procs : pc[p] \in {"pushWrite", "pushPublish"}}
Drainers == {p \in Procs : pc[p] \in {"popRead", "popRelease"}}

(* No two threads are ever inside the same cell: the plain, non-atomic      *)
(* writes, reads and destructor calls of Node::data never race.             *)
CellExclusive ==
    \A p, q \in Claimers \cup Drainers :
        p # q => Slot(ticket[p]) # Slot(ticket[q])

(* push returns false in three cases only: the queue is full at that moment, *)
(* the pop that frees the cell has not released it yet, or the ticket it     *)
(* read has been pushed and popped again by others during the call.  In the  *)
(* third the queue need not have been full for a moment; that another push   *)
(* merely took the ticket is no reason.                                      *)
PushFailureJustified ==
    \A p \in Procs :
        (pc[p] = "pushCheck" /\ cellTail[Slot(ticket[p])] # ticket[p]) =>
            \/ /\ tail = ticket[p]
               /\ \/ tail - head = Capacity
                  \/ \E q \in Drainers : ticket[q] = ticket[p] - Capacity
            \/ head > ticket[p]

(* pop returns false in three cases only: the queue is empty at that moment, *)
(* the oldest element has not been published yet, or the ticket it read has  *)
(* been popped and a whole lap pushed behind it during the call.  That       *)
(* another pop merely took the ticket is no reason.                          *)
PopFailureJustified ==
    \A p \in Procs :
        (pc[p] = "popCheck" /\ cellHead[Slot(ticket[p])] # ticket[p]) =>
            \/ /\ head = ticket[p]
               /\ \/ head = tail
                  \/ \E q \in Claimers : ticket[q] = ticket[p]
            \/ head > ticket[p] /\ tail > ticket[p] + Capacity

(* size() never reports fewer elements than there are when it returns its    *)
(* difference, and never wraps below zero, although its two loads are not    *)
(* atomic: the head it loaded first can only be behind.                      *)
SizeNeverShort ==
    \A p \in Procs :
        /\ pc[p] = "sizeTail" => tail - ticket[p] >= tail - head /\ tail >= head
        /\ pc[p] = "sizeReturn" => ticket[p] >= 0

(* A false of push or pop has one of the three reasons above, and size()     *)
(* never reports too few.                                                    *)
ReportsJustified ==
    /\ PushFailureJustified
    /\ PopFailureJustified
    /\ SizeNeverShort
-----------------------------------------------------------------------------
(* The queue as the callers see it: the claimed tickets in order, each with  *)
(* the element published in its cell or about to be published by its owner.  *)
Published(t) == cellHead[Slot(t)] = t
Value(t) == IF Published(t)
            THEN cellData[Slot(t)]
            ELSE item[CHOOSE p \in Claimers : ticket[p] = t]

Taken(p) == CASE pc[p] = "popRead"    -> cellData[Slot(ticket[p])]
              [] pc[p] = "popRelease" -> item[p]
              [] OTHER                -> NoData

Fifo == INSTANCE BoundedFifo WITH
            queue <- [i \in 1 .. tail - head |-> Value(head + i - 1)],
            out   <- [p \in Procs |-> Taken(p)]

(* The ring of cells is a bounded FIFO queue: a successful push takes effect *)
(* at its CAS, a successful pop at its own, elements leave in the order in   *)
(* which they were claimed, and none is lost, invented or handed out twice.  *)
ImplementsFifo == Fifo!Spec
=============================================================================
