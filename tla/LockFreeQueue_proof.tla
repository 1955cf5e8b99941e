------------------------- MODULE LockFreeQueue_proof -------------------------
(***************************************************************************)
(* Proofs about LockFreeQueue for every set of threads, every set of       *)
(* elements, every capacity and every bound on the tickets.                *)
(***************************************************************************)
EXTENDS LockFreeQueue, SequenceTheorems, TLAPS

(* The counters never run more than one lap apart. *)
CountersOK == head <= tail /\ tail <= head + Capacity

(* A cell is marked for a ticket within the window, and it holds either the *)
(* ticket it is marked for or one that has been popped.                     *)
CellsOK == \A c \in Cells :
              /\ cellTail[c] < head + Capacity
              /\ cellHead[c] < tail
              /\ cellHead[c] = cellTail[c] \/ cellHead[c] < head

(* Who has claimed a ticket and not finished with its cell. *)
ClaimersOK ==
    \A p \in Claimers :
        /\ head <= ticket[p] /\ ticket[p] < tail
        /\ cellTail[Slot(ticket[p])] = ticket[p]
        /\ cellHead[Slot(ticket[p])] # ticket[p]
        /\ \A q \in Claimers : q # p => ticket[q] # ticket[p]

DrainersOK ==
    \A p \in Drainers :
        /\ 0 <= ticket[p] /\ ticket[p] < head
        /\ cellTail[Slot(ticket[p])] = ticket[p]
        /\ cellHead[Slot(ticket[p])] = ticket[p]
        /\ \A q \in Drainers : q # p => ticket[q] # ticket[p]

(* What a thread that has not claimed anything yet still knows. *)
CallersOK ==
    \A p \in Procs :
        /\ pc[p] = "pushCheck" => ticket[p] \in Nat /\ ticket[p] <= tail
        /\ pc[p] = "pushCas" =>
              /\ ticket[p] \in Nat /\ ticket[p] <= tail
              /\ ticket[p] = tail => cellTail[Slot(tail)] = tail
        /\ pc[p] = "popCheck" => ticket[p] \in Nat /\ ticket[p] <= head
        /\ pc[p] = "popCas" =>
              /\ ticket[p] \in Nat /\ ticket[p] <= head
              /\ ticket[p] = head => /\ cellHead[Slot(head)] = head
                                     /\ cellTail[Slot(head)] = head
        /\ pc[p] = "sizeTail" => ticket[p] \in Nat /\ ticket[p] <= head
        /\ pc[p] = "sizeReturn" => ticket[p] >= 0

(* A claimed ticket is published or owned by the thread that will publish it. *)
ClaimedOK ==
    \A t \in Nat : (head <= t /\ t < tail) =>
        /\ cellTail[Slot(t)] = t
        /\ cellHead[Slot(t)] = t \/ \E p \in Claimers : ticket[p] = t

(* A free ticket of the window has its cell ready, or about to be released. *)
FreeOK ==
    \A t \in Nat : (tail <= t /\ t < head + Capacity) =>
        \/ cellTail[Slot(t)] = t
        \/ \E p \in Drainers : ticket[p] = t - Capacity

IInv == /\ TypeOK
        /\ CountersOK
        /\ CellsOK
        /\ ClaimersOK
        /\ DrainersOK
        /\ CallersOK
        /\ ClaimedOK
        /\ FreeOK
-----------------------------------------------------------------------------
(* Adding the capacity to a ticket, as a pop does when it releases a cell,   *)
(* leads back to the same cell.                                              *)
LEMMA SlotNextLap == \A t \in Nat : Slot(t + Capacity) = Slot(t)
<1> SUFFICES ASSUME NEW t \in Nat
             PROVE  (t + Capacity) % Capacity = t % Capacity
  BY DEF Slot
<1> DEFINE q == t \div Capacity
           s == (t + Capacity) \div Capacity
           r == t % Capacity
           v == (t + Capacity) % Capacity
<1>1. q \in Int /\ s \in Int /\ r \in Cells /\ v \in Cells
  BY CapacityAssumption DEF Cells
<1>2. t = Capacity * q + r
  BY CapacityAssumption
<1>3. t + Capacity = Capacity * s + v
  <2>1. t + Capacity \in Nat
    BY CapacityAssumption
  <2>2. \A u \in Nat : u = Capacity * (u \div Capacity) + (u % Capacity)
    BY CapacityAssumption
  <2> QED BY <2>1, <2>2
<1> HIDE DEF q, s, r, v
<1> DEFINE k == s - q - 1
<1>4. k \in Int /\ Capacity * k = r - v
  BY <1>1, <1>2, <1>3, CapacityAssumption DEF Cells
<1> HIDE DEF k
<1>5. k = 0
  <2>1. \A j \in Nat : j >= 1 => Capacity * j >= Capacity
    BY CapacityAssumption
  <2>2. ~ (k >= 1)
    BY <2>1, <1>4, <1>1, CapacityAssumption DEF Cells
  <2>3. Capacity * (-k) = v - r
    BY <1>4, <1>1, CapacityAssumption DEF Cells
  <2>4. ~ (-k >= 1)
    BY <2>1, <2>3, <1>4, <1>1, CapacityAssumption DEF Cells
  <2> QED BY <2>2, <2>4, <1>4
<1>6. r = v
  BY <1>4, <1>5, <1>1, CapacityAssumption DEF Cells
<1> QED BY <1>6 DEF r, v

(* Every ticket has a cell, and on the first lap the cell has its number. *)
LEMMA SlotInCells == /\ \A t \in Nat : Slot(t) \in Cells
                     /\ \A t \in Cells : Slot(t) = t
  BY CapacityAssumption DEF Slot, Cells

LEMMA InitInv == Init => IInv
<1> SUFFICES ASSUME Init PROVE IInv
  OBVIOUS
<1> USE CapacityAssumption, SlotInCells
<1>1. TypeOK
  BY DEF Init, TypeOK, Cells
<1>2. Claimers = {} /\ Drainers = {}
  BY DEF Init, Claimers, Drainers
<1>3. CountersOK /\ CellsOK
  BY DEF Init, CountersOK, CellsOK, Cells
<1>4. ClaimersOK /\ DrainersOK
  BY <1>2 DEF ClaimersOK, DrainersOK
<1>5. CallersOK
  BY DEF Init, CallersOK
<1>6. ClaimedOK
  BY DEF Init, ClaimedOK
<1>7. FreeOK
  BY DEF Init, FreeOK, Cells
<1> QED BY <1>1, <1>3, <1>4, <1>5, <1>6, <1>7 DEF IInv

(* Type correctness is inductive given where the locals of a call point. *)
LEMMA TypeStep == TypeOK /\ ClaimersOK /\ DrainersOK /\ CallersOK /\ [Next]_vars
                    => TypeOK'
<1> SUFFICES ASSUME TypeOK, ClaimersOK, DrainersOK, CallersOK, [Next]_vars
             PROVE  TypeOK'
  OBVIOUS
<1> USE CapacityAssumption, SlotInCells
        DEF TypeOK, Goto, Return, counters, cells, PushPcs, PopPcs, SizePcs
<1>1. ASSUME NEW p \in Procs, Push(p) PROVE TypeOK'
  <2>1. ASSUME NEW d \in Data, PushLoad(p, d) PROVE TypeOK'
    BY <2>1 DEF PushLoad
  <2>2. CASE PushCheckFails(p)
    BY <2>2 DEF PushCheckFails
  <2>3. CASE PushCheckPasses(p)
    BY <2>3 DEF PushCheckPasses
  <2>4. CASE PushCas(p)
    BY <2>4 DEF PushCas
  <2>5. CASE PushCasFails(p)
    BY <2>5 DEF PushCasFails
  <2>6. CASE PushWrite(p)
    BY <2>6 DEF PushWrite
  <2>7. CASE PushPublish(p)
    <3>1. ticket[p] \in Nat
      BY <2>7 DEF PushPublish, ClaimersOK, Claimers
    <3> QED BY <3>1, <2>7 DEF PushPublish
  <2> QED BY <1>1, <2>1, <2>2, <2>3, <2>4, <2>5, <2>6, <2>7 DEF Push
<1>2. ASSUME NEW p \in Procs, Pop(p) PROVE TypeOK'
  <2>1. CASE PopLoad(p)
    BY <2>1 DEF PopLoad
  <2>2. CASE PopCheckFails(p)
    BY <2>2 DEF PopCheckFails
  <2>3. CASE PopCheckPasses(p)
    BY <2>3 DEF PopCheckPasses
  <2>4. CASE PopCas(p)
    BY <2>4 DEF PopCas
  <2>5. CASE PopCasFails(p)
    BY <2>5 DEF PopCasFails
  <2>6. CASE PopRead(p)
    <3>1. Slot(ticket[p]) \in Cells
      BY <2>6 DEF PopRead, DrainersOK, Drainers
    <3> QED BY <3>1, <2>6 DEF PopRead
  <2>7. CASE PopRelease(p)
    <3>1. ticket[p] + Capacity \in Nat
      BY <2>7 DEF PopRelease, DrainersOK, Drainers
    <3>2. cellTail' \in [Cells -> Nat]
      BY <3>1, <2>7 DEF PopRelease
    <3>3. /\ UNCHANGED <<tail, head, cellHead, cellData>>
          /\ pc' = [pc EXCEPT ![p] = "idle"]
          /\ ticket' = [ticket EXCEPT ![p] = 0]
          /\ item' = [item EXCEPT ![p] = NoData]
      BY <2>7 DEF PopRelease
    <3> QED BY <3>2, <3>3
  <2> QED BY <1>2, <2>1, <2>2, <2>3, <2>4, <2>5, <2>6, <2>7 DEF Pop
<1>3. ASSUME NEW p \in Procs, Size(p) PROVE TypeOK'
  <2>1. CASE SizeLoadHead(p)
    BY <2>1 DEF SizeLoadHead
  <2>2. CASE SizeLoadTail(p)
    BY <2>2 DEF SizeLoadTail
  <2>3. CASE SizeReturn(p)
    BY <2>3 DEF SizeReturn
  <2> QED BY <1>3, <2>1, <2>2, <2>3 DEF Size
<1>4. CASE UNCHANGED vars
  BY <1>4 DEF vars
<1> QED BY <1>1, <1>2, <1>3, <1>4 DEF Next
-----------------------------------------------------------------------------
(* The facts of the invariant that several threads share. *)
SharedOK == /\ CountersOK
            /\ CellsOK
            /\ ClaimersOK
            /\ DrainersOK
            /\ ClaimedOK
            /\ FreeOK

(* A step that moves no counter and no mark, and leaves the threads inside a *)
(* cell where they are, disturbs only what its own caller knows.             *)
LEMMA LocalStep ==
    ASSUME SharedOK,
           UNCHANGED <<tail, head, cellTail, cellHead>>,
           Claimers' = Claimers,
           Drainers' = Drainers,
           \A q \in Claimers \cup Drainers : ticket'[q] = ticket[q]
    PROVE  SharedOK'
<1>1. CountersOK' /\ CellsOK'
  BY DEF SharedOK, CountersOK, CellsOK
<1>2. ClaimersOK'
  BY DEF SharedOK, ClaimersOK
<1>3. DrainersOK'
  BY DEF SharedOK, DrainersOK
<1>4. ClaimedOK'
  BY DEF SharedOK, ClaimedOK
<1>5. FreeOK'
  BY DEF SharedOK, FreeOK
<1> QED BY <1>1, <1>2, <1>3, <1>4, <1>5 DEF SharedOK

(* The steps of a call that claims, publishes and releases nothing. *)
LocalPush(p) ==
    \/ \E d \in Data : PushLoad(p, d)
    \/ PushCheckFails(p)
    \/ PushCheckPasses(p)
    \/ PushCasFails(p)
    \/ PushWrite(p)

LocalPop(p) ==
    \/ PopLoad(p)
    \/ PopCheckFails(p)
    \/ PopCheckPasses(p)
    \/ PopCasFails(p)
    \/ PopRead(p)

Local(p) == LocalPush(p) \/ LocalPop(p) \/ Size(p)

LEMMA LocalShape ==
    ASSUME TypeOK, NEW p \in Procs, Local(p)
    PROVE  /\ UNCHANGED <<tail, head, cellTail, cellHead>>
           /\ Claimers' = Claimers
           /\ Drainers' = Drainers
           /\ \A q \in Claimers \cup Drainers : ticket'[q] = ticket[q]
<1> USE DEF TypeOK, Goto, Return, counters, cells, Claimers, Drainers
<1>1. CASE \E d \in Data : PushLoad(p, d)
  BY <1>1 DEF PushLoad
<1>2. CASE PushCheckFails(p)
  BY <1>2 DEF PushCheckFails
<1>3. CASE PushCheckPasses(p)
  BY <1>3 DEF PushCheckPasses
<1>4. CASE PushCasFails(p)
  BY <1>4 DEF PushCasFails
<1>5. CASE PushWrite(p)
  BY <1>5 DEF PushWrite
<1>6. CASE PopLoad(p)
  BY <1>6 DEF PopLoad
<1>7. CASE PopCheckFails(p)
  BY <1>7 DEF PopCheckFails
<1>8. CASE PopCheckPasses(p)
  BY <1>8 DEF PopCheckPasses
<1>9. CASE PopCasFails(p)
  BY <1>9 DEF PopCasFails
<1>10. CASE PopRead(p)
  BY <1>10 DEF PopRead
<1>11. CASE Size(p)
  BY <1>11 DEF Size, SizeLoadHead, SizeLoadTail, SizeReturn
<1> QED BY <1>1, <1>2, <1>3, <1>4, <1>5, <1>6, <1>7, <1>8, <1>9, <1>10, <1>11
        DEF Local, LocalPush, LocalPop

(* What the other threads know survives a local step, and the thread that    *)
(* takes it has just read what it now knows.                                 *)
LEMMA LocalCallers ==
    ASSUME TypeOK, CountersOK, CellsOK, CallersOK, NEW p \in Procs, Local(p)
    PROVE  CallersOK'
<1> USE CapacityAssumption, SlotInCells
        DEF TypeOK, Goto, Return, counters, cells, CallersOK, CountersOK
<1>1. CASE \E d \in Data : PushLoad(p, d)
  BY <1>1 DEF PushLoad
<1>2. CASE PushCheckFails(p)
  BY <1>2 DEF PushCheckFails
<1>3. CASE PushCheckPasses(p)
  BY <1>3 DEF PushCheckPasses
<1>4. CASE PushCasFails(p)
  BY <1>4 DEF PushCasFails
<1>5. CASE PushWrite(p)
  BY <1>5 DEF PushWrite
<1>6. CASE PopLoad(p)
  BY <1>6 DEF PopLoad
<1>7. CASE PopCheckFails(p)
  BY <1>7 DEF PopCheckFails
<1>8. CASE PopCheckPasses(p)
  BY <1>8 DEF PopCheckPasses, CellsOK
<1>9. CASE PopCasFails(p)
  BY <1>9 DEF PopCasFails
<1>10. CASE PopRead(p)
  BY <1>10 DEF PopRead
<1>11. CASE Size(p)
  BY <1>11 DEF Size, SizeLoadHead, SizeLoadTail, SizeReturn
<1> QED BY <1>1, <1>2, <1>3, <1>4, <1>5, <1>6, <1>7, <1>8, <1>9, <1>10, <1>11
        DEF Local, LocalPush, LocalPop
-----------------------------------------------------------------------------
(* A push claims the ticket tail: the cell was ready for it, and no thread   *)
(* can have claimed the same ticket.                                         *)
LEMMA PushCasStep ==
    ASSUME IInv, TypeOK', NEW p \in Procs, PushCas(p)
    PROVE  IInv'
<1> USE CapacityAssumption, SlotInCells DEF TypeOK, Goto, cells
<1>1. /\ tail = ticket[p] /\ tail' = tail + 1 /\ pc[p] = "pushCas"
      /\ UNCHANGED <<head, cellTail, cellHead, ticket>>
      /\ pc' = [pc EXCEPT ![p] = "pushWrite"]
  BY DEF PushCas
<1>2. Claimers' = Claimers \cup {p} /\ p \notin Claimers /\ Drainers' = Drainers
  BY <1>1 DEF Claimers, Drainers, IInv
<1>3. cellTail[Slot(tail)] = tail /\ Slot(tail) \in Cells
  BY <1>1 DEF IInv, CallersOK
<1>4. tail < head + Capacity /\ cellHead[Slot(tail)] < tail
  BY <1>3 DEF IInv, CellsOK
<1>5. CountersOK' /\ CellsOK'
  BY <1>1, <1>4 DEF IInv, CountersOK, CellsOK
<1>6. ClaimersOK'
  <2> SUFFICES ASSUME NEW q \in Claimers \cup {p}
               PROVE  /\ head <= ticket[q] /\ ticket[q] < tail + 1
                      /\ cellTail[Slot(ticket[q])] = ticket[q]
                      /\ cellHead[Slot(ticket[q])] # ticket[q]
                      /\ \A r \in Claimers \cup {p} :
                            r # q => ticket[r] # ticket[q]
    BY <1>1, <1>2 DEF ClaimersOK
  <2>1. \A r \in Claimers : ticket[r] \in Nat /\ ticket[r] < tail
    BY DEF IInv, ClaimersOK, Claimers
  <2>2. CASE q = p
    BY <1>1, <1>3, <1>4, <2>1, <2>2 DEF IInv, CountersOK
  <2>3. CASE q \in Claimers
    BY <1>1, <2>1, <2>3 DEF IInv, ClaimersOK
  <2> QED BY <2>2, <2>3
<1>7. DrainersOK'
  BY <1>1, <1>2 DEF IInv, DrainersOK
<1>8. CallersOK'
  BY <1>1 DEF IInv, CallersOK
<1>9. ClaimedOK'
  <2> SUFFICES ASSUME NEW u \in Nat, head <= u, u < tail + 1
               PROVE  /\ cellTail[Slot(u)] = u
                      /\ \/ cellHead[Slot(u)] = u
                         \/ \E q \in Claimers \cup {p} : ticket[q] = u
    BY <1>1, <1>2 DEF ClaimedOK
  <2>1. CASE u = tail
    BY <1>1, <1>3, <2>1
  <2>2. CASE u < tail
    <3>1. /\ cellTail[Slot(u)] = u
          /\ cellHead[Slot(u)] = u \/ \E q \in Claimers : ticket[q] = u
      BY <2>2 DEF IInv, ClaimedOK
    <3> QED BY <3>1
  <2> QED BY <2>1, <2>2 DEF IInv
<1>10. FreeOK'
  BY <1>1, <1>2 DEF IInv, FreeOK
<1> QED BY <1>5, <1>6, <1>7, <1>8, <1>9, <1>10 DEF IInv

(* A push publishes its element: the cell now holds the ticket it is marked  *)
(* for, and the thread leaves it.                                            *)
LEMMA PushPublishStep ==
    ASSUME IInv, TypeOK', NEW p \in Procs, PushPublish(p)
    PROVE  IInv'
<1> USE CapacityAssumption, SlotInCells DEF TypeOK, Goto, Return
<1> DEFINE t == ticket[p]
<1>1. /\ pc[p] = "pushPublish" /\ pc' = [pc EXCEPT ![p] = "idle"]
      /\ ticket' = [ticket EXCEPT ![p] = 0]
      /\ cellHead' = [cellHead EXCEPT ![Slot(t)] = t]
      /\ UNCHANGED <<tail, head, cellTail>>
  BY DEF PushPublish, counters
<1>2. Claimers' = Claimers \ {p} /\ p \in Claimers /\ Drainers' = Drainers
  BY <1>1 DEF Claimers, Drainers, IInv
<1>3. /\ t \in Nat /\ head <= t /\ t < tail /\ cellTail[Slot(t)] = t
      /\ Slot(t) \in Cells
      /\ \A q \in Claimers : q # p => ticket[q] # t
  BY <1>2 DEF IInv, ClaimersOK
<1> HIDE DEF t
<1>4. CountersOK' /\ CellsOK'
  BY <1>1, <1>3 DEF IInv, CountersOK, CellsOK
<1>5. ClaimersOK'
  <2> SUFFICES ASSUME NEW q \in Claimers, q # p
               PROVE  /\ head <= ticket[q] /\ ticket[q] < tail
                      /\ cellTail[Slot(ticket[q])] = ticket[q]
                      /\ cellHead'[Slot(ticket[q])] # ticket[q]
                      /\ \A r \in Claimers : r # q => ticket[r] # ticket[q]
    BY <1>1, <1>2 DEF ClaimersOK, Claimers
  <2>1. q \in Procs /\ ticket[q] \in Nat /\ Slot(ticket[q]) \in Cells
    BY DEF IInv, ClaimersOK, Claimers
  <2> QED BY <1>1, <1>3, <2>1 DEF IInv, ClaimersOK
<1>6. DrainersOK'
  <2> SUFFICES ASSUME NEW q \in Drainers
               PROVE  /\ 0 <= ticket[q] /\ ticket[q] < head
                      /\ cellTail[Slot(ticket[q])] = ticket[q]
                      /\ cellHead'[Slot(ticket[q])] = ticket[q]
                      /\ \A r \in Drainers : r # q => ticket[r] # ticket[q]
    BY <1>1, <1>2 DEF DrainersOK, Drainers
  <2>1. q \in Procs /\ ticket[q] \in Nat /\ Slot(ticket[q]) \in Cells
    BY DEF IInv, DrainersOK, Drainers
  <2> QED BY <1>1, <1>3, <2>1 DEF IInv, DrainersOK
<1>7. CallersOK'
  BY <1>1, <1>3 DEF IInv, CallersOK
<1>8. ClaimedOK'
  <2> SUFFICES ASSUME NEW u \in Nat, head <= u, u < tail
               PROVE  /\ cellTail[Slot(u)] = u
                      /\ \/ cellHead'[Slot(u)] = u
                         \/ \E q \in Claimers' : ticket'[q] = u
    BY <1>1 DEF ClaimedOK
  <2>1. cellTail[Slot(u)] = u /\ Slot(u) \in Cells
    BY DEF IInv, ClaimedOK
  <2>2. CASE cellHead[Slot(u)] = u \/ u = t
    BY <1>1, <1>3, <2>1, <2>2
  <2>3. CASE u # t /\ \E q \in Claimers : ticket[q] = u
    <3>1. PICK q \in Claimers : ticket[q] = u
      BY <2>3
    <3>2. q # p /\ q \in Procs
      BY <2>3, <3>1 DEF t, Claimers
    <3>3. ticket'[q] = u /\ q \in Claimers'
      BY <1>1, <1>2, <3>1, <3>2
    <3> QED BY <2>1, <3>3
  <2>4. cellHead[Slot(u)] = u \/ \E q \in Claimers : ticket[q] = u
    BY DEF IInv, ClaimedOK
  <2> QED BY <2>1, <2>2, <2>3, <2>4
<1>9. FreeOK'
  <2>1. \A q \in Drainers : ticket'[q] = ticket[q]
    BY <1>1 DEF Drainers
  <2> QED BY <1>1, <1>2, <2>1 DEF IInv, FreeOK
<1> QED BY <1>4, <1>5, <1>6, <1>7, <1>8, <1>9 DEF IInv

(* A pop claims the ticket head: its element is published, and the ticket a  *)
(* lap later joins the window with this thread about to make its cell ready. *)
LEMMA PopCasStep ==
    ASSUME IInv, TypeOK', NEW p \in Procs, PopCas(p)
    PROVE  IInv'
<1> USE CapacityAssumption, SlotInCells DEF TypeOK, Goto, cells
<1>1. /\ head = ticket[p] /\ head' = head + 1 /\ pc[p] = "popCas"
      /\ UNCHANGED <<tail, cellTail, cellHead, ticket>>
      /\ pc' = [pc EXCEPT ![p] = "popRead"]
  BY DEF PopCas
<1>2. Drainers' = Drainers \cup {p} /\ p \notin Drainers /\ Claimers' = Claimers
  BY <1>1 DEF Claimers, Drainers, IInv
<1>3. /\ cellHead[Slot(head)] = head /\ cellTail[Slot(head)] = head
      /\ Slot(head) \in Cells
  BY <1>1 DEF IInv, CallersOK
<1>4. head < tail
  BY <1>3 DEF IInv, CellsOK
<1>5. CountersOK' /\ CellsOK'
  BY <1>1, <1>3, <1>4 DEF IInv, CountersOK, CellsOK
<1>6. ClaimersOK'
  <2> SUFFICES ASSUME NEW q \in Claimers
               PROVE  /\ head + 1 <= ticket[q] /\ ticket[q] < tail
                      /\ cellTail[Slot(ticket[q])] = ticket[q]
                      /\ cellHead[Slot(ticket[q])] # ticket[q]
                      /\ \A r \in Claimers : r # q => ticket[r] # ticket[q]
    BY <1>1, <1>2 DEF ClaimersOK
  <2>1. ticket[q] # head
    BY <1>3 DEF IInv, ClaimersOK
  <2>2. ticket[q] \in Int /\ head \in Int
    BY DEF IInv, Claimers
  <2>3. /\ head <= ticket[q] /\ ticket[q] < tail
        /\ cellTail[Slot(ticket[q])] = ticket[q]
        /\ cellHead[Slot(ticket[q])] # ticket[q]
        /\ \A r \in Claimers : r # q => ticket[r] # ticket[q]
    BY Zenon DEF IInv, ClaimersOK
  <2>4. head + 1 <= ticket[q]
    BY <2>1, <2>2, <2>3
  <2> QED BY <2>3, <2>4
<1>7. DrainersOK'
  <2> SUFFICES ASSUME NEW q \in Drainers \cup {p}
               PROVE  /\ 0 <= ticket[q] /\ ticket[q] < head + 1
                      /\ cellTail[Slot(ticket[q])] = ticket[q]
                      /\ cellHead[Slot(ticket[q])] = ticket[q]
                      /\ \A r \in Drainers \cup {p} :
                            r # q => ticket[r] # ticket[q]
    BY <1>1, <1>2 DEF DrainersOK
  <2>1. \A r \in Drainers : ticket[r] \in Nat /\ ticket[r] < head
    BY DEF IInv, DrainersOK, Drainers
  <2>2. CASE q = p
    BY <1>1, <1>3, <2>1, <2>2
  <2>3. CASE q \in Drainers
    BY <1>1, <2>1, <2>3 DEF IInv, DrainersOK
  <2> QED BY <2>2, <2>3
<1>8. CallersOK'
  BY <1>1 DEF IInv, CallersOK
<1>9. ClaimedOK'
  BY <1>1, <1>2 DEF IInv, ClaimedOK
<1>10. FreeOK'
  BY <1>1, <1>2 DEF IInv, FreeOK
<1> QED BY <1>5, <1>6, <1>7, <1>8, <1>9, <1>10 DEF IInv

(* A pop releases its cell for the ticket one lap later. *)
LEMMA PopReleaseStep ==
    ASSUME IInv, TypeOK', NEW p \in Procs, PopRelease(p)
    PROVE  IInv'
<1> USE CapacityAssumption, SlotInCells DEF TypeOK, Goto, Return
<1> DEFINE t == ticket[p]
<1>1. /\ pc[p] = "popRelease" /\ pc' = [pc EXCEPT ![p] = "idle"]
      /\ ticket' = [ticket EXCEPT ![p] = 0]
      /\ cellTail' = [cellTail EXCEPT ![Slot(t)] = t + Capacity]
      /\ UNCHANGED <<tail, head, cellHead>>
  BY DEF PopRelease, counters
<1>2. Drainers' = Drainers \ {p} /\ p \in Drainers /\ Claimers' = Claimers
  BY <1>1 DEF Claimers, Drainers, IInv
<1>3. /\ t \in Nat /\ t < head
      /\ cellTail[Slot(t)] = t /\ cellHead[Slot(t)] = t
      /\ Slot(t) \in Cells /\ Slot(t + Capacity) = Slot(t)
      /\ \A q \in Drainers : q # p => ticket[q] # t
  BY <1>2, SlotNextLap DEF IInv, DrainersOK
<1> HIDE DEF t
<1>4. CountersOK' /\ CellsOK'
  BY <1>1, <1>3 DEF IInv, CountersOK, CellsOK
<1>5. ClaimersOK'
  <2> SUFFICES ASSUME NEW q \in Claimers
               PROVE  /\ head <= ticket[q] /\ ticket[q] < tail
                      /\ cellTail'[Slot(ticket[q])] = ticket[q]
                      /\ cellHead[Slot(ticket[q])] # ticket[q]
                      /\ \A r \in Claimers : r # q => ticket[r] # ticket[q]
    BY <1>1, <1>2 DEF ClaimersOK, Claimers
  <2>1. q \in Procs /\ ticket[q] \in Nat /\ Slot(ticket[q]) \in Cells
    BY DEF IInv, ClaimersOK, Claimers
  <2> QED BY <1>1, <1>3, <2>1 DEF IInv, ClaimersOK
<1>6. DrainersOK'
  <2> SUFFICES ASSUME NEW q \in Drainers, q # p
               PROVE  /\ 0 <= ticket[q] /\ ticket[q] < head
                      /\ cellTail'[Slot(ticket[q])] = ticket[q]
                      /\ cellHead[Slot(ticket[q])] = ticket[q]
                      /\ \A r \in Drainers : r # q => ticket[r] # ticket[q]
    BY <1>1, <1>2 DEF DrainersOK, Drainers
  <2>1. q \in Procs /\ ticket[q] \in Nat /\ Slot(ticket[q]) \in Cells
    BY DEF IInv, DrainersOK, Drainers
  <2> QED BY <1>1, <1>3, <2>1 DEF IInv, DrainersOK
<1>7. CallersOK'
  BY <1>1, <1>3 DEF IInv, CallersOK, CountersOK
<1>8. ClaimedOK'
  <2>1. \A q \in Claimers : ticket'[q] = ticket[q]
    BY <1>1 DEF Claimers
  <2> QED BY <1>1, <1>2, <1>3, <2>1 DEF IInv, ClaimedOK
<1>9. FreeOK'
  <2> SUFFICES ASSUME NEW u \in Nat, tail <= u, u < head + Capacity
               PROVE  \/ cellTail'[Slot(u)] = u
                      \/ \E q \in Drainers' : ticket'[q] = u - Capacity
    BY <1>1 DEF FreeOK
  <2>1. CASE u - Capacity = t
    BY <1>1, <1>3, <2>1
  <2>2. CASE u - Capacity # t
    <3>1. \A q \in Drainers \ {p} : ticket'[q] = ticket[q]
      BY <1>1 DEF Drainers
    <3>2. CASE cellTail[Slot(u)] = u
      BY <1>1, <1>3, <3>2 DEF IInv, CountersOK
    <3>3. CASE \E q \in Drainers : ticket[q] = u - Capacity
      BY <1>2, <2>2, <3>1, <3>3 DEF t
    <3> QED BY <3>2, <3>3 DEF IInv, FreeOK
  <2> QED BY <2>1, <2>2
<1> QED BY <1>4, <1>5, <1>6, <1>7, <1>8, <1>9 DEF IInv
-----------------------------------------------------------------------------
LEMMA StepInv == IInv /\ [Next]_vars => IInv'
<1> SUFFICES ASSUME IInv, [Next]_vars PROVE IInv'
  OBVIOUS
<1>1. TypeOK'
  BY TypeStep DEF IInv
<1>2. ASSUME NEW p \in Procs, Local(p) PROVE IInv'
  <2>1. SharedOK'
    BY <1>2, LocalShape, LocalStep DEF IInv, SharedOK
  <2>2. CallersOK'
    BY <1>2, LocalCallers DEF IInv
  <2> QED BY <1>1, <2>1, <2>2 DEF IInv, SharedOK
<1>3. ASSUME NEW p \in Procs, PushCas(p) PROVE IInv'
  BY <1>1, <1>3, PushCasStep
<1>4. ASSUME NEW p \in Procs, PushPublish(p) PROVE IInv'
  BY <1>1, <1>4, PushPublishStep
<1>5. ASSUME NEW p \in Procs, PopCas(p) PROVE IInv'
  BY <1>1, <1>5, PopCasStep
<1>6. ASSUME NEW p \in Procs, PopRelease(p) PROVE IInv'
  BY <1>1, <1>6, PopReleaseStep
<1>7. CASE UNCHANGED vars
  BY <1>7 DEF vars, IInv, TypeOK, CountersOK, CellsOK, ClaimersOK, DrainersOK,
              CallersOK, ClaimedOK, FreeOK, Claimers, Drainers
<1> QED BY <1>2, <1>3, <1>4, <1>5, <1>6, <1>7
        DEF Next, Push, Pop, Local, LocalPush, LocalPop

(* The invariant all the results below follow from: the window of live       *)
(* tickets is at most one lap wide, each of its cells is in the state its    *)
(* ticket says, and each ticket in work has exactly one owner.               *)
THEOREM Invariant == Spec => []IInv
<1>1. Init => IInv
  BY InitInv
<1>2. IInv /\ [Next]_vars => IInv'
  BY StepInv
<1> QED BY <1>1, <1>2, PTL DEF Spec

(* Push, pop and size keep the types of the counters, of the marks of the    *)
(* cells and of their own locals, for every number of threads and cells.     *)
THEOREM TypeCorrect == Spec => []TypeOK
<1>1. IInv => TypeOK
  BY DEF IInv
<1> QED BY <1>1, Invariant, PTL

(* The plain accesses to Node::data never race: two threads inside the ring  *)
(* are in two different cells, whatever the interleaving of their CASes.     *)
THEOREM CellsAreExclusive == Spec => []CellExclusive
<1>1. IInv => CellExclusive
  <2> SUFFICES ASSUME IInv, NEW p \in Claimers \cup Drainers,
                      NEW q \in Claimers \cup Drainers,
                      p # q, Slot(ticket[p]) = Slot(ticket[q])
               PROVE  FALSE
    BY DEF CellExclusive
  <2>1. cellTail[Slot(ticket[p])] = ticket[p] /\ cellTail[Slot(ticket[q])] = ticket[q]
    BY DEF IInv, ClaimersOK, DrainersOK
  <2>2. ticket[p] = ticket[q]
    BY <2>1
  <2>3. CASE p \in Claimers /\ q \in Claimers
    BY <2>2, <2>3 DEF IInv, ClaimersOK
  <2>4. CASE p \in Drainers /\ q \in Drainers
    BY <2>2, <2>4 DEF IInv, DrainersOK
  <2>5. CASE p \in Claimers /\ q \in Drainers
    BY <2>2, <2>5 DEF IInv, ClaimersOK, DrainersOK
  <2>6. CASE p \in Drainers /\ q \in Claimers
    BY <2>2, <2>6 DEF IInv, ClaimersOK, DrainersOK
  <2> QED BY <2>3, <2>4, <2>5, <2>6
<1> QED BY <1>1, Invariant, PTL

(* A cell only ever holds tickets of its own, and the one it holds is never  *)
(* older than one of its own that has been popped.                           *)
LapsOK == /\ \A c \in Cells : cellHead[c] # -1 => Slot(cellHead[c]) = c
          /\ \A t \in Nat : t < head => cellHead[Slot(t)] >= t

(* Two tickets of one cell are at least a lap apart. *)
LEMMA LapApart ==
    ASSUME NEW t \in Nat, NEW u \in Nat, Slot(t) = Slot(u), t < u
    PROVE  u >= t + Capacity
<1> DEFINE q == t \div Capacity
           s == u \div Capacity
           r == t % Capacity
<1>1. q \in Int /\ s \in Int /\ r \in Int
  BY CapacityAssumption
<1>2. t = Capacity * q + r /\ u = Capacity * s + r
  <2>1. \A v \in Nat : v = Capacity * (v \div Capacity) + (v % Capacity)
    BY CapacityAssumption
  <2>2. u % Capacity = r
    BY DEF Slot
  <2> QED BY <2>1, <2>2
<1> HIDE DEF q, s, r
<1> DEFINE k == s - q
<1>3. k \in Int /\ Capacity * k = u - t
  BY <1>1, <1>2, CapacityAssumption
<1> HIDE DEF k
<1>4. k >= 1
  <2>1. \A j \in Nat : Capacity * j >= 0
    BY CapacityAssumption
  <2>2. CASE k <= 0
    <3>1. Capacity * (-k) = t - u
      BY <1>3, CapacityAssumption
    <3>2. Capacity * (-k) >= 0
      BY <2>1, <2>2, <1>3
    <3> QED BY <3>1, <3>2
  <2> QED BY <2>2, <1>3
<1>5. \A j \in Nat : j >= 1 => Capacity * j >= Capacity
  BY CapacityAssumption
<1>6. Capacity * k >= Capacity
  BY <1>3, <1>4, <1>5
<1> QED BY <1>3, <1>6, CapacityAssumption

LEMMA LapsStep == IInv /\ LapsOK /\ [Next]_vars => LapsOK'
<1> SUFFICES ASSUME IInv, LapsOK, [Next]_vars PROVE LapsOK'
  OBVIOUS
<1> USE CapacityAssumption, SlotInCells
<1>1. ASSUME NEW p \in Procs, Local(p) PROVE LapsOK'
  BY <1>1, LocalShape DEF IInv, LapsOK
<1>2. ASSUME NEW p \in Procs, PushCas(p) PROVE LapsOK'
  BY <1>2 DEF PushCas, cells, LapsOK
<1>3. ASSUME NEW p \in Procs, PushPublish(p) PROVE LapsOK'
  <2>1. /\ ticket[p] \in Nat /\ head <= ticket[p] /\ Slot(ticket[p]) \in Cells
        /\ cellHead' = [cellHead EXCEPT ![Slot(ticket[p])] = ticket[p]]
        /\ head' = head
    BY <1>3 DEF PushPublish, counters, Claimers, IInv, ClaimersOK, TypeOK
  <2>2. \A c \in Cells : cellHead'[c] # -1 => Slot(cellHead'[c]) = c
    BY <2>1 DEF LapsOK, IInv, TypeOK
  <2>3. ASSUME NEW t \in Nat, t < head PROVE cellHead'[Slot(t)] >= t
    BY <2>1, <2>3 DEF LapsOK, IInv, TypeOK
  <2> QED BY <2>1, <2>2, <2>3 DEF LapsOK
<1>4. ASSUME NEW p \in Procs, PopCas(p) PROVE LapsOK'
  <2>1. /\ head' = head + 1 /\ cellHead' = cellHead
        /\ head \in Nat /\ cellHead[Slot(head)] = head
    BY <1>4 DEF PopCas, cells, IInv, CallersOK, TypeOK
  <2>2. ASSUME NEW t \in Nat, t < head + 1 PROVE cellHead[Slot(t)] >= t
    BY <2>1, <2>2 DEF LapsOK
  <2> QED BY <2>1, <2>2 DEF LapsOK
<1>5. ASSUME NEW p \in Procs, PopRelease(p) PROVE LapsOK'
  BY <1>5 DEF PopRelease, counters, LapsOK
<1>6. CASE UNCHANGED vars
  BY <1>6 DEF vars, LapsOK
<1> QED BY <1>1, <1>2, <1>3, <1>4, <1>5, <1>6
        DEF Next, Push, Pop, Local, LocalPush, LocalPop

LEMMA Laps == Spec => [](IInv /\ LapsOK)
<1>1. Init => LapsOK
  BY CapacityAssumption DEF Init, LapsOK
<1> QED BY <1>1, InitInv, StepInv, LapsStep, PTL DEF Spec

(* A push returns false only when the ring is full, or the pop that empties  *)
(* the cell has not released it yet, or others have pushed and popped the    *)
(* ticket it read during the call.                                           *)
THEOREM PushFailures == Spec => []PushFailureJustified
<1>1. IInv => PushFailureJustified
  <2> SUFFICES ASSUME IInv, NEW p \in Procs, pc[p] = "pushCheck",
                      cellTail[Slot(ticket[p])] # ticket[p],
                      ~ (head > ticket[p])
               PROVE  /\ tail = ticket[p]
                      /\ \/ tail - head = Capacity
                         \/ \E q \in Drainers : ticket[q] = ticket[p] - Capacity
    BY DEF PushFailureJustified
  <2>1. /\ ticket[p] \in Nat /\ ticket[p] <= tail /\ head <= ticket[p]
        /\ tail \in Nat /\ head \in Nat /\ tail <= head + Capacity
    BY CapacityAssumption DEF IInv, TypeOK, CountersOK, CallersOK
  <2>2. tail = ticket[p]
    BY <2>1 DEF IInv, ClaimedOK
  <2>3. CASE tail < head + Capacity
    BY <2>1, <2>2, <2>3 DEF IInv, FreeOK
  <2>4. CASE tail = head + Capacity
    BY <2>1, <2>2, <2>4, CapacityAssumption
  <2> QED BY <2>1, <2>2, <2>3, <2>4, CapacityAssumption
<1> QED BY <1>1, Invariant, PTL

(* A pop returns false only when the ring is empty, or the push that owns    *)
(* the oldest element has not published it yet, or the ticket it read has    *)
(* been popped and a whole lap pushed behind it during the call.             *)
THEOREM PopFailures == Spec => []PopFailureJustified
<1>1. IInv /\ LapsOK => PopFailureJustified
  <2> SUFFICES ASSUME IInv, LapsOK, NEW p \in Procs, pc[p] = "popCheck",
                      cellHead[Slot(ticket[p])] # ticket[p]
               PROVE  \/ /\ head = ticket[p]
                         /\ \/ head = tail
                            \/ \E q \in Claimers : ticket[q] = ticket[p]
                      \/ head > ticket[p] /\ tail > ticket[p] + Capacity
    BY DEF PopFailureJustified
  <2>1. /\ ticket[p] \in Nat /\ ticket[p] <= head
        /\ tail \in Nat /\ head \in Nat /\ head <= tail
    BY DEF IInv, TypeOK, CountersOK, CallersOK
  <2>2. CASE head = ticket[p]
    BY <2>1, <2>2 DEF IInv, ClaimedOK
  <2>3. CASE ticket[p] < head
    <3> DEFINE c == Slot(ticket[p])
    <3>1. c \in Cells
      BY <2>1, SlotInCells
    <3>2. cellHead[c] \in Nat \cup {-1} /\ cellHead[c] >= ticket[p] /\ cellHead[c] # ticket[p]
      BY <2>1, <2>3, <3>1 DEF IInv, TypeOK, LapsOK
    <3>3. cellHead[c] \in Nat /\ Slot(cellHead[c]) = c /\ cellHead[c] > ticket[p]
      BY <2>1, <3>1, <3>2 DEF LapsOK
    <3>4. cellHead[c] >= ticket[p] + Capacity
      BY <2>1, <3>3, LapApart
    <3>5. cellHead[c] < tail
      BY <3>1 DEF IInv, CellsOK
    <3> QED BY <2>1, <2>3, <3>3, <3>4, <3>5, CapacityAssumption
  <2> QED BY <2>1, <2>2, <2>3
<1> QED BY <1>1, Laps, PTL

(* size() never reports too few and never wraps: the head counter it loads   *)
(* first is at most the current one, and that never passes the tail.         *)
THEOREM SizeIsNeverShort == Spec => []SizeNeverShort
<1>1. IInv => SizeNeverShort
  <2> SUFFICES ASSUME IInv, NEW p \in Procs
               PROVE  /\ pc[p] = "sizeTail" => tail - ticket[p] >= tail - head /\ tail >= head
                      /\ pc[p] = "sizeReturn" => ticket[p] >= 0
    BY DEF SizeNeverShort
  <2>1. head \in Nat /\ tail \in Nat /\ head <= tail
    BY DEF IInv, TypeOK, CountersOK
  <2>2. pc[p] = "sizeTail" => ticket[p] \in Nat /\ ticket[p] <= head
    BY DEF IInv, CallersOK
  <2>3. pc[p] = "sizeReturn" => ticket[p] >= 0
    BY DEF IInv, CallersOK
  <2> QED BY <2>1, <2>2, <2>3
<1> QED BY <1>1, Invariant, PTL

(* A false of push or pop has one of the three reasons its property names,   *)
(* and size() never reports too few, for any number of threads and laps.     *)
THEOREM ReportsAreJustified == Spec => []ReportsJustified
<1>1. PushFailureJustified /\ PopFailureJustified /\ SizeNeverShort => ReportsJustified
  BY DEF ReportsJustified
<1> QED BY <1>1, PushFailures, PopFailures, SizeIsNeverShort, PTL
-----------------------------------------------------------------------------
(* LockFreeQueue implements BoundedFifo, for every set of threads, every   *)
(* set of elements, every capacity and every bound on the tickets.         *)

(* Where the elements are: with the thread that pushes, in the cell of the   *)
(* ticket, with the thread that pops.                                        *)
ItemsOK ==
    \A p \in Procs :
        /\ pc[p] \in PushPcs => item[p] \in Data
        /\ pc[p] = "pushPublish" => cellData[Slot(ticket[p])] = item[p]
        /\ pc[p] = "popRead" => cellData[Slot(ticket[p])] \in Data
        /\ pc[p] = "popRelease" => item[p] \in Data

WindowOK ==
    \A t \in Nat : (head <= t /\ t < tail /\ Published(t)) => cellData[Slot(t)] \in Data

DInv == IInv /\ ItemsOK /\ WindowOK

(* Ticket t, claimed and not popped, stands for element d. *)
Holds(t, d) ==
    \/ Published(t) /\ cellData[Slot(t)] = d
    \/ ~ Published(t) /\ \E p \in Claimers : ticket[p] = t /\ item[p] = d

LEMMA ValueHolds ==
    DInv => \A t \in Nat : (head <= t /\ t < tail) =>
                /\ Value(t) \in Data
                /\ \A d \in Data : Holds(t, d) <=> Value(t) = d
<1> SUFFICES ASSUME DInv, NEW t \in Nat, head <= t, t < tail
             PROVE  /\ Value(t) \in Data
                    /\ \A d \in Data : Holds(t, d) <=> Value(t) = d
  OBVIOUS
<1>1. CASE Published(t)
  BY <1>1 DEF DInv, WindowOK, Value, Holds
<1>2. CASE ~ Published(t)
  <2>1. PICK p \in Claimers : ticket[p] = t
    BY <1>2 DEF DInv, IInv, ClaimedOK, Published
  <2>2. \A q \in Claimers : ticket[q] = t => q = p
    BY <2>1 DEF DInv, IInv, ClaimersOK
  <2>3. (CHOOSE q \in Claimers : ticket[q] = t) = p
    BY <2>1, <2>2
  <2>4. Value(t) = item[p]
    BY <1>2, <2>3 DEF Value
  <2>5. item[p] \in Data
    BY DEF DInv, ItemsOK, Claimers, PushPcs
  <2> QED BY <1>2, <2>1, <2>2, <2>4, <2>5 DEF Holds
<1> QED BY <1>1, <1>2

(* A thread that is about to write to its cell does not disturb the ticket of *)
(* a published element, nor the element a pop is about to read.               *)
LEMMA OwnCell ==
    ASSUME IInv, NEW p \in Claimers
    PROVE  /\ Slot(ticket[p]) \in Cells /\ ticket[p] \in Nat
           /\ head <= ticket[p] /\ ticket[p] < tail /\ ~ Published(ticket[p])
           /\ \A t \in Nat : (head <= t /\ t < tail /\ Slot(t) = Slot(ticket[p]))
                                => t = ticket[p]
           /\ \A q \in Drainers : Slot(ticket[q]) # Slot(ticket[p])
<1>1. /\ head <= ticket[p] /\ ticket[p] < tail
      /\ cellTail[Slot(ticket[p])] = ticket[p]
      /\ cellHead[Slot(ticket[p])] # ticket[p]
  BY DEF IInv, ClaimersOK
<1>2. ticket[p] \in Nat /\ Slot(ticket[p]) \in Cells
  <2>1. head \in Nat /\ tail \in Nat /\ ticket[p] \in Int
    BY DEF IInv, TypeOK, Claimers
  <2> QED BY <1>1, <2>1, SlotInCells
<1>3. \A t \in Nat : (head <= t /\ t < tail) => cellTail[Slot(t)] = t
  BY DEF IInv, ClaimedOK
<1>4. \A q \in Drainers : cellTail[Slot(ticket[q])] = ticket[q]
                          /\ cellHead[Slot(ticket[q])] = ticket[q]
  BY DEF IInv, DrainersOK
<1> QED BY <1>1, <1>2, <1>3, <1>4 DEF Published

(* The steps that neither claim, write, publish nor take an element. *)
Idle(p) ==
    \/ \E d \in Data : PushLoad(p, d)
    \/ PushCheckFails(p) \/ PushCheckPasses(p) \/ PushCasFails(p)
    \/ PopLoad(p) \/ PopCheckFails(p) \/ PopCheckPasses(p) \/ PopCasFails(p)
    \/ Size(p)

LEMMA IdleShape ==
    ASSUME DInv, NEW p \in Procs, Idle(p)
    PROVE  /\ UNCHANGED <<tail, head, cellHead, cellData>>
           /\ \A q \in Procs \ {p} : UNCHANGED <<pc[q], ticket[q], item[q]>>
           /\ p \notin Claimers \cup Drainers
           /\ pc'[p] \notin {"pushWrite", "pushPublish", "popRead", "popRelease"}
           /\ pc'[p] \in PushPcs => item'[p] \in Data
<1> USE DEF DInv, IInv, TypeOK, ItemsOK, Goto, Return, counters, cells, Claimers, Drainers,
            PushPcs
<1>1. CASE \E d \in Data : PushLoad(p, d)
  BY <1>1 DEF PushLoad
<1>2. CASE PushCheckFails(p)
  BY <1>2 DEF PushCheckFails
<1>3. CASE PushCheckPasses(p)
  BY <1>3 DEF PushCheckPasses
<1>4. CASE PushCasFails(p)
  BY <1>4 DEF PushCasFails
<1>5. CASE PopLoad(p)
  BY <1>5 DEF PopLoad
<1>6. CASE PopCheckFails(p)
  BY <1>6 DEF PopCheckFails
<1>7. CASE PopCheckPasses(p)
  BY <1>7 DEF PopCheckPasses
<1>8. CASE PopCasFails(p)
  BY <1>8 DEF PopCasFails
<1>9. CASE Size(p)
  BY <1>9 DEF Size, SizeLoadHead, SizeLoadTail, SizeReturn
<1> QED BY <1>1, <1>2, <1>3, <1>4, <1>5, <1>6, <1>7, <1>8, <1>9 DEF Idle

LEMMA IdleStep ==
    ASSUME DInv, NEW p \in Procs, Idle(p)
    PROVE  /\ ItemsOK' /\ WindowOK'
           /\ \A t \in Nat, d \in Data : Holds(t, d) => Holds(t, d)'
           /\ \A q \in Procs : Taken(q)' = Taken(q)
<1>1. /\ UNCHANGED <<tail, head, cellHead, cellData>>
      /\ \A q \in Procs \ {p} : UNCHANGED <<pc[q], ticket[q], item[q]>>
      /\ p \notin Claimers \cup Drainers
      /\ pc'[p] \notin {"pushWrite", "pushPublish", "popRead", "popRelease"}
      /\ pc'[p] \in PushPcs => item'[p] \in Data
  BY IdleShape
<1>2. ItemsOK'
  <2> SUFFICES ASSUME NEW q \in Procs
               PROVE  /\ pc'[q] \in PushPcs => item'[q] \in Data
                      /\ pc'[q] = "pushPublish" => cellData'[Slot(ticket'[q])] = item'[q]
                      /\ pc'[q] = "popRead" => cellData'[Slot(ticket'[q])] \in Data
                      /\ pc'[q] = "popRelease" => item'[q] \in Data
    BY DEF ItemsOK
  <2>1. CASE q = p
    BY <1>1, <2>1
  <2>2. CASE q # p
    BY <1>1, <2>2 DEF DInv, ItemsOK
  <2> QED BY <2>1, <2>2
<1>3. WindowOK'
  BY <1>1 DEF DInv, WindowOK, Published
<1>4. \A t \in Nat, d \in Data : Holds(t, d) => Holds(t, d)'
  BY <1>1 DEF Holds, Published, Claimers
<1>5. \A q \in Procs : Taken(q)' = Taken(q)
  <2> TAKE q \in Procs
  <2>1. CASE q = p
    BY <1>1, <2>1 DEF Taken, Drainers
  <2>2. CASE q # p
    BY <1>1, <2>2 DEF Taken
  <2> QED BY <2>1, <2>2
<1> QED BY <1>2, <1>3, <1>4, <1>5

LEMMA PushCasData ==
    ASSUME DInv, NEW p \in Procs, PushCas(p)
    PROVE  /\ ItemsOK' /\ WindowOK'
           /\ \A t \in Nat, d \in Data : Holds(t, d) => Holds(t, d)'
           /\ \A q \in Procs : Taken(q)' = Taken(q)
           /\ tail' = tail + 1 /\ head' = head /\ tail < head + Capacity
           /\ \E d \in Data : \A t \in Nat : t = tail => Holds(t, d)'
<1>1. /\ tail = ticket[p] /\ tail' = tail + 1 /\ pc[p] = "pushCas"
      /\ UNCHANGED <<head, cellTail, cellHead, cellData, ticket, item>>
      /\ pc' = [pc EXCEPT ![p] = "pushWrite"]
  BY DEF PushCas, Goto, cells
<1>2. /\ pc'[p] = "pushWrite"
      /\ \A q \in Procs \ {p} : pc'[q] = pc[q]
      /\ Claimers' = Claimers \cup {p}
  BY <1>1 DEF DInv, IInv, TypeOK, Claimers
<1>3. /\ tail \in Nat /\ head \in Nat /\ Slot(tail) \in Cells
      /\ cellTail[Slot(tail)] = tail
  BY <1>1, SlotInCells DEF DInv, IInv, TypeOK, CallersOK
<1>4. tail < head + Capacity /\ ~ Published(tail)
  BY <1>3, CapacityAssumption DEF DInv, IInv, TypeOK, CellsOK, Published
<1>5. item[p] \in Data
  BY <1>1 DEF DInv, ItemsOK, PushPcs
<1>6. ItemsOK'
  BY <1>1, <1>2, <1>5 DEF DInv, ItemsOK
<1>7. WindowOK'
  BY <1>1, <1>3, <1>4 DEF DInv, WindowOK, Published
<1>8. \A t \in Nat, d \in Data : Holds(t, d) => Holds(t, d)'
  BY <1>1, <1>2 DEF Holds, Published
<1>9. \A t \in Nat : t = tail => Holds(t, item[p])'
  <2> SUFFICES ASSUME NEW t \in Nat, t = tail PROVE Holds(t, item[p])'
    OBVIOUS
  <2>1. p \in Claimers' /\ ticket'[p] = t /\ item'[p] = item[p] /\ ~ Published(t)'
    BY <1>1, <1>2, <1>4 DEF Published
  <2> QED BY <2>1 DEF Holds
<1>10. \A q \in Procs : Taken(q)' = Taken(q)
  BY <1>1, <1>2 DEF Taken
<1> QED BY <1>1, <1>4, <1>5, <1>6, <1>7, <1>8, <1>9, <1>10

LEMMA PushWriteData ==
    ASSUME DInv, NEW p \in Procs, PushWrite(p)
    PROVE  /\ ItemsOK' /\ WindowOK'
           /\ \A t \in Nat, d \in Data : (head <= t /\ t < tail /\ Holds(t, d)) => Holds(t, d)'
           /\ \A q \in Procs : Taken(q)' = Taken(q)
<1>1. /\ pc[p] = "pushWrite" /\ p \in Claimers
      /\ UNCHANGED <<tail, head, cellTail, cellHead, ticket, item>>
      /\ cellData' = [cellData EXCEPT ![Slot(ticket[p])] = item[p]]
      /\ pc' = [pc EXCEPT ![p] = "pushPublish"]
  BY DEF PushWrite, Goto, counters, Claimers
<1>2. /\ pc'[p] = "pushPublish"
      /\ \A q \in Procs \ {p} : pc'[q] = pc[q]
      /\ Claimers' = Claimers
  BY <1>1 DEF DInv, IInv, TypeOK, Claimers
<1>3. /\ Slot(ticket[p]) \in Cells /\ ~ Published(ticket[p])
      /\ \A t \in Nat : (head <= t /\ t < tail /\ Slot(t) = Slot(ticket[p])) => t = ticket[p]
      /\ \A q \in Drainers : Slot(ticket[q]) # Slot(ticket[p])
  BY <1>1, OwnCell DEF DInv
<1>4. /\ cellData'[Slot(ticket[p])] = item[p]
      /\ \A c \in Cells : c # Slot(ticket[p]) => cellData'[c] = cellData[c]
  BY <1>1, <1>3 DEF DInv, IInv, TypeOK
<1>5. \A q \in Claimers \ {p} : Slot(ticket[q]) \in Cells /\ Slot(ticket[q]) # Slot(ticket[p])
  <2> SUFFICES ASSUME NEW q \in Claimers, q # p
               PROVE  Slot(ticket[q]) \in Cells /\ Slot(ticket[q]) # Slot(ticket[p])
    OBVIOUS
  <2>1. ticket[q] # ticket[p]
    BY <1>1 DEF DInv, IInv, ClaimersOK
  <2>2. /\ Slot(ticket[q]) \in Cells /\ ticket[q] \in Nat
        /\ head <= ticket[q] /\ ticket[q] < tail
    BY OwnCell DEF DInv
  <2> QED BY <1>3, <2>1, <2>2
<1>6. \A q \in Drainers : Slot(ticket[q]) \in Cells
  BY SlotInCells DEF DInv, IInv, TypeOK, DrainersOK, Drainers
<1>7. ItemsOK'
  <2> SUFFICES ASSUME NEW q \in Procs
               PROVE  /\ pc'[q] \in PushPcs => item[q] \in Data
                      /\ pc'[q] = "pushPublish" => cellData'[Slot(ticket[q])] = item[q]
                      /\ pc'[q] = "popRead" => cellData'[Slot(ticket[q])] \in Data
                      /\ pc'[q] = "popRelease" => item[q] \in Data
    BY <1>1 DEF ItemsOK
  <2>1. CASE q = p
    BY <1>1, <1>2, <1>4, <2>1 DEF DInv, ItemsOK, PushPcs
  <2>2. CASE q # p
    <3>1. pc'[q] = pc[q]
      BY <1>2, <2>2
    <3>2. pc[q] = "pushPublish" => cellData'[Slot(ticket[q])] = cellData[Slot(ticket[q])]
      BY <1>4, <1>5, <2>2 DEF Claimers
    <3>3. pc[q] = "popRead" => cellData'[Slot(ticket[q])] = cellData[Slot(ticket[q])]
      BY <1>3, <1>4, <1>6 DEF Drainers
    <3> QED BY <3>1, <3>2, <3>3 DEF DInv, ItemsOK
  <2> QED BY <2>1, <2>2
<1>8. \A t \in Nat : (head <= t /\ t < tail /\ Published(t)) =>
                        cellData'[Slot(t)] = cellData[Slot(t)]
  BY <1>3, <1>4, SlotInCells
<1>9. WindowOK'
  BY <1>1, <1>8 DEF DInv, WindowOK, Published
<1>10. \A t \in Nat, d \in Data : (head <= t /\ t < tail /\ Holds(t, d)) => Holds(t, d)'
  BY <1>1, <1>2, <1>8 DEF Holds, Published
<1>11. \A q \in Procs : Taken(q)' = Taken(q)
  <2> TAKE q \in Procs
  <2>1. CASE q = p
    BY <1>1, <1>2, <2>1 DEF Taken
  <2>2. CASE q # p
    <3>1. pc[q] = "popRead" => cellData'[Slot(ticket[q])] = cellData[Slot(ticket[q])]
      BY <1>3, <1>4, <1>6 DEF Drainers
    <3> QED BY <1>1, <1>2, <2>2, <3>1 DEF Taken
  <2> QED BY <2>1, <2>2
<1> QED BY <1>7, <1>9, <1>10, <1>11

LEMMA PushPublishData ==
    ASSUME DInv, NEW p \in Procs, PushPublish(p)
    PROVE  /\ ItemsOK' /\ WindowOK'
           /\ \A t \in Nat, d \in Data : (head <= t /\ t < tail /\ Holds(t, d)) => Holds(t, d)'
           /\ \A q \in Procs : Taken(q)' = Taken(q)
<1>1. /\ pc[p] = "pushPublish" /\ p \in Claimers
      /\ UNCHANGED <<tail, head, cellTail, cellData>>
      /\ cellHead' = [cellHead EXCEPT ![Slot(ticket[p])] = ticket[p]]
      /\ pc' = [pc EXCEPT ![p] = "idle"]
      /\ ticket' = [ticket EXCEPT ![p] = 0]
      /\ item' = [item EXCEPT ![p] = NoData]
  BY DEF PushPublish, Goto, Return, counters, Claimers
<1>2. /\ pc'[p] = "idle"
      /\ \A q \in Procs \ {p} : UNCHANGED <<pc[q], ticket[q], item[q]>>
      /\ Claimers' = Claimers \ {p}
  BY <1>1 DEF DInv, IInv, TypeOK, Claimers
<1>3. /\ Slot(ticket[p]) \in Cells /\ ticket[p] \in Nat
      /\ ~ Published(ticket[p])
      /\ \A t \in Nat : (head <= t /\ t < tail /\ Slot(t) = Slot(ticket[p])) => t = ticket[p]
  BY <1>1, OwnCell DEF DInv
<1>4. cellData[Slot(ticket[p])] = item[p] /\ item[p] \in Data
  BY <1>1 DEF DInv, ItemsOK, PushPcs
<1>5. \A t \in Nat : (head <= t /\ t < tail) =>
                        IF t = ticket[p] THEN Published(t)' ELSE Published(t)' = Published(t)
  <2> SUFFICES ASSUME NEW t \in Nat, head <= t, t < tail
               PROVE  IF t = ticket[p] THEN Published(t)' ELSE Published(t)' = Published(t)
    OBVIOUS
  <2>1. Slot(t) \in Cells
    BY SlotInCells
  <2>2. CASE t = ticket[p]
    BY <1>1, <1>3, <2>2 DEF Published, DInv, IInv, TypeOK
  <2>3. CASE t # ticket[p]
    <3>1. Slot(t) # Slot(ticket[p])
      BY <1>3, <2>3
    <3>2. cellHead'[Slot(t)] = cellHead[Slot(t)]
      BY <1>1, <2>1, <3>1 DEF DInv, IInv, TypeOK
    <3> QED BY <2>3, <3>2 DEF Published
  <2> QED BY <2>2, <2>3
<1>6. ItemsOK'
  <2> SUFFICES ASSUME NEW q \in Procs
               PROVE  /\ pc'[q] \in PushPcs => item'[q] \in Data
                      /\ pc'[q] = "pushPublish" => cellData'[Slot(ticket'[q])] = item'[q]
                      /\ pc'[q] = "popRead" => cellData'[Slot(ticket'[q])] \in Data
                      /\ pc'[q] = "popRelease" => item'[q] \in Data
    BY DEF ItemsOK
  <2>1. CASE q = p
    BY <1>2, <2>1 DEF PushPcs
  <2>2. CASE q # p
    BY <1>1, <1>2, <2>2 DEF DInv, ItemsOK
  <2> QED BY <2>1, <2>2
<1>7. WindowOK'
  <2> SUFFICES ASSUME NEW t \in Nat, head <= t, t < tail, Published(t)'
               PROVE  cellData[Slot(t)] \in Data
    BY <1>1 DEF WindowOK
  <2>1. CASE t = ticket[p]
    BY <1>4, <2>1
  <2>2. CASE t # ticket[p]
    BY <1>5, <2>2 DEF DInv, WindowOK
  <2> QED BY <2>1, <2>2
<1>8. \A t \in Nat, d \in Data : (head <= t /\ t < tail /\ Holds(t, d)) => Holds(t, d)'
  <2> SUFFICES ASSUME NEW t \in Nat, NEW d \in Data, head <= t, t < tail, Holds(t, d)
               PROVE  Holds(t, d)'
    OBVIOUS
  <2>1. CASE t = ticket[p]
    <3>1. PICK q \in Claimers : ticket[q] = t /\ item[q] = d
      BY <1>3, <2>1 DEF Holds
    <3>2. q = p
      BY <1>1, <2>1, <3>1 DEF DInv, IInv, ClaimersOK
    <3> QED BY <1>1, <1>4, <1>5, <2>1, <3>1, <3>2 DEF Holds
  <2>2. CASE t # ticket[p]
    <3>1. Published(t)' = Published(t)
      BY <1>5, <2>2
    <3>2. CASE Published(t)
      BY <1>1, <3>1, <3>2 DEF Holds
    <3>3. CASE ~ Published(t)
      <4>1. PICK q \in Claimers : ticket[q] = t /\ item[q] = d
        BY <3>3 DEF Holds
      <4>2. q \in Claimers' /\ ticket'[q] = t /\ item'[q] = d
        BY <1>2, <2>2, <4>1 DEF Claimers
      <4> QED BY <3>1, <3>3, <4>2 DEF Holds
    <3> QED BY <3>2, <3>3
  <2> QED BY <2>1, <2>2
<1>9. \A q \in Procs : Taken(q)' = Taken(q)
  <2> TAKE q \in Procs
  <2>1. CASE q = p
    BY <1>1, <1>2, <2>1 DEF Taken
  <2>2. CASE q # p
    BY <1>1, <1>2, <2>2 DEF Taken
  <2> QED BY <2>1, <2>2
<1> QED BY <1>6, <1>7, <1>8, <1>9

LEMMA PopCasData ==
    ASSUME DInv, NEW p \in Procs, PopCas(p)
    PROVE  /\ ItemsOK' /\ WindowOK'
           /\ \A t \in Nat, d \in Data : Holds(t, d) => Holds(t, d)'
           /\ \A q \in Procs \ {p} : Taken(q)' = Taken(q)
           /\ tail' = tail /\ head' = head + 1 /\ head < tail
           /\ Taken(p) = NoData /\ Taken(p)' = Value(head)
<1>1. /\ pc[p] = "popCas" /\ head = ticket[p] /\ head' = head + 1
      /\ UNCHANGED <<tail, cellTail, cellHead, cellData, ticket, item>>
      /\ pc' = [pc EXCEPT ![p] = "popRead"]
  BY DEF PopCas, Goto, cells
<1>2. /\ pc'[p] = "popRead"
      /\ \A q \in Procs \ {p} : pc'[q] = pc[q]
      /\ Claimers' = Claimers
  BY <1>1 DEF DInv, IInv, TypeOK, Claimers
<1>3. head \in Nat /\ tail \in Nat /\ Slot(head) \in Cells /\ Published(head)
  BY <1>1, SlotInCells DEF DInv, IInv, TypeOK, CallersOK, Published
<1>4. head < tail
  BY <1>3 DEF DInv, IInv, CellsOK, Published
<1>5. cellData[Slot(head)] \in Data /\ Value(head) = cellData[Slot(head)]
  BY <1>3, <1>4 DEF DInv, WindowOK, Value
<1>6. ItemsOK'
  BY <1>1, <1>2, <1>5 DEF DInv, ItemsOK, PushPcs
<1>7. WindowOK'
  BY <1>1, <1>3 DEF DInv, WindowOK, Published
<1>8. \A t \in Nat, d \in Data : Holds(t, d) => Holds(t, d)'
  BY <1>1, <1>2 DEF Holds, Published
<1>9. \A q \in Procs \ {p} : Taken(q)' = Taken(q)
  BY <1>1, <1>2 DEF Taken
<1>10. Taken(p) = NoData /\ Taken(p)' = Value(head)
  BY <1>1, <1>2, <1>5 DEF Taken
<1> QED BY <1>1, <1>4, <1>6, <1>7, <1>8, <1>9, <1>10

LEMMA PopReadData ==
    ASSUME DInv, NEW p \in Procs, PopRead(p)
    PROVE  /\ ItemsOK' /\ WindowOK'
           /\ \A t \in Nat, d \in Data : Holds(t, d) => Holds(t, d)'
           /\ \A q \in Procs : Taken(q)' = Taken(q)
<1>1. /\ pc[p] = "popRead"
      /\ UNCHANGED <<tail, head, cellTail, cellHead, cellData, ticket>>
      /\ item' = [item EXCEPT ![p] = cellData[Slot(ticket[p])]]
      /\ pc' = [pc EXCEPT ![p] = "popRelease"]
  BY DEF PopRead, Goto, counters, cells
<1>2. /\ pc'[p] = "popRelease" /\ item'[p] = cellData[Slot(ticket[p])]
      /\ \A q \in Procs \ {p} : UNCHANGED <<pc[q], item[q]>>
      /\ Claimers' = Claimers /\ p \notin Claimers
  BY <1>1 DEF DInv, IInv, TypeOK, Claimers
<1>3. cellData[Slot(ticket[p])] \in Data
  BY <1>1 DEF DInv, ItemsOK
<1>4. ItemsOK'
  <2> SUFFICES ASSUME NEW q \in Procs
               PROVE  /\ pc'[q] \in PushPcs => item'[q] \in Data
                      /\ pc'[q] = "pushPublish" => cellData'[Slot(ticket'[q])] = item'[q]
                      /\ pc'[q] = "popRead" => cellData'[Slot(ticket'[q])] \in Data
                      /\ pc'[q] = "popRelease" => item'[q] \in Data
    BY DEF ItemsOK
  <2>1. CASE q = p
    BY <1>2, <1>3, <2>1 DEF PushPcs
  <2>2. CASE q # p
    BY <1>1, <1>2, <2>2 DEF DInv, ItemsOK
  <2> QED BY <2>1, <2>2
<1>5. WindowOK'
  BY <1>1 DEF DInv, WindowOK, Published
<1>6. \A t \in Nat, d \in Data : Holds(t, d) => Holds(t, d)'
  BY <1>1, <1>2 DEF Holds, Published, Claimers
<1>7. \A q \in Procs : Taken(q)' = Taken(q)
  BY <1>1, <1>2 DEF Taken
<1> QED BY <1>4, <1>5, <1>6, <1>7

LEMMA PopReleaseData ==
    ASSUME DInv, NEW p \in Procs, PopRelease(p)
    PROVE  /\ ItemsOK' /\ WindowOK'
           /\ \A t \in Nat, d \in Data : Holds(t, d) => Holds(t, d)'
           /\ \A q \in Procs \ {p} : Taken(q)' = Taken(q)
           /\ tail' = tail /\ head' = head
           /\ Taken(p) \in Data /\ Taken(p)' = NoData
<1>1. /\ pc[p] = "popRelease"
      /\ UNCHANGED <<tail, head, cellHead, cellData>>
      /\ pc' = [pc EXCEPT ![p] = "idle"]
      /\ ticket' = [ticket EXCEPT ![p] = 0]
      /\ item' = [item EXCEPT ![p] = NoData]
  BY DEF PopRelease, Goto, Return, counters
<1>2. /\ pc'[p] = "idle"
      /\ \A q \in Procs \ {p} : UNCHANGED <<pc[q], ticket[q], item[q]>>
      /\ Claimers' = Claimers /\ p \notin Claimers
  BY <1>1 DEF DInv, IInv, TypeOK, Claimers
<1>3. ItemsOK'
  <2> SUFFICES ASSUME NEW q \in Procs
               PROVE  /\ pc'[q] \in PushPcs => item'[q] \in Data
                      /\ pc'[q] = "pushPublish" => cellData'[Slot(ticket'[q])] = item'[q]
                      /\ pc'[q] = "popRead" => cellData'[Slot(ticket'[q])] \in Data
                      /\ pc'[q] = "popRelease" => item'[q] \in Data
    BY DEF ItemsOK
  <2>1. CASE q = p
    BY <1>2, <2>1 DEF PushPcs
  <2>2. CASE q # p
    BY <1>1, <1>2, <2>2 DEF DInv, ItemsOK
  <2> QED BY <2>1, <2>2
<1>4. WindowOK'
  BY <1>1 DEF DInv, WindowOK, Published
<1>5. \A t \in Nat, d \in Data : Holds(t, d) => Holds(t, d)'
  BY <1>1, <1>2 DEF Holds, Published, Claimers
<1>6. \A q \in Procs \ {p} : Taken(q)' = Taken(q)
  BY <1>1, <1>2 DEF Taken
<1>7. Taken(p) \in Data /\ Taken(p)' = NoData
  BY <1>1, <1>2 DEF Taken, DInv, ItemsOK
<1> QED BY <1>1, <1>3, <1>4, <1>5, <1>6, <1>7
-----------------------------------------------------------------------------
(* The two variables of BoundedFifo. *)
Elements == [i \in 1 .. tail - head |-> Value(head + i - 1)]
Outs == [p \in Procs |-> Taken(p)]

LEMMA ElementsIs ==
    DInv => /\ tail - head \in Nat
            /\ Elements \in Seq(Data) /\ Len(Elements) = tail - head
            /\ \A i \in 1 .. tail - head : Elements[i] = Value(head + i - 1)
<1> SUFFICES ASSUME DInv
             PROVE  /\ tail - head \in Nat
                    /\ Elements \in Seq(Data) /\ Len(Elements) = tail - head
                    /\ \A i \in 1 .. tail - head : Elements[i] = Value(head + i - 1)
  OBVIOUS
<1>1. head \in Nat /\ tail \in Nat /\ tail - head \in Nat
  BY DEF DInv, IInv, TypeOK, CountersOK
<1>2. \A i \in 1 .. tail - head : Value(head + i - 1) \in Data
  <2> TAKE i \in 1 .. tail - head
  <2>1. head + i - 1 \in Nat /\ head <= head + i - 1 /\ head + i - 1 < tail
    BY <1>1
  <2> QED BY <2>1, ValueHolds
<1>3. Elements \in [1 .. tail - head -> Data]
  BY <1>2 DEF Elements
<1> QED BY <1>1, <1>3 DEF Elements

LEMMA DStep == DInv /\ [Next]_vars => DInv'
<1> SUFFICES ASSUME DInv, [Next]_vars PROVE DInv'
  OBVIOUS
<1>1. IInv'
  BY StepInv DEF DInv
<1>2. CASE UNCHANGED vars
  BY <1>1, <1>2 DEF DInv, vars, ItemsOK, WindowOK, Published
<1>3. ASSUME NEW p \in Procs, Push(p) \/ Pop(p) \/ Size(p)
      PROVE  ItemsOK' /\ WindowOK'
  BY <1>3, IdleStep, PushCasData, PushWriteData, PushPublishData, PopCasData, PopReadData,
     PopReleaseData DEF Push, Pop, Idle
<1> QED BY <1>1, <1>2, <1>3 DEF Next, DInv

(* The same at the end of a step. *)
LEMMA ValueHoldsNext ==
    DInv' => (\A t \in Nat : (head <= t /\ t < tail) =>
                /\ Value(t) \in Data
                /\ \A d \in Data : Holds(t, d) <=> Value(t) = d)'
BY ValueHolds, PTL

LEMMA ElementsIsNext ==
    DInv' => (/\ tail - head \in Nat
              /\ Elements \in Seq(Data) /\ Len(Elements) = tail - head
              /\ \A i \in 1 .. tail - head : Elements[i] = Value(head + i - 1))'
BY ElementsIs, PTL

(* What the ticket of a claimed element stands for does not change. *)
LEMMA ValueKept ==
    DInv /\ [Next]_vars =>
        \A t \in Nat : (head <= t /\ t < tail /\ head' <= t /\ t < tail') => Value(t)' = Value(t)
<1> SUFFICES ASSUME DInv, [Next]_vars, NEW t \in Nat, head <= t, t < tail, head' <= t, t < tail'
             PROVE  Value(t)' = Value(t)
  OBVIOUS
<1>1. DInv'
  BY DStep
<1>2. Value(t) \in Data /\ Holds(t, Value(t))
  BY ValueHolds
<1>3. \A d \in Data : Holds(t, d) => Holds(t, d)'
  <2>1. CASE UNCHANGED vars
    BY <2>1 DEF vars, Holds, Published, Claimers
  <2>2. ASSUME NEW p \in Procs, Push(p) \/ Pop(p) \/ Size(p)
        PROVE  \A d \in Data : Holds(t, d) => Holds(t, d)'
    BY <2>2, IdleStep, PushCasData, PushWriteData, PushPublishData, PopCasData, PopReadData,
       PopReleaseData DEF Push, Pop, Idle
  <2> QED BY <2>1, <2>2 DEF Next
<1>4. \A d \in Data : Holds(t, d)' <=> Value(t)' = d
  BY <1>1, ValueHoldsNext
<1> QED BY <1>2, <1>3, <1>4

(* A step that claims and takes nothing. *)
LEMMA Stutter ==
    ASSUME DInv, [Next]_vars, UNCHANGED <<tail, head>>, \A p \in Procs : Taken(p)' = Taken(p)
    PROVE  UNCHANGED <<Elements, Outs>>
<1>1. head \in Nat /\ tail \in Nat
  BY DEF DInv, IInv, TypeOK
<1>2. \A i \in 1 .. tail - head : Value(head + i - 1)' = Value(head + i - 1)
  <2> TAKE i \in 1 .. tail - head
  <2>1. PICK t \in Nat : t = head + i - 1 /\ head <= t /\ t < tail
    BY <1>1
  <2>2. Value(t)' = Value(t)
    BY <2>1, ValueKept
  <2> QED BY <2>1, <2>2
<1>3. Elements' = Elements
  BY <1>2 DEF Elements
<1> QED BY <1>3 DEF Outs

LEMMA PushCasEnqueues ==
    ASSUME DInv, NEW p \in Procs, PushCas(p)
    PROVE  \E d \in Data : Fifo!Enqueue(d)
<1>1. [Next]_vars
  BY DEF Next, Push
<1>2. DInv'
  BY <1>1, DStep
<1>3. tail' = tail + 1 /\ head' = head /\ tail < head + Capacity
  BY PushCasData
<1>4. head \in Nat /\ tail \in Nat /\ head <= tail
  BY DEF DInv, IInv, TypeOK, CountersOK
<1>5. PICK d \in Data : \A t \in Nat : t = tail => Holds(t, d)'
  BY PushCasData
<1>6. \A t \in Nat : t = tail => Value(t)' = d
  BY <1>2, <1>3, <1>4, <1>5, ValueHoldsNext
<1> DEFINE n == tail - head
<1>7. /\ n \in Nat
      /\ Elements \in Seq(Data) /\ Len(Elements) = n
      /\ \A i \in 1 .. n : Elements[i] = Value(head + i - 1)
  BY ElementsIs
<1>8. /\ Elements' \in Seq(Data) /\ Len(Elements') = n + 1
      /\ \A i \in 1 .. n + 1 : Elements'[i] = Value(head + i - 1)'
  <2>1. tail' - head' = n + 1
    BY <1>3, <1>4
  <2> QED BY <1>2, <1>3, <2>1, ElementsIsNext
<1>9. Elements' = Append(Elements, d)
  <2>1. /\ Append(Elements, d) \in Seq(Data) /\ Len(Append(Elements, d)) = n + 1
        /\ Append(Elements, d)[n + 1] = d
        /\ \A i \in 1 .. n : Append(Elements, d)[i] = Elements[i]
    BY <1>7
  <2>2. Elements'[n + 1] = d
    <3>1. PICK t \in Nat : t = tail /\ t = head + (n + 1) - 1
      BY <1>4
    <3>2. Elements'[n + 1] = Value(t)'
      BY <1>3, <1>7, <1>8, <3>1
    <3> QED BY <1>6, <3>1, <3>2
  <2>3. \A i \in 1 .. n : Elements'[i] = Elements[i]
    <3> TAKE i \in 1 .. n
    <3>1. PICK t \in Nat : t = head + i - 1 /\ head <= t /\ t < tail
      BY <1>4
    <3>2. Value(t)' = Value(t)
      BY <1>1, <1>3, <1>4, <3>1, ValueKept
    <3> QED BY <1>3, <1>7, <1>8, <3>1, <3>2
  <2>4. \A i \in 1 .. n + 1 : Elements'[i] = Append(Elements, d)[i]
    BY <1>7, <2>1, <2>2, <2>3
  <2> QED BY <1>7, <1>8, <2>1, <2>4, SeqEqual
<1>10. Outs' = Outs
  BY PushCasData DEF Outs
<1>11. Len(Elements) < Capacity
  BY <1>3, <1>4, <1>7, CapacityAssumption
<1> QED BY <1>9, <1>10, <1>11 DEF Fifo!Enqueue, Elements, Outs

LEMMA PopCasDequeues ==
    ASSUME DInv, NEW p \in Procs, PopCas(p)
    PROVE  Fifo!Dequeue(p)
<1>1. [Next]_vars
  BY DEF Next, Pop
<1>2. DInv'
  BY <1>1, DStep
<1>3. tail' = tail /\ head' = head + 1 /\ head < tail
  BY PopCasData
<1>4. head \in Nat /\ tail \in Nat
  BY DEF DInv, IInv, TypeOK
<1> DEFINE n == tail - head
<1>5. /\ n \in Nat \ {0}
      /\ Elements \in Seq(Data) /\ Len(Elements) = n
      /\ \A i \in 1 .. n : Elements[i] = Value(head + i - 1)
  BY <1>3, <1>4, ElementsIs
<1>6. /\ Elements' \in Seq(Data) /\ Len(Elements') = n - 1
      /\ \A i \in 1 .. n - 1 : Elements'[i] = Value(head + i - 1)'
  <2>1. tail' - head' = n - 1
    BY <1>3, <1>4
  <2> QED BY <1>2, <2>1, ElementsIsNext
<1>7. /\ Elements # <<>> /\ Head(Elements) = Elements[1]
      /\ Tail(Elements) \in Seq(Data) /\ Len(Tail(Elements)) = n - 1
      /\ \A i \in 1 .. n - 1 : Tail(Elements)[i] = Elements[i + 1]
  BY <1>5
<1>8. Head(Elements) = Value(head)
  <2>1. 1 \in 1 .. n /\ head + 1 - 1 = head
    BY <1>4, <1>5
  <2> QED BY <1>5, <1>7, <2>1
<1>9. Elements' = Tail(Elements)
  <2>1. \A i \in 1 .. n - 1 : Elements'[i] = Elements[i + 1]
    <3> TAKE i \in 1 .. n - 1
    <3>1. PICK t \in Nat : t = head + i /\ head' <= t /\ t < tail
      BY <1>3, <1>4
    <3>2. Value(t)' = Value(t)
      BY <1>1, <1>3, <1>4, <3>1, ValueKept
    <3>3. head' + i - 1 = t /\ head + (i + 1) - 1 = t /\ i + 1 \in 1 .. n
      BY <1>3, <1>4, <1>5, <3>1
    <3>4. Elements'[i] = Value(t)'
      BY <1>6, <3>3
    <3>5. Elements[i + 1] = Value(t)
      BY <1>5, <3>3
    <3> QED BY <3>2, <3>4, <3>5
  <2>2. \A i \in 1 .. n - 1 : Elements'[i] = Tail(Elements)[i]
    BY <1>7, <2>1
  <2> QED BY <1>6, <1>7, <2>2, SeqEqual
<1>10. Outs[p] = NoData /\ Outs' = [Outs EXCEPT ![p] = Head(Elements)]
  BY <1>8, PopCasData DEF Outs
<1> QED BY <1>7, <1>9, <1>10 DEF Fifo!Dequeue, Elements, Outs

LEMMA PopReleaseDelivers ==
    ASSUME DInv, NEW p \in Procs, PopRelease(p)
    PROVE  Fifo!Deliver(p)
<1>1. [Next]_vars
  BY DEF Next, Pop
<1>2. Taken(p) \in Data /\ Taken(p)' = NoData /\ \A q \in Procs \ {p} : Taken(q)' = Taken(q)
  BY PopReleaseData
<1>3. Outs[p] # NoData /\ Outs' = [Outs EXCEPT ![p] = NoData]
  BY <1>2, DataAssumption DEF Outs
<1>4. Elements' = Elements
  <2>1. head \in Nat /\ tail \in Nat /\ head' = head /\ tail' = tail
    BY PopReleaseData DEF DInv, IInv, TypeOK
  <2>2. \A i \in 1 .. tail - head : Value(head + i - 1)' = Value(head + i - 1)
    <3> TAKE i \in 1 .. tail - head
    <3>1. PICK t \in Nat : t = head + i - 1 /\ head <= t /\ t < tail
      BY <2>1
    <3>2. Value(t)' = Value(t)
      BY <1>1, <2>1, <3>1, ValueKept
    <3> QED BY <2>1, <3>1, <3>2
  <2> QED BY <2>1, <2>2 DEF Elements
<1> QED BY <1>3, <1>4 DEF Fifo!Deliver, Elements, Outs

(* The items, the cells and the window agree on where each element is.      *)
THEOREM DataInvariant == Spec => []DInv
<1>1. Init => DInv
  <2> SUFFICES ASSUME Init PROVE DInv
    OBVIOUS
  <2>1. ItemsOK /\ WindowOK
    BY DEF Init, ItemsOK, WindowOK, PushPcs
  <2> QED BY <2>1, InitInv DEF DInv
<1>2. DInv /\ [Next]_vars => DInv'
  BY DStep
<1> QED BY <1>1, <1>2, PTL DEF Spec

(* The ring implements one FIFO queue: a successful push takes effect at its *)
(* CAS, a successful pop at its own, whatever the interleaving of the calls. *)
THEOREM RingImplementsFifo == Spec => ImplementsFifo
<1>1. Init => Fifo!Init
  <2> SUFFICES ASSUME Init PROVE Fifo!Init
    OBVIOUS
  <2>1. Elements = <<>>
    BY DEF Init, Elements
  <2>2. Outs = [p \in Procs |-> NoData]
    BY DEF Init, Outs, Taken
  <2> QED BY <2>1, <2>2 DEF Fifo!Init, Elements, Outs
<1>2. DInv /\ [Next]_vars => [Fifo!Next]_Fifo!vars
  <2> SUFFICES ASSUME DInv, [Next]_vars PROVE [Fifo!Next]_Fifo!vars
    OBVIOUS
  <2>1. UNCHANGED <<Elements, Outs>> => UNCHANGED Fifo!vars
    BY DEF Fifo!vars, Elements, Outs
  <2>2. CASE UNCHANGED vars
    <3>1. UNCHANGED <<tail, head>> /\ \A p \in Procs : Taken(p)' = Taken(p)
      BY <2>2 DEF vars, Taken
    <3> QED BY <2>1, <3>1, Stutter
  <2>3. ASSUME NEW p \in Procs, Idle(p) \/ PushWrite(p) \/ PushPublish(p) \/ PopRead(p)
        PROVE  UNCHANGED Fifo!vars
    <3>1. UNCHANGED <<tail, head>>
      BY <2>3, IdleShape DEF PushWrite, PushPublish, PopRead, counters
    <3>2. \A q \in Procs : Taken(q)' = Taken(q)
      BY <2>3, IdleStep, PushWriteData, PushPublishData, PopReadData
    <3> QED BY <2>1, <3>1, <3>2, Stutter
  <2>4. ASSUME NEW p \in Procs, PushCas(p) \/ PopCas(p) \/ PopRelease(p)
        PROVE  Fifo!Next
    BY <2>4, PushCasEnqueues, PopCasDequeues, PopReleaseDelivers DEF Fifo!Next
  <2> QED BY <2>2, <2>3, <2>4 DEF Next, Push, Pop, Idle
<1> QED BY <1>1, <1>2, DataInvariant, PTL DEF Spec, ImplementsFifo, Fifo!Spec
=============================================================================
